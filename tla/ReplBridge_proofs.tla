-------------------------- MODULE ReplBridge_proofs -------------------------
(***************************************************************************)
(* What is typed into the remote console reaches the child, and what the   *)
(* child writes reaches the page, for any number of lines of any length,   *)
(* any buffer of the child and any interleaving of the clients' threads,   *)
(* the child, the listener and the events.                                 *)
(***************************************************************************)
EXTENDS ReplBridge, JobFiles_proofs, SequenceTheorems

-----------------------------------------------------------------------------
(* The inductive invariant *)

\* What has gone through the terminal's queue.
Typed == taken \o tty

\* Without a terminal nothing is typed; with one, the thread of the last line,
\* if it was always the only one, has typed what its line lacks no longer.
QueueInv ==
  /\ ~isTty => taken = <<>> /\ tty = <<>>
  /\ ~overlap =>
       /\ \A l \in Lines : l # posted => typing[l] = <<>>
       /\ isTty => wanted = IF posted = 0 THEN Typed ELSE Typed \o typing[posted]

\* What was typed of a line lies before what is still to be typed of it.
OrderInv ==
  /\ InOrder(Typed)
  /\ \A i \in DOMAIN Typed : Typed[i][1] <= posted
  /\ \A l \in Lines :
       /\ typing[l] # <<>> => l <= posted
       /\ InOrder(typing[l])
       /\ \A j \in DOMAIN typing[l] : typing[l][j][1] = l
       /\ \A i \in DOMAIN Typed, j \in DOMAIN typing[l] : Before(Typed[i], typing[l][j])

\* A call of fgets() returns at most one line.
LineOK(line) ==
  /\ \A k \in 1 .. Len(line) - 1 : ~IsNewline(line[k])
  /\ Len(line) < MaxInput
  /\ IsNewline(Last(line)) \/ Len(line) = MaxInput - 1

ReadInv == \A i \in DOMAIN readLines : LineOK(readLines[i])

\* An event is on its way only to a notified page, and a page that has not
\* connected shows nothing.
EventInv ==
  /\ conn = "none" => shown = <<>>
  /\ conn # "notified" => message = <<>>
  /\ ShownUnlessLost

IndInv == TypeOK /\ QueueInv /\ OrderInv /\ ReadInv /\ EventInv

-----------------------------------------------------------------------------
(* Sequences *)

\* Three sequences may be joined in either order.
LEMMA Regroup ==
  ASSUME NEW S
  PROVE  \A x, y, z \in Seq(S) : (x \o y) \o z = x \o (y \o z)
BY ConcatAssociative

\* What the page is shown may be joined in either order.
LEMMA ConvertedRegroup ==
  ASSUME NEW x \in Seq(Converted), NEW y \in Seq(Converted), NEW z \in Seq(Converted)
  PROVE  (x \o y) \o z = x \o (y \o z)
BY Regroup

\* The form in which a piece arrives.
Form(piece) == <<piece[1], IF piece[2] = "special" THEN "altered" ELSE piece[2]>>

\* The conversion keeps the number of the pieces and treats each for itself.
LEMMA ConvertPieces ==
  ASSUME NEW s \in Seq(Pieces)
  PROVE  /\ Convert(s) \in Seq(Converted) /\ Len(Convert(s)) = Len(s)
         /\ \A i \in 1 .. Len(s) : Convert(s)[i] = Form(s[i])
<1>1. Len(s) \in Nat /\ DOMAIN s = 1 .. Len(s) /\ \A i \in 1 .. Len(s) : s[i] \in Pieces
  BY ElementOfSeq
<1>2. ASSUME NEW piece \in Pieces
      PROVE  Form(piece) \in Converted
  <2>1. piece[1] \in Nat /\ piece[2] \in {"plain", "special", "broken"}
    BY DEF Pieces, OutputKinds
  <2>2. QED
    BY <2>1 DEF Form, Converted
<1>3. Convert(s) = [i \in 1 .. Len(s) |-> Form(s[i])]
  BY <1>1 DEF Convert, Form
<1>4. Convert(s) \in [1 .. Len(s) -> Converted]
  BY <1>1, <1>2, <1>3
<1>5. Convert(s) \in Seq(Converted) /\ Len(Convert(s)) = Len(s)
  BY <1>1, <1>4
<1>6. QED
  BY <1>3, <1>5

\* It does not matter whether output is joined before or after the conversion.
LEMMA ConvertConcat ==
  ASSUME NEW s \in Seq(Pieces), NEW t \in Seq(Pieces)
  PROVE  Convert(s \o t) = Convert(s) \o Convert(t)
<1>1. /\ s \o t \in Seq(Pieces) /\ Len(s \o t) = Len(s) + Len(t)
      /\ Len(s) \in Nat /\ Len(t) \in Nat
      /\ \A i \in 1 .. Len(s) + Len(t) : (s \o t)[i] = IF i <= Len(s) THEN s[i] ELSE t[i - Len(s)]
  BY ConcatProperties
<1>2. PICK a, b, c : a = Convert(s) /\ b = Convert(t) /\ c = Convert(s \o t)
  OBVIOUS
<1>3. /\ a \in Seq(Converted) /\ Len(a) = Len(s) /\ \A i \in 1 .. Len(s) : a[i] = Form(s[i])
      /\ b \in Seq(Converted) /\ Len(b) = Len(t) /\ \A i \in 1 .. Len(t) : b[i] = Form(t[i])
  BY <1>2, ConvertPieces
<1>4. /\ c \in Seq(Converted) /\ Len(c) = Len(s) + Len(t)
      /\ \A i \in 1 .. Len(s) + Len(t) : c[i] = Form((s \o t)[i])
  BY <1>1, <1>2, ConvertPieces
<1>5. /\ a \o b \in Seq(Converted) /\ Len(a \o b) = Len(s) + Len(t)
      /\ \A i \in 1 .. Len(s) + Len(t) : (a \o b)[i] = IF i <= Len(s) THEN a[i] ELSE b[i - Len(s)]
  <2>1. a \in Seq(Converted) /\ b \in Seq(Converted)
    BY <1>3
  <2>2. /\ a \o b \in Seq(Converted) /\ Len(a \o b) = Len(a) + Len(b)
        /\ \A i \in 1 .. Len(a) + Len(b) :
             (a \o b)[i] = IF i <= Len(a) THEN a[i] ELSE b[i - Len(a)]
    BY <2>1, ConcatProperties
  <2>3. QED
    BY <1>3, <2>2
<1>6. ASSUME NEW i \in 1 .. Len(s) + Len(t)
      PROVE  c[i] = (a \o b)[i]
  <2>1. CASE i <= Len(s)
    <3>1. i \in 1 .. Len(s)
      BY <1>1, <2>1
    <3>2. (s \o t)[i] = s[i] /\ (a \o b)[i] = a[i]
      BY <1>1, <1>5, <2>1
    <3>3. QED
      BY <1>3, <1>4, <3>1, <3>2
  <2>2. CASE ~(i <= Len(s))
    <3>1. i - Len(s) \in 1 .. Len(t)
      BY <1>1, <2>2
    <3>2. (s \o t)[i] = t[i - Len(s)] /\ (a \o b)[i] = b[i - Len(s)]
      BY <1>1, <1>5, <2>2
    <3>3. QED
      BY <1>3, <1>4, <3>1, <3>2
  <2>3. QED
    BY <2>1, <2>2
<1>7. c = a \o b
  BY <1>1, <1>4, <1>5, <1>6, SeqEqual
<1>8. QED
  BY <1>2, <1>7

\* Nothing is made of nothing.
LEMMA ConvertEmpty ==
  Convert(<<>>) = <<>>
<1>1. <<>> \in Seq(Pieces) /\ Len(<<>>) = 0
  OBVIOUS
<1>2. Convert(<<>>) \in Seq(Converted) /\ Len(Convert(<<>>)) = 0
  BY <1>1, ConvertPieces
<1>3. QED
  BY <1>2, EmptySeq

\* A sequence cut in two.
LEMMA CutSeq ==
  ASSUME NEW S, NEW s \in Seq(S), NEW k \in 0 .. Len(s)
  PROVE  /\ SubSeq(s, 1, k) \in Seq(S) /\ SubSeq(s, k + 1, Len(s)) \in Seq(S)
         /\ Len(SubSeq(s, 1, k)) = k
         /\ \A i \in 1 .. k : SubSeq(s, 1, k)[i] = s[i]
         /\ SubSeq(s, 1, k) \o SubSeq(s, k + 1, Len(s)) = s
<1>1. k \in Int /\ k + 1 \in Int /\ Len(s) \in Nat /\ 1 \in 1 .. Len(s) + 1
      /\ k \in 1 - 1 .. Len(s) /\ Len(s) \in k .. Len(s)
  OBVIOUS
<1>2. \A i \in 1 .. Len(s) : s[i] \in S
  BY ElementOfSeq
<1>3. /\ SubSeq(s, 1, k) \in Seq(S)
      /\ Len(SubSeq(s, 1, k)) = IF 1 <= k THEN k - 1 + 1 ELSE 0
      /\ \A i \in 1 .. k - 1 + 1 : SubSeq(s, 1, k)[i] = s[1 + i - 1]
  <2>1. \A i \in 1 .. k : s[i] \in S
    BY <1>2
  <2>2. QED
    BY <1>1, <2>1, SubSeqProperties
<1>4. SubSeq(s, k + 1, Len(s)) \in Seq(S)
  <2>1. \A i \in k + 1 .. Len(s) : s[i] \in S
    BY <1>2
  <2>2. QED
    BY <1>1, <2>1, SubSeqProperties
<1>5. SubSeq(s, 1, k) \o SubSeq(s, k + 1, Len(s)) = s
  BY <1>1, ConcatAdjacentSubSeq, SubSeqFull
<1>6. Len(SubSeq(s, 1, k)) = k
  BY <1>1, <1>3
<1>7. ASSUME NEW i \in 1 .. k
      PROVE  SubSeq(s, 1, k)[i] = s[i]
  <2>1. i \in 1 .. k - 1 + 1 /\ 1 + i - 1 = i
    BY <1>1
  <2>2. QED
    BY <1>3, <2>1
<1>8. QED
  BY <1>3, <1>4, <1>5, <1>6, <1>7

\* The first element moves from one sequence to the end of another.
LEMMA MoveHead ==
  ASSUME NEW S, NEW s \in Seq(S), NEW t \in Seq(S), t # <<>>
  PROVE  Append(s, Head(t)) \o Tail(t) = s \o t
<1>1. /\ Head(t) \in S /\ Tail(t) \in Seq(S) /\ Len(Tail(t)) = Len(t) - 1
      /\ \A i \in 1 .. Len(Tail(t)) : Tail(t)[i] = t[i + 1]
      /\ Head(t) = t[1] /\ Len(s) \in Nat /\ Len(t) \in Nat
  BY HeadTailProperties
<1>2. PICK a : a = Append(s, Head(t))
  OBVIOUS
<1>3. /\ a \in Seq(S) /\ Len(a) = Len(s) + 1
      /\ \A i \in 1 .. Len(s) : a[i] = s[i]
      /\ a[Len(s) + 1] = t[1]
  BY <1>1, <1>2, AppendProperties
<1>4. /\ a \o Tail(t) \in Seq(S) /\ Len(a \o Tail(t)) = Len(a) + Len(Tail(t))
      /\ \A i \in 1 .. Len(a) + Len(Tail(t)) :
           (a \o Tail(t))[i] = IF i <= Len(a) THEN a[i] ELSE Tail(t)[i - Len(a)]
  BY <1>1, <1>3, ConcatProperties
<1>5. /\ s \o t \in Seq(S) /\ Len(s \o t) = Len(s) + Len(t)
      /\ \A i \in 1 .. Len(s) + Len(t) : (s \o t)[i] = IF i <= Len(s) THEN s[i] ELSE t[i - Len(s)]
  BY ConcatProperties
<1>6. ASSUME NEW i \in 1 .. Len(s) + Len(t)
      PROVE  (a \o Tail(t))[i] = (s \o t)[i]
  <2>1. CASE i <= Len(s)
    BY <1>1, <1>3, <1>4, <1>5, <2>1
  <2>2. CASE i = Len(s) + 1
    BY <1>1, <1>3, <1>4, <1>5, <2>2
  <2>3. CASE i > Len(s) + 1
    <3>1. i - Len(a) \in 1 .. Len(Tail(t)) /\ i - Len(a) + 1 = i - Len(s)
      BY <1>1, <1>3, <2>3
    <3>2. (a \o Tail(t))[i] = Tail(t)[i - Len(a)]
      BY <1>1, <1>3, <1>4, <2>3
    <3>3. (s \o t)[i] = t[i - Len(s)]
      BY <1>1, <1>5, <2>3
    <3>4. QED
      BY <1>1, <3>1, <3>2, <3>3
  <2>4. i <= Len(s) \/ i = Len(s) + 1 \/ i > Len(s) + 1
    BY <1>1
  <2>5. QED
    BY <2>1, <2>2, <2>3, <2>4
<1>7. QED
  BY <1>1, <1>2, <1>3, <1>4, <1>5, <1>6, SeqEqual

\* Appending to the second of two sequences.
LEMMA AppendConcat ==
  ASSUME NEW S, NEW s \in Seq(S), NEW t \in Seq(S), NEW e \in S
  PROVE  s \o Append(t, e) = Append(s \o t, e)
<1>1. <<e>> \in Seq(S) /\ s \o t \in Seq(S)
  BY ConcatProperties
<1>2. QED
  BY <1>1, AppendIsConcat, ConcatAssociative

\* The beginning of a concatenation is a prefix of it.
LEMMA PrefixOfConcat ==
  ASSUME NEW S, NEW s \in Seq(S), NEW t \in Seq(S)
  PROVE  IsPrefix(s, s \o t)
<1>1. /\ s \o t \in Seq(S) /\ Len(s \o t) = Len(s) + Len(t) /\ Len(s) \in Nat /\ Len(t) \in Nat
      /\ \A i \in 1 .. Len(s) + Len(t) : (s \o t)[i] = IF i <= Len(s) THEN s[i] ELSE t[i - Len(s)]
  BY ConcatProperties
<1>2. Len(s) \in 0 .. Len(s) /\ Len(s) \in 0 .. Len(s \o t)
  BY <1>1
<1>3. /\ SubSeq(s \o t, 1, Len(s)) \in Seq(S) /\ Len(SubSeq(s \o t, 1, Len(s))) = Len(s)
      /\ \A i \in 1 .. Len(s) : SubSeq(s \o t, 1, Len(s))[i] = (s \o t)[i]
  BY <1>1, <1>2, CutSeq
<1>4. SubSeq(s, 1, Len(s)) = s
  BY SubSeqFull
<1>5. SubSeq(s \o t, 1, Len(s)) = s
  BY <1>1, <1>3, SeqEqual
<1>6. QED
  BY <1>1, <1>4, <1>5 DEF IsPrefix

-----------------------------------------------------------------------------
(* Lines *)

\* The lines are numbered from one.
LEMMA LinesAreNumbers ==
  /\ Lines = 1 .. Len(LineLengths) /\ Len(LineLengths) \in Nat
  /\ \A l \in Lines : LineLengths[l] \in Nat
BY ReplAssumption DEF Lines

\* The characters of a line to type, in their order.
LEMMA MessageIsLine ==
  ASSUME NEW l \in Lines
  PROVE  /\ Message(l) \in Seq(Chars) /\ InOrder(Message(l))
         /\ \A j \in DOMAIN Message(l) : Message(l)[j][1] = l
<1>1. PICK n \in Nat : n = LineLengths[l]
  BY LinesAreNumbers
<1>2. PICK s : s = [k \in 1 .. n |-> <<l, k>>]
  OBVIOUS
<1>3. \A k \in 0 .. n : <<l, k>> \in Chars
  <2>1. ASSUME NEW k \in 0 .. n
        PROVE  <<l, k>> \in Lines \X Nat /\ <<l, k>>[1] = l /\ <<l, k>>[2] = k /\ k <= n
    OBVIOUS
  <2>2. QED
    BY <1>1, <2>1 DEF Chars
<1>4. s \in Seq(Chars) /\ Len(s) = n /\ \A k \in 1 .. n : s[k] = <<l, k>>
  <2>1. \A k \in 1 .. n : <<l, k>> \in Chars
    BY <1>3
  <2>2. QED
    BY <1>2, <2>1
<1>5. PICK m : m = Append(s, <<l, 0>>)
  OBVIOUS
<1>6. /\ m \in Seq(Chars) /\ Len(m) = n + 1
      /\ \A k \in 1 .. n : m[k] = <<l, k>>
      /\ m[n + 1] = <<l, 0>>
  BY <1>3, <1>4, <1>5, AppendProperties
<1>7. DOMAIN m = 1 .. n + 1
  BY <1>6
<1>8. ASSUME NEW j \in 1 .. n + 1
      PROVE  m[j][1] = l /\ m[j][2] = IF j <= n THEN j ELSE 0
  <2>1. CASE j <= n
    BY <1>6, <2>1
  <2>2. CASE j = n + 1
    BY <1>6, <2>2
  <2>3. QED
    BY <2>1, <2>2
<1>9. ASSUME NEW j \in 1 .. n + 1, NEW i \in 1 .. j - 1
      PROVE  Before(m[i], m[j])
  <2>1. i \in 1 .. n + 1 /\ i <= n /\ i # 0 /\ i < j
    OBVIOUS
  <2>2. m[i][2] = i /\ m[j][2] = IF j <= n THEN j ELSE 0
    BY <1>8, <2>1
  <2>3. QED
    BY <2>1, <2>2 DEF Before, IsNewline
<1>10. Message(l) = m
  BY <1>1, <1>2, <1>5 DEF Message
<1>11. QED
  BY <1>6, <1>7, <1>8, <1>9, <1>10 DEF InOrder

\* Where fgets() stops.
LEMMA LineEndProperties ==
  ASSUME tty \in Seq(Chars), Newlines # {}
  PROVE  LineEnd \in 1 .. Len(tty) /\ LineOK(SubSeq(tty, 1, LineEnd))
<1>1. /\ Newlines \subseteq 1 .. Len(tty) /\ Len(tty) \in Nat
      /\ MaxInput - 1 \in Nat /\ MaxInput - 1 >= 1 /\ MaxInput \in Nat
  BY ReplAssumption DEF Newlines
<1>2. PICK N \in SUBSET Nat : N = Newlines \cup {MaxInput - 1}
  <2>1. Newlines \subseteq Nat
    BY <1>1
  <2>2. QED
    BY <1>1, <2>1
<1>3. PICK e \in N : \A y \in N : e <= y
  BY <1>2, LeastId
<1>4. LineEnd \in N /\ \A y \in N : LineEnd <= y
  BY <1>2, <1>3 DEF LineEnd, Min
<1>5. LineEnd \in 1 .. Len(tty)
  <2>1. PICK i \in Newlines : i \in 1 .. Len(tty)
    BY <1>1
  <2>2. LineEnd \in Nat /\ LineEnd <= i
    BY <1>2, <1>4, <2>1
  <2>3. LineEnd >= 1
    <3>1. CASE LineEnd = MaxInput - 1
      BY <1>1, <3>1
    <3>2. CASE LineEnd \in Newlines
      BY <1>1, <3>2
    <3>3. QED
      BY <1>2, <1>4, <3>1, <3>2
  <2>4. QED
    BY <1>1, <2>1, <2>2, <2>3
<1>6. PICK k \in 1 .. Len(tty) : k = LineEnd
  BY <1>5
<1>7. PICK line : line = SubSeq(tty, 1, k)
  OBVIOUS
<1>8. line \in Seq(Chars) /\ Len(line) = k /\ \A i \in 1 .. k : line[i] = tty[i]
  <2>1. k \in 0 .. Len(tty)
    OBVIOUS
  <2>2. QED
    BY <1>7, <2>1, CutSeq
<1>9. ASSUME NEW i \in 1 .. k - 1
      PROVE  ~IsNewline(line[i])
  <2>1. i \in Nat /\ i \in 1 .. k /\ i \in 1 .. Len(tty) /\ i < k
    BY <1>1
  <2>2. i \notin Newlines
    BY <1>2, <1>4, <1>6, <2>1
  <2>3. QED
    BY <1>8, <2>1, <2>2 DEF Newlines
<1>10. k < MaxInput
  BY <1>1, <1>2, <1>4, <1>6
<1>11. Last(line) = tty[k]
  BY <1>1, <1>8 DEF Last
<1>12. IsNewline(tty[k]) \/ k = MaxInput - 1
  BY <1>2, <1>4, <1>6 DEF Newlines
<1>13. QED
  BY <1>5, <1>6, <1>7, <1>8, <1>9, <1>10, <1>11, <1>12 DEF LineOK

-----------------------------------------------------------------------------
(* Types *)

InputTypes ==
  /\ standalone \in BOOLEAN /\ isTty \in BOOLEAN /\ overlap \in BOOLEAN
  /\ typing \in [Lines -> Seq(Chars)]
  /\ posted \in 0 .. Len(LineLengths)
  /\ wanted \in Seq(Chars) /\ tty \in Seq(Chars) /\ taken \in Seq(Chars)
  /\ readLines \in Seq(Seq(Chars))

OutputTypes ==
  /\ child \in {"start", "fgets", "call", "exited"}
  /\ pipe \in Seq(Pieces) /\ output \in Seq(Pieces)
  /\ listener \in {"read", "ended"}
  /\ conn \in {"none", "away", "waiting", "notified", "stuck"}
  /\ message \in Seq(Pieces) /\ shown \in Seq(Converted)
  /\ subscribed \in BOOLEAN /\ lost \in BOOLEAN
  /\ jobEvents \in 0 .. MaxJobEvents

\* All that the input consists of.
inputState == <<standalone, isTty, typing, posted, wanted, overlap, tty, readLines, taken>>

\* What the steps do to the input: a line is posted, one of its characters
\* typed, a line read, or nothing.
LEMMA InputSteps ==
  ASSUME [Next]_vars
  PROVE  \/ \E l \in Lines : newLine(l)
         \/ \E l \in Lines : typing[l] # <<>> /\ ioctl(l)
         \/ fgets
         \/ UNCHANGED inputState
<1> USE DEF inputState, inputVars, childVars, pageVars
<1>1. CASE UNCHANGED vars
  BY <1>1 DEF vars
<1>2. CASE pmain \/ startFails \/ docall \/ exit
  BY <1>2 DEF pmain, startFails, docall, exit
<1>3. CASE readPipe \/ readPipeStandalone \/ endListener \/ jobFinishedEvent
  BY <1>3 DEF readPipe, readPipeStandalone, endListener, jobFinishedEvent
<1>4. CASE connect \/ wait_event \/ receive
  BY <1>4 DEF connect, wait_event, receive
<1>5. CASE \E l \in Lines : newLine(l) \/ newLineLoop(l) \/ apiCallback(l)
  BY <1>5 DEF newLineLoop, apiCallback
<1>6. QED
  BY <1>1, <1>2, <1>3, <1>4, <1>5 DEF Next

\* The steps keep the types of the input.
LEMMA NextInputTypes ==
  ASSUME InputTypes, [Next]_vars
  PROVE  InputTypes'
<1>1. ASSUME NEW l \in Lines, newLine(l)
      PROVE  InputTypes'
  <2>1. /\ posted' = l /\ typing' = [typing EXCEPT ![l] = Message(l)]
        /\ wanted' = wanted \o Message(l) /\ overlap' \in BOOLEAN
        /\ UNCHANGED <<standalone, isTty, tty, readLines, taken>>
    BY <1>1 DEF newLine, childVars, InputTypes
  <2>2. Message(l) \in Seq(Chars) /\ wanted' \in Seq(Chars)
    BY <2>1, MessageIsLine, ConcatProperties DEF InputTypes
  <2>3. posted' \in 0 .. Len(LineLengths)
    BY <2>1, LinesAreNumbers
  <2>4. QED
    BY <2>1, <2>2, <2>3 DEF InputTypes
<1>2. ASSUME NEW l \in Lines, typing[l] # <<>>, ioctl(l)
      PROVE  InputTypes'
  <2>1. /\ tty' = IF isTty THEN Append(tty, Head(typing[l])) ELSE tty
        /\ typing' = [typing EXCEPT ![l] = Tail(@)]
        /\ UNCHANGED <<standalone, isTty, posted, wanted, overlap, readLines, taken>>
    BY <1>2 DEF ioctl, childVars
  <2>2. Head(typing[l]) \in Chars /\ Tail(typing[l]) \in Seq(Chars)
    BY <1>2, HeadTailProperties DEF InputTypes
  <2>3. tty' \in Seq(Chars)
    BY <2>1, <2>2, AppendProperties DEF InputTypes
  <2>4. QED
    BY <2>1, <2>2, <2>3 DEF InputTypes
<1>3. CASE fgets
  <2>1. /\ readLines' = Append(readLines, SubSeq(tty, 1, LineEnd))
        /\ taken' = taken \o SubSeq(tty, 1, LineEnd)
        /\ tty' = SubSeq(tty, LineEnd + 1, Len(tty)) /\ Newlines # {}
        /\ UNCHANGED <<standalone, isTty, typing, posted, wanted, overlap>>
    BY <1>3 DEF fgets
  <2>2. LineEnd \in 0 .. Len(tty)
    BY <2>1, LineEndProperties DEF InputTypes
  <2>3. PICK line : line = SubSeq(tty, 1, LineEnd)
    OBVIOUS
  <2>4. line \in Seq(Chars) /\ tty' \in Seq(Chars)
    BY <2>1, <2>2, <2>3, CutSeq DEF InputTypes
  <2>5. taken' \in Seq(Chars) /\ readLines' \in Seq(Seq(Chars))
    BY <2>1, <2>3, <2>4, ConcatProperties, AppendProperties DEF InputTypes
  <2>6. QED
    BY <2>1, <2>4, <2>5 DEF InputTypes
<1>4. CASE UNCHANGED inputState
  BY <1>4 DEF inputState, InputTypes
<1>5. QED
  BY <1>1, <1>2, <1>3, <1>4, InputSteps

-----------------------------------------------------------------------------
(* From the clients to the child *)

\* Reading moves characters from the queue to the child.
LEMMA ReadMoves ==
  ASSUME InputTypes, fgets
  PROVE  Typed' = Typed
<1>1. /\ taken' = taken \o SubSeq(tty, 1, LineEnd)
      /\ tty' = SubSeq(tty, LineEnd + 1, Len(tty)) /\ Newlines # {}
  BY DEF fgets
<1>2. LineEnd \in 0 .. Len(tty)
  BY <1>1, LineEndProperties DEF InputTypes
<1>3. PICK a, b : a = SubSeq(tty, 1, LineEnd) /\ b = SubSeq(tty, LineEnd + 1, Len(tty))
  OBVIOUS
<1>4. a \in Seq(Chars) /\ b \in Seq(Chars) /\ a \o b = tty
  BY <1>2, <1>3, CutSeq DEF InputTypes
<1>5. (taken \o a) \o b = taken \o (a \o b)
  <2>1. taken \in Seq(Chars)
    BY DEF InputTypes
  <2>2. \A x, y, z \in Seq(Chars) : (x \o y) \o z = x \o (y \o z)
    BY Regroup
  <2>3. QED
    BY <1>4, <2>1, <2>2, Zenon
<1>6. QED
  BY <1>1, <1>3, <1>4, <1>5 DEF Typed

\* Typing moves a character from its thread to the queue, or drops it.
LEMMA TypingMoves ==
  ASSUME InputTypes, NEW l \in Lines, typing[l] # <<>>, ioctl(l)
  PROVE  /\ Typed \in Seq(Chars) /\ Head(typing[l]) \in Chars
         /\ Typed' = IF isTty THEN Append(Typed, Head(typing[l])) ELSE Typed
         /\ typing' = [typing EXCEPT ![l] = Tail(typing[l])]
         /\ taken' = taken /\ isTty' = isTty
         /\ UNCHANGED <<standalone, posted, wanted, overlap, readLines>>
<1>1. /\ tty' = IF isTty THEN Append(tty, Head(typing[l])) ELSE tty
      /\ typing' = [typing EXCEPT ![l] = Tail(typing[l])]
      /\ UNCHANGED <<standalone, isTty, posted, wanted, overlap, readLines, taken>>
  BY DEF ioctl, childVars
<1>2. Head(typing[l]) \in Chars
  BY HeadTailProperties DEF InputTypes
<1>3. Typed \in Seq(Chars)
  BY ConcatProperties DEF Typed, InputTypes
<1>4. taken \o Append(tty, Head(typing[l])) = Append(taken \o tty, Head(typing[l]))
  BY <1>2, AppendConcat DEF InputTypes
<1>5. QED
  BY <1>1, <1>2, <1>3, <1>4 DEF Typed

\* As long as no two threads type at once, nothing is lost or reordered.
LEMMA NextQueueInv ==
  ASSUME InputTypes, QueueInv, [Next]_vars
  PROVE  QueueInv'
<1>0. Typed \in Seq(Chars) /\ Lines \subseteq Nat /\ 0 \notin Lines /\ posted \in Nat
  BY ConcatProperties, LinesAreNumbers DEF Typed, InputTypes
<1>1. ASSUME NEW l \in Lines, newLine(l)
      PROVE  QueueInv'
  <2>1. /\ l = posted + 1 /\ posted' = l /\ typing' = [typing EXCEPT ![l] = Message(l)]
        /\ wanted' = wanted \o Message(l)
        /\ overlap' = (overlap \/ \E k \in Lines : typing[k] # <<>>)
        /\ UNCHANGED <<isTty, tty, taken>>
    BY <1>1 DEF newLine, childVars
  <2>2. Typed' = Typed
    BY <2>1 DEF Typed
  <2>3. ASSUME ~overlap'
        PROVE  /\ \A k \in Lines : k # posted' => typing'[k] = <<>>
               /\ isTty' => wanted' = IF posted' = 0 THEN Typed' ELSE Typed' \o typing'[posted']
    <3>1. ~overlap /\ \A k \in Lines : typing[k] = <<>>
      BY <2>1, <2>3
    <3>2. \A k \in Lines : k # l => typing'[k] = <<>>
      BY <2>1, <3>1 DEF InputTypes
    <3>3. isTty => wanted = Typed
      <4>1. CASE posted = 0
        BY <3>1, <4>1 DEF QueueInv
      <4>2. CASE posted # 0
        <5>1. posted \in Lines
          BY <1>0, <4>2, LinesAreNumbers DEF InputTypes
        <5>2. typing[posted] = <<>>
          BY <3>1, <5>1
        <5>3. isTty => wanted = Typed \o <<>>
          BY <3>1, <4>2, <5>2 DEF QueueInv
        <5>4. QED
          BY <1>0, <5>3, ConcatEmptySeq
      <4>3. QED
        BY <4>1, <4>2
    <3>4. typing'[l] = Message(l) /\ l # 0
      BY <1>0, <2>1 DEF InputTypes
    <3>5. QED
      BY <2>1, <2>2, <3>2, <3>3, <3>4
  <2>4. QED
    BY <2>1, <2>3 DEF QueueInv
<1>2. ASSUME NEW l \in Lines, typing[l] # <<>>, ioctl(l)
      PROVE  QueueInv'
  <2>1. /\ Typed' = IF isTty THEN Append(Typed, Head(typing[l])) ELSE Typed
        /\ typing' = [typing EXCEPT ![l] = Tail(typing[l])]
        /\ taken' = taken /\ isTty' = isTty /\ posted' = posted /\ wanted' = wanted
        /\ overlap' = overlap /\ (~isTty => tty' = tty)
    BY <1>2, TypingMoves DEF ioctl
  <2>2. ASSUME ~overlap
        PROVE  /\ \A k \in Lines : k # posted => typing'[k] = <<>>
               /\ isTty => wanted = IF posted = 0 THEN Typed' ELSE Typed' \o typing'[posted]
    <3>1. l = posted /\ \A k \in Lines : k # posted => typing[k] = <<>>
      BY <1>2, <2>2 DEF QueueInv
    <3>2. typing'[l] = Tail(typing[l]) /\ \A k \in Lines : k # l => typing'[k] = typing[k]
      BY <2>1 DEF InputTypes
    <3>3. isTty => Typed' \o typing'[l] = Typed \o typing[l]
      <4>1. typing[l] \in Seq(Chars)
        BY DEF InputTypes
      <4>2. Append(Typed, Head(typing[l])) \o Tail(typing[l]) = Typed \o typing[l]
        BY <1>0, <1>2, <4>1, MoveHead
      <4>3. QED
        BY <2>1, <3>2, <4>2
    <3>4. isTty => wanted = Typed \o typing[l]
      BY <1>0, <2>2, <3>1 DEF QueueInv
    <3>5. posted # 0
      BY <1>0, <3>1
    <3>6. QED
      BY <3>1, <3>2, <3>3, <3>4, <3>5
  <2>3. QED
    BY <2>1, <2>2 DEF QueueInv
<1>3. CASE fgets
  <2>1. /\ Typed' = Typed /\ Newlines # {}
        /\ UNCHANGED <<isTty, typing, posted, wanted, overlap>>
    BY <1>3, ReadMoves DEF fgets
  <2>2. isTty
    <3>1. tty = <<>> => Newlines = {}
      BY DEF Newlines
    <3>2. QED
      BY <2>1, <3>1 DEF QueueInv
  <2>3. QED
    BY <2>1, <2>2 DEF QueueInv
<1>4. CASE UNCHANGED inputState
  BY <1>4 DEF inputState, QueueInv, Typed
<1>5. QED
  BY <1>1, <1>2, <1>3, <1>4, InputSteps

\* The characters of a line stay in order, also when lines are mixed up.
LEMMA NextOrderInv ==
  ASSUME InputTypes, OrderInv, [Next]_vars
  PROVE  OrderInv'
<1>0. Typed \in Seq(Chars) /\ Lines \subseteq Nat /\ posted \in Nat
  BY ConcatProperties, LinesAreNumbers DEF Typed, InputTypes
<1>1. ASSUME NEW l \in Lines, newLine(l)
      PROVE  OrderInv'
  <2>1. /\ l = posted + 1 /\ posted' = l /\ typing' = [typing EXCEPT ![l] = Message(l)]
        /\ UNCHANGED <<tty, taken>>
    BY <1>1 DEF newLine, childVars
  <2>2. Typed' = Typed
    BY <2>1 DEF Typed
  <2>3. \A i \in DOMAIN Typed : Typed[i][1] \in Nat /\ Typed[i][1] <= posted
    <3>1. \A i \in DOMAIN Typed : Typed[i] \in Chars
      BY <1>0
    <3>2. QED
      BY <1>0, <3>1 DEF OrderInv, Chars
  <2>4. ASSUME NEW k \in Lines
        PROVE  /\ typing'[k] # <<>> => k <= posted'
               /\ InOrder(typing'[k])
               /\ \A j \in DOMAIN typing'[k] : typing'[k][j][1] = k
               /\ \A i \in DOMAIN Typed, j \in DOMAIN typing'[k] : Before(Typed[i], typing'[k][j])
    <3>1. CASE k # l
      <4>1. typing'[k] = typing[k]
        BY <2>1, <3>1 DEF InputTypes
      <4>2. typing[k] # <<>> => k <= posted'
        BY <1>0, <2>1 DEF OrderInv
      <4>3. QED
        BY <4>1, <4>2 DEF OrderInv
    <3>2. CASE k = l
      <4>1. PICK m : m = Message(l)
        OBVIOUS
      <4>2. typing'[k] = m
        BY <2>1, <3>2, <4>1 DEF InputTypes
      <4>3. InOrder(m) /\ \A j \in DOMAIN m : m[j][1] = l
        BY <4>1, MessageIsLine
      <4>4. \A i \in DOMAIN Typed : Typed[i][1] # l
        BY <1>0, <2>1, <2>3
      <4>5. QED
        BY <1>0, <2>1, <3>2, <4>2, <4>3, <4>4 DEF Before
    <3>3. QED
      BY <3>1, <3>2
  <2>5. \A i \in DOMAIN Typed : Typed[i][1] <= posted'
    BY <1>0, <2>1, <2>3
  <2>6. QED
    BY <2>2, <2>4, <2>5 DEF OrderInv
<1>2. ASSUME NEW l \in Lines, typing[l] # <<>>, ioctl(l)
      PROVE  OrderInv'
  <2>1. PICK t, h, T : t = typing[l] /\ h = Head(t) /\ T = Typed
    OBVIOUS
  <2>2. /\ Typed' = IF isTty THEN Append(T, h) ELSE T
        /\ typing' = [typing EXCEPT ![l] = Tail(t)] /\ posted' = posted
        /\ T \in Seq(Chars) /\ h \in Chars
    BY <1>2, <2>1, TypingMoves
  <2>3. /\ t \in Seq(Chars) /\ t # <<>> /\ h = t[1] /\ Len(t) \in Nat /\ 1 \in 1 .. Len(t)
        /\ Tail(t) \in Seq(Chars) /\ Len(Tail(t)) = Len(t) - 1
        /\ \A i \in 1 .. Len(Tail(t)) : Tail(t)[i] = t[i + 1]
    BY <1>2, <2>1, HeadTailProperties DEF InputTypes
  <2>4. /\ InOrder(t) /\ DOMAIN t = 1 .. Len(t) /\ DOMAIN Tail(t) = 1 .. Len(t) - 1
        /\ \A j \in 1 .. Len(t) : t[j][1] = l
        /\ \A i \in DOMAIN T, j \in 1 .. Len(t) : Before(T[i], t[j])
    BY <2>1, <2>3 DEF OrderInv
  <2>5. PICK a : a = Append(T, h)
    OBVIOUS
  <2>6. /\ a \in Seq(Chars) /\ Len(a) = Len(T) + 1 /\ Len(T) \in Nat
        /\ \A i \in 1 .. Len(T) : a[i] = T[i]
        /\ a[Len(T) + 1] = h
        /\ DOMAIN a = 1 .. Len(T) + 1 /\ DOMAIN T = 1 .. Len(T)
    BY <2>2, <2>5, AppendProperties
  <2>7. l <= posted /\ h[1] = l
    BY <2>1, <2>3, <2>4 DEF OrderInv
  <2>8. ASSUME NEW j \in 1 .. Len(t) - 1
        PROVE  /\ Tail(t)[j] = t[j + 1] /\ j + 1 \in 1 .. Len(t) /\ Before(h, Tail(t)[j])
               /\ \A i \in 1 .. j - 1 : Before(Tail(t)[i], Tail(t)[j])
    <3>1. Tail(t)[j] = t[j + 1] /\ j + 1 \in 1 .. Len(t)
      BY <2>3
    <3>2. 1 \in 1 .. (j + 1) - 1
      BY <2>3
    <3>3. Before(t[1], t[j + 1])
      BY <2>4, <3>1, <3>2 DEF InOrder
    <3>4. ASSUME NEW i \in 1 .. j - 1
          PROVE  Before(Tail(t)[i], Tail(t)[j])
      <4>1. i \in 1 .. Len(Tail(t)) /\ i + 1 \in 1 .. (j + 1) - 1
        BY <2>3
      <4>2. Tail(t)[i] = t[i + 1] /\ Before(t[i + 1], t[j + 1])
        BY <2>3, <2>4, <3>1, <4>1 DEF InOrder
      <4>3. QED
        BY <3>1, <4>2
    <3>5. QED
      BY <2>3, <3>1, <3>3, <3>4
  <2>9. InOrder(Tail(t)) /\ \A j \in DOMAIN Tail(t) : Tail(t)[j][1] = l
    BY <2>4, <2>8 DEF InOrder
  <2>10. InOrder(T) /\ \A i \in 1 .. Len(T) : T[i][1] <= posted
    BY <2>1, <2>6 DEF OrderInv
  <2>11. InOrder(a) /\ \A i \in 1 .. Len(T) + 1 : a[i][1] <= posted
    <3>1. ASSUME NEW j \in 1 .. Len(T) + 1, NEW i \in 1 .. j - 1
          PROVE  Before(a[i], a[j])
      <4>1. i \in 1 .. Len(T) /\ a[i] = T[i]
        BY <2>6
      <4>2. CASE j = Len(T) + 1
        <5>1. Before(T[i], t[1])
          BY <2>3, <2>4, <2>6, <4>1
        <5>2. QED
          BY <2>3, <2>6, <4>1, <4>2, <5>1
      <4>3. CASE j # Len(T) + 1
        <5>1. j \in 1 .. Len(T) /\ a[j] = T[j]
          BY <2>6, <4>3
        <5>2. QED
          BY <2>6, <2>10, <4>1, <5>1 DEF InOrder
      <4>4. QED
        BY <4>2, <4>3
    <3>2. ASSUME NEW i \in 1 .. Len(T) + 1
          PROVE  a[i][1] <= posted
      <4>1. CASE i = Len(T) + 1
        BY <2>6, <2>7, <4>1
      <4>2. CASE i # Len(T) + 1
        BY <2>6, <2>10, <4>2
      <4>3. QED
        BY <4>1, <4>2
    <3>3. QED
      BY <2>6, <3>1, <3>2 DEF InOrder
  <2>12. ASSUME NEW k \in Lines
         PROVE  /\ typing'[k] # <<>> => k <= posted
                /\ InOrder(typing'[k])
                /\ \A j \in DOMAIN typing'[k] : typing'[k][j][1] = k
                /\ \A i \in 1 .. Len(T), j \in DOMAIN typing'[k] : Before(T[i], typing'[k][j])
                /\ \A j \in DOMAIN typing'[k] : Before(h, typing'[k][j])
    <3>1. CASE k = l
      <4>1. typing'[k] = Tail(t)
        BY <2>2, <3>1 DEF InputTypes
      <4>2. \A i \in 1 .. Len(T), j \in 1 .. Len(t) - 1 : Before(T[i], Tail(t)[j])
        BY <2>4, <2>6, <2>8
      <4>3. QED
        BY <2>4, <2>7, <2>8, <2>9, <3>1, <4>1, <4>2
    <3>2. CASE k # l
      <4>1. typing'[k] = typing[k]
        BY <2>2, <3>2 DEF InputTypes
      <4>2. \A j \in DOMAIN typing[k] : typing[k][j][1] # h[1]
        BY <2>7, <3>2 DEF OrderInv
      <4>3. \A j \in DOMAIN typing[k] : Before(h, typing[k][j])
        BY <4>2 DEF Before
      <4>4. QED
        BY <2>1, <2>6, <4>1, <4>3 DEF OrderInv
    <3>3. QED
      BY <3>1, <3>2
  <2>13. CASE ~isTty
    <3>1. Typed' = T
      BY <2>2, <2>13
    <3>2. QED
      BY <2>2, <2>6, <2>10, <2>12, <3>1 DEF OrderInv
  <2>14. CASE isTty
    <3>1. Typed' = a
      BY <2>2, <2>5, <2>14
    <3>2. ASSUME NEW k \in Lines, NEW i \in 1 .. Len(T) + 1, NEW j \in DOMAIN typing'[k]
          PROVE  Before(a[i], typing'[k][j])
      <4>1. CASE i = Len(T) + 1
        BY <2>6, <2>12, <4>1
      <4>2. CASE i # Len(T) + 1
        <5>1. i \in 1 .. Len(T) /\ a[i] = T[i]
          BY <2>6, <4>2
        <5>2. QED
          BY <2>12, <5>1
      <4>3. QED
        BY <4>1, <4>2
    <3>3. QED
      BY <2>2, <2>6, <2>11, <2>12, <3>1, <3>2 DEF OrderInv
  <2>15. QED
    BY <2>13, <2>14
<1>3. CASE fgets
  <2>1. Typed' = Typed /\ typing' = typing /\ posted' = posted
    BY <1>3, ReadMoves DEF fgets
  <2>2. QED
    BY <2>1 DEF OrderInv
<1>4. CASE UNCHANGED inputState
  BY <1>4 DEF inputState, OrderInv, Typed
<1>5. QED
  BY <1>1, <1>2, <1>3, <1>4, InputSteps

\* Every call of fgets() returns at most one line.
LEMMA NextReadInv ==
  ASSUME InputTypes, ReadInv, [Next]_vars
  PROVE  ReadInv'
<1>1. CASE fgets
  <2>1. PICK line : line = SubSeq(tty, 1, LineEnd)
    OBVIOUS
  <2>2. Newlines # {} /\ readLines' = Append(readLines, line)
    BY <1>1, <2>1 DEF fgets
  <2>3. LineOK(line) /\ LineEnd \in 0 .. Len(tty)
    BY <2>1, <2>2, LineEndProperties DEF InputTypes
  <2>4. line \in Seq(Chars) /\ readLines \in Seq(Seq(Chars))
    BY <2>1, <2>3, CutSeq DEF InputTypes
  <2>5. /\ DOMAIN readLines' = 1 .. Len(readLines) + 1 /\ Len(readLines) \in Nat
        /\ DOMAIN readLines = 1 .. Len(readLines)
        /\ \A i \in 1 .. Len(readLines) : readLines'[i] = readLines[i]
        /\ readLines'[Len(readLines) + 1] = line
    BY <2>2, <2>4, AppendProperties
  <2>6. ASSUME NEW i \in 1 .. Len(readLines) + 1
        PROVE  LineOK(readLines'[i])
    <3>1. CASE i = Len(readLines) + 1
      BY <2>3, <2>5, <3>1
    <3>2. CASE i # Len(readLines) + 1
      BY <2>5, <3>2 DEF ReadInv
    <3>3. QED
      BY <3>1, <3>2
  <2>7. QED
    BY <2>5, <2>6 DEF ReadInv, LineOK
<1>2. CASE ~fgets
  <2>1. readLines' = readLines
    BY <1>2, InputSteps DEF newLine, ioctl, childVars, inputState
  <2>2. QED
    BY <2>1 DEF ReadInv, LineOK
<1>3. QED
  BY <1>1, <1>2

-----------------------------------------------------------------------------
(* From the child to the page *)

\* A step that does nothing to the output, or in which only the child writes.
ChildWrites ==
  /\ \/ UNCHANGED <<pipe, output>>
     \/ \E kinds \in Seq(OutputKinds) : Write(kinds)
  /\ child' \in {"start", "fgets", "call", "exited"}
  /\ standalone' = standalone /\ UNCHANGED pageVars

\* The child and the threads that type do no more than that to the output.
LEMMA ChildSteps ==
  ASSUME OutputTypes,
         pmain \/ startFails \/ fgets \/ docall \/ exit
         \/ \E l \in Lines : newLine(l) \/ newLineLoop(l) \/ apiCallback(l)
  PROVE  ChildWrites
<1> USE DEF ChildWrites, inputVars, childVars
<1>1. <<"plain">> \in Seq(OutputKinds) /\ Outputs \subseteq Seq(OutputKinds)
  <2>1. "plain" \in OutputKinds
    BY DEF OutputKinds
  <2>2. ASSUME NEW n \in 1 .. MaxPieces
        PROVE  [1 .. n -> OutputKinds] \subseteq Seq(OutputKinds)
    <3>1. n \in Nat
      BY ReplAssumption
    <3>2. QED
      BY <3>1
  <2>3. QED
    BY <2>1, <2>2 DEF Outputs
<1>2. CASE pmain
  BY <1>1, <1>2 DEF pmain
<1>3. CASE startFails
  BY <1>1, <1>3 DEF startFails
<1>4. CASE fgets
  BY <1>1, <1>4 DEF fgets, Compile
<1>5. CASE docall
  BY <1>1, <1>5 DEF docall
<1>6. CASE exit
  BY <1>1, <1>6 DEF exit
<1>7. ASSUME NEW l \in Lines, newLine(l) \/ newLineLoop(l) \/ apiCallback(l)
      PROVE  ChildWrites
  BY <1>7 DEF newLine, newLineLoop, apiCallback, ioctl, OutputTypes
<1>8. QED
  BY <1>2, <1>3, <1>4, <1>5, <1>6, <1>7

\* What is sent to a page that waits for it arrives next; any other page is not
\* followed any more.
LEMMA SendEvent ==
  ASSUME OutputTypes, EventInv, NEW pieces \in Seq(Pieces), NEW rest \in Seq(Pieces),
         send_event(pieces), pipe = pieces \o rest, pipe' = rest,
         UNCHANGED <<listener, subscribed, standalone, child>>,
         jobEvents' \in 0 .. MaxJobEvents
  PROVE  OutputTypes' /\ EventInv'
<1>0. <<>> \in Seq(Pieces) /\ <<>> \in Seq(Converted)
  OBVIOUS
<1>1. CASE conn = "waiting"
  <2>1. /\ message' = pieces /\ conn' = "notified" /\ lost' = lost
        /\ lost => output' = <<>> /\ shown' = <<>>
        /\ ~lost => output' = output /\ shown' = shown
    BY <1>1 DEF send_event, OutputTypes
  <2>2. OutputTypes'
    BY <1>0, <2>1 DEF OutputTypes
  <2>3. ASSUME Follows'
        PROVE  (shown \o Convert(pieces)) \o Convert(rest) = Convert(output)
    <3>1. Follows
      BY <2>1, <2>3 DEF Follows
    <3>2. message = <<>> /\ (shown \o Convert(message)) \o Convert(pipe) = Convert(output)
      BY <1>1, <3>1 DEF EventInv, ShownUnlessLost
    <3>3. PICK s, a, b : s = shown /\ a = Convert(pieces) /\ b = Convert(rest)
      OBVIOUS
    <3>4. s \in Seq(Converted) /\ a \in Seq(Converted) /\ b \in Seq(Converted)
      BY <3>3, ConvertPieces DEF OutputTypes
    <3>5. s \o Convert(message) = s
      BY <3>2, <3>4, ConvertEmpty, ConcatEmptySeq
    <3>6. Convert(pipe) = a \o b
      BY <3>3, ConvertConcat
    <3>7. (s \o a) \o b = s \o (a \o b)
      BY <3>4, ConvertedRegroup
    <3>8. QED
      BY <3>2, <3>3, <3>5, <3>6, <3>7
  <2>4. Follows' => output' = output /\ shown' = shown
    BY <2>1 DEF Follows
  <2>5. ShownUnlessLost'
    BY <2>1, <2>3, <2>4 DEF ShownUnlessLost, Convert
  <2>6. QED
    BY <2>1, <2>2, <2>5 DEF EventInv
<1>2. CASE conn # "waiting"
  <2>1. /\ message' = <<>> /\ lost' = TRUE /\ output' = <<>> /\ shown' = <<>>
        /\ conn' \in {"none", "away", "notified", "stuck"}
    BY <1>2 DEF send_event, OutputTypes
  <2>2. OutputTypes'
    BY <1>0, <2>1 DEF OutputTypes
  <2>3. QED
    BY <2>1, <2>2 DEF EventInv, ShownUnlessLost, Follows
<1>3. QED
  BY <1>1, <1>2

\* Every step keeps the output in order on its way.
LEMMA NextOutput ==
  ASSUME InputTypes, OutputTypes, EventInv, [Next]_vars
  PROVE  OutputTypes' /\ EventInv'
<1> USE DEF inputVars
<1>0. <<>> \in Seq(Pieces)
  OBVIOUS
<1>1. CASE UNCHANGED vars
  BY <1>1 DEF vars, childVars, pageVars, OutputTypes, EventInv, ShownUnlessLost, Follows
<1>2. CASE ChildWrites
  <2>1. /\ UNCHANGED <<listener, conn, message, subscribed, shown, lost, jobEvents, standalone>>
        /\ child' \in {"start", "fgets", "call", "exited"}
    BY <1>2 DEF ChildWrites, pageVars
  <2>2. Follows' = Follows
    BY <2>1 DEF Follows
  <2>3. CASE UNCHANGED <<pipe, output>>
    BY <2>1, <2>2, <2>3 DEF OutputTypes, EventInv, ShownUnlessLost
  <2>4. ASSUME NEW kinds \in Seq(OutputKinds), Write(kinds)
        PROVE  OutputTypes' /\ EventInv'
    <3>1. PICK new \in Seq(Pieces) : /\ pipe' = pipe \o new
                                     /\ output' = IF Follows THEN output \o new ELSE <<>>
      <4>1. PICK n \in Nat : n = Len(output)
        BY DEF OutputTypes
      <4>2. Len(kinds) \in Nat /\ DOMAIN kinds = 1 .. Len(kinds)
            /\ \A i \in 1 .. Len(kinds) : kinds[i] \in OutputKinds
        BY ElementOfSeq
      <4>3. PICK new : new = [i \in DOMAIN kinds |-> <<IF Follows THEN n + i ELSE 0, kinds[i]>>]
        OBVIOUS
      <4>4. ASSUME NEW i \in 1 .. Len(kinds)
            PROVE  <<IF Follows THEN n + i ELSE 0, kinds[i]>> \in Pieces
        <5>1. (IF Follows THEN n + i ELSE 0) \in Nat
          BY <4>2
        <5>2. QED
          BY <4>2, <5>1 DEF Pieces
      <4>5. new \in Seq(Pieces)
        BY <4>2, <4>3, <4>4
      <4>6. pipe' = pipe \o new /\ output' = IF Follows THEN output \o new ELSE <<>>
        BY <2>4, <4>1, <4>3 DEF Write
      <4>7. QED
        BY <4>5, <4>6
    <3>2. /\ pipe \in Seq(Pieces) /\ output \in Seq(Pieces) /\ message \in Seq(Pieces)
          /\ shown \in Seq(Converted)
      BY DEF OutputTypes
    <3>3. pipe' \in Seq(Pieces) /\ output' \in Seq(Pieces)
      BY <1>0, <3>1, <3>2, ConcatProperties
    <3>4. ASSUME Follows
          PROVE  (shown \o Convert(message)) \o Convert(pipe') = Convert(output')
      <4>1. PICK s, c, d : s = shown \o Convert(message) /\ c = Convert(pipe) /\ d = Convert(new)
        OBVIOUS
      <4>2. s \in Seq(Converted) /\ c \in Seq(Converted) /\ d \in Seq(Converted)
        BY <3>1, <3>2, <4>1, ConvertPieces, ConcatProperties
      <4>3. s \o c = Convert(output)
        BY <3>4, <4>1 DEF EventInv, ShownUnlessLost
      <4>4. Convert(pipe') = c \o d
        BY <3>1, <3>2, <4>1, ConvertConcat
      <4>5. Convert(output') = Convert(output) \o d
        BY <3>1, <3>2, <3>4, <4>1, ConvertConcat
      <4>6. (s \o c) \o d = s \o (c \o d)
        BY <4>2, ConvertedRegroup
      <4>7. QED
        BY <4>1, <4>3, <4>4, <4>5, <4>6
    <3>5. ShownUnlessLost'
      BY <2>1, <2>2, <3>4 DEF ShownUnlessLost, Convert
    <3>6. OutputTypes'
      BY <2>1, <3>3 DEF OutputTypes
    <3>7. QED
      BY <2>1, <3>5, <3>6 DEF EventInv
  <2>5. QED
    BY <1>2, <2>3, <2>4 DEF ChildWrites
<1>3. CASE readPipe
  <2>1. PICK k \in 1 .. Len(pipe) : /\ send_event(SubSeq(pipe, 1, k))
                                    /\ pipe' = SubSeq(pipe, k + 1, Len(pipe))
    BY <1>3 DEF readPipe
  <2>2. UNCHANGED <<listener, subscribed, standalone, child, jobEvents>>
    BY <1>3 DEF readPipe
  <2>3. k \in 0 .. Len(pipe) /\ pipe \in Seq(Pieces) /\ jobEvents' \in 0 .. MaxJobEvents
    BY <2>2 DEF OutputTypes
  <2>4. PICK a, b : a = SubSeq(pipe, 1, k) /\ b = SubSeq(pipe, k + 1, Len(pipe))
    OBVIOUS
  <2>5. a \in Seq(Pieces) /\ b \in Seq(Pieces) /\ a \o b = pipe
    BY <2>3, <2>4, CutSeq
  <2>6. send_event(a) /\ pipe' = b
    BY <2>1, <2>4
  <2>7. QED
    BY <2>2, <2>3, <2>5, <2>6, SendEvent
<1>4. CASE jobFinishedEvent
  <2>1. /\ send_event(<<>>) /\ UNCHANGED <<listener, subscribed, standalone, child, pipe>>
        /\ jobEvents < MaxJobEvents /\ jobEvents' = jobEvents + 1
    BY <1>4 DEF jobFinishedEvent
  <2>2. jobEvents' \in 0 .. MaxJobEvents
    BY <2>1, ReplAssumption DEF OutputTypes
  <2>3. pipe = <<>> \o pipe /\ pipe \in Seq(Pieces)
    BY ConcatEmptySeq DEF OutputTypes
  <2>4. PICK e : e = <<>>
    OBVIOUS
  <2>5. QED
    BY <1>0, <2>1, <2>2, <2>3, <2>4, SendEvent
<1>5. CASE readPipeStandalone
  <2>1. PICK k \in 1 .. Len(pipe) : pipe' = SubSeq(pipe, k + 1, Len(pipe))
    BY <1>5 DEF readPipeStandalone
  <2>2. /\ standalone /\ UNCHANGED <<child, output, standalone>> /\ UNCHANGED pageVars
    BY <1>5 DEF readPipeStandalone
  <2>3. pipe' \in Seq(Pieces)
    <3>1. k \in 0 .. Len(pipe) /\ pipe \in Seq(Pieces)
      BY DEF OutputTypes
    <3>2. QED
      BY <2>1, <3>1, CutSeq
  <2>4. QED
    BY <2>2, <2>3 DEF pageVars, OutputTypes, EventInv, ShownUnlessLost, Follows
<1>6. CASE endListener
  BY <1>6 DEF endListener, childVars, OutputTypes, EventInv, ShownUnlessLost, Follows
<1>7. CASE connect
  <2>1. /\ conn = "none" /\ conn' = "away" /\ output' = pipe /\ lost' = FALSE
        /\ subscribed' = TRUE
        /\ UNCHANGED <<listener, message, shown, jobEvents, child, pipe>>
    BY <1>7 DEF connect
  <2>2. shown = <<>> /\ message = <<>> /\ pipe \in Seq(Pieces)
    BY <2>1 DEF EventInv, OutputTypes
  <2>3. (shown \o Convert(message)) \o Convert(pipe) = Convert(pipe)
    <3>1. PICK c : c = Convert(pipe)
      OBVIOUS
    <3>2. c \in Seq(Converted) /\ <<>> \in Seq(Converted)
      BY <2>2, <3>1, ConvertPieces
    <3>3. <<>> \o <<>> = <<>> /\ <<>> \o c = c
      BY <3>2, ConcatEmptySeq
    <3>4. QED
      BY <2>2, <3>1, <3>3, ConvertEmpty
  <2>4. ShownUnlessLost'
    BY <2>1, <2>3 DEF ShownUnlessLost, Convert
  <2>5. OutputTypes'
    BY <2>1, <2>2 DEF OutputTypes
  <2>6. QED
    BY <2>1, <2>2, <2>4, <2>5 DEF EventInv
<1>8. CASE wait_event
  BY <1>8 DEF wait_event, childVars, OutputTypes, EventInv, ShownUnlessLost, Follows
<1>9. CASE receive
  <2>1. /\ conn' = "away" /\ message' = <<>> /\ subscribed' \in BOOLEAN
        /\ subscribed' => subscribed /\ shown' = shown \o Convert(message) /\ output' = output
        /\ ~subscribed' => shown' = <<>> /\ output' = <<>>
        /\ UNCHANGED <<listener, lost, jobEvents, child, pipe, standalone>>
    BY <1>9 DEF receive, OutputTypes
  <2>2. shown \o Convert(message) \in Seq(Converted) /\ <<>> \in Seq(Converted)
    BY ConvertPieces, ConcatProperties DEF OutputTypes
  <2>3. OutputTypes'
    BY <1>0, <2>1, <2>2 DEF OutputTypes
  <2>4. ASSUME Follows'
        PROVE  (shown' \o Convert(<<>>)) \o Convert(pipe) = Convert(output')
    <3>1. Follows /\ shown' = shown \o Convert(message) /\ output' = output
      BY <2>1, <2>4 DEF Follows
    <3>2. shown' \o Convert(<<>>) = shown'
      BY <2>2, <3>1, ConvertEmpty, ConcatEmptySeq
    <3>3. (shown \o Convert(message)) \o Convert(pipe) = Convert(output)
      BY <3>1 DEF EventInv, ShownUnlessLost
    <3>4. QED
      BY <3>1, <3>2, <3>3
  <2>5. ShownUnlessLost'
    BY <2>1, <2>4 DEF ShownUnlessLost, Convert
  <2>6. QED
    BY <2>1, <2>3, <2>5 DEF EventInv
<1>10. QED
  BY <1>1, <1>2, <1>3, <1>4, <1>5, <1>6, <1>7, <1>8, <1>9, ChildSteps DEF Next

-----------------------------------------------------------------------------
(* The theorems *)

\* The invariant holds initially, in both services.
LEMMA InitIndInv ==
  Init => IndInv
<1> SUFFICES ASSUME Init
             PROVE  IndInv
  OBVIOUS
<1>1. Bridge /\ standalone \in BOOLEAN
  BY DEF Init, InitService, InitStandalone
<1>2. /\ <<>> \in Seq(Chars) /\ <<>> \in Seq(Pieces) /\ <<>> \in Seq(Seq(Chars))
      /\ <<>> \in Seq(Converted)
      /\ <<>> \o <<>> = <<>> /\ DOMAIN <<>> = {}
  OBVIOUS
<1>3. 0 \in 0 .. Len(LineLengths) /\ 0 \in 0 .. MaxJobEvents
  BY ReplAssumption, LinesAreNumbers
<1>4. TypeOK
  BY <1>1, <1>2, <1>3 DEF Bridge, TypeOK
<1>5. QueueInv
  BY <1>1, <1>2 DEF Bridge, QueueInv, Typed
<1>6. OrderInv
  BY <1>1, <1>2 DEF Bridge, OrderInv, InOrder, Typed
<1>7. ReadInv
  BY <1>1, <1>2 DEF Bridge, ReadInv
<1>8. EventInv
  BY <1>1 DEF Bridge, EventInv, ShownUnlessLost, Follows
<1>9. QED
  BY <1>4, <1>5, <1>6, <1>7, <1>8 DEF IndInv

\* Every reachable state satisfies the inductive invariant.
THEOREM IndInvAlways == Spec => []IndInv
<1>1. TypeOK <=> InputTypes /\ OutputTypes
  BY DEF TypeOK, InputTypes, OutputTypes
<1>2. (InputTypes /\ OutputTypes)' => TypeOK'
  BY DEF TypeOK, InputTypes, OutputTypes
<1>3. IndInv /\ [Next]_vars => IndInv'
  <2>1. SUFFICES ASSUME IndInv, [Next]_vars
                 PROVE  IndInv'
    OBVIOUS
  <2>2. InputTypes /\ OutputTypes /\ QueueInv /\ OrderInv /\ ReadInv /\ EventInv
    BY <1>1, <2>1 DEF IndInv
  <2>3. InputTypes' /\ QueueInv' /\ OrderInv' /\ ReadInv'
    BY <2>1, <2>2, NextInputTypes, NextQueueInv, NextOrderInv, NextReadInv
  <2>4. OutputTypes' /\ EventInv'
    BY <2>1, <2>2, NextOutput
  <2>5. QED
    BY <1>2, <2>3, <2>4 DEF IndInv
<1>4. QED
  BY InitIndInv, <1>3, PTL DEF Spec

\* The queues between the clients, the service, the child and the page keep
\* their types.
THEOREM TypeOKAlways == Spec => []TypeOK
<1>1. IndInv => TypeOK
  BY DEF IndInv
<1>2. QED
  BY IndInvAlways, <1>1, PTL

\* Repl::newLine() and the fgets() of the child hand on every line: exactly
\* what was posted if no two threads type at once, each line's characters in
\* order and none twice if they do, and never two lines in one read.
THEOREM LinesIntactAlways == Spec => []LinesIntact
<1>1. ASSUME IndInv
      PROVE  LinesIntact
  <2>1. TypeOK /\ QueueInv /\ InOrder(Typed) /\ ReadInv
    BY <1>1 DEF IndInv, OrderInv
  <2>2. /\ Typed \in Seq(Chars) /\ wanted \in Seq(Chars) /\ posted \in Nat
        /\ \A l \in Lines : typing[l] \in Seq(Chars)
    <3>1. /\ taken \in Seq(Chars) /\ tty \in Seq(Chars) /\ wanted \in Seq(Chars)
          /\ typing \in [Lines -> Seq(Chars)] /\ posted \in 0 .. Len(LineLengths)
      BY <2>1 DEF TypeOK
    <3>2. Typed \in Seq(Chars)
      BY <3>1, ConcatProperties DEF Typed
    <3>3. \A l \in Lines : typing[l] \in Seq(Chars)
      BY <3>1, Zenon
    <3>4. posted \in Nat
      BY <3>1, LinesAreNumbers
    <3>5. QED
      BY <3>1, <3>2, <3>3, <3>4
  <2>3. ASSUME ~overlap
        PROVE  IsPrefix(Typed, wanted)
    <3>1. <<>> \in Seq(Chars) /\ <<>> \o wanted = wanted /\ Typed \o <<>> = Typed
          /\ <<>> \o <<>> = <<>>
      BY <2>2, ConcatEmptySeq
    <3>2. CASE ~isTty
      <4>1. Typed = <<>>
        BY <2>1, <3>1, <3>2 DEF QueueInv, Typed
      <4>2. IsPrefix(<<>>, <<>> \o wanted)
        BY <2>2, <3>1, PrefixOfConcat
      <4>3. QED
        BY <3>1, <4>1, <4>2
    <3>3. CASE isTty /\ posted = 0
      <4>1. wanted = Typed
        BY <2>1, <2>3, <3>3 DEF QueueInv
      <4>2. IsPrefix(Typed, Typed \o <<>>)
        BY <2>2, <3>1, PrefixOfConcat
      <4>3. QED
        BY <3>1, <4>1, <4>2
    <3>4. CASE isTty /\ posted # 0
      <4>1. wanted = Typed \o typing[posted]
        BY <2>1, <2>3, <3>4 DEF QueueInv
      <4>2. posted \in Lines
        BY <2>1, <2>2, <3>4, LinesAreNumbers DEF TypeOK
      <4>3. QED
        BY <2>2, <4>1, <4>2, PrefixOfConcat
    <3>5. QED
      BY <3>2, <3>3, <3>4
  <2>4. QED
    BY <2>1, <2>3 DEF LinesIntact, Typed, ReadInv, LineOK
<1>2. QED
  BY IndInvAlways, <1>1, PTL

\* The output of the child reaches the console page piece by piece, without gaps
\* and in order, in the form that the callback of the server and JSON.parse()
\* give it, until an event passes the page by or cannot be parsed.
THEOREM ShownUnlessLostAlways == Spec => []ShownUnlessLost
<1>1. IndInv => ShownUnlessLost
  BY DEF IndInv, EventInv
<1>2. QED
  BY IndInvAlways, <1>1, PTL
=============================================================================
