--------------------------- MODULE LoggingProofs ---------------------------
(***************************************************************************)
(* Proofs about Logging, for any lines, sizes, periods and numbers of      *)
(* threads that log: no line is lost on its way, what is taken is on disk  *)
(* when its batch is over, and files that were rolled keep to one period.  *)
(*                                                                         *)
(* The invariant adds to these that m_buffers is empty when it is swapped  *)
(* (Emptied), and what ties the lines of the open file to m_startOfPeriod  *)
(* and m_count (Dated, FewLate): every line of a later period is counted,  *)
(* because a line on time is written before every late one.                *)
(***************************************************************************)
EXTENDS Logging, SequenceTheorems, FiniteSetTheorems, TLAPS

Emptied == pc \in {"none", "wait"} => batch = <<>>

NothingKept == ~ToFile => flushed = Len(out)

Dated ==
    /\ \A i \in 1..Len(out) :
         /\ out[i].roll <= file.rolls
         /\ out[i].name <= out[i].when /\ out[i].when <= now
         /\ out[i].roll = file.rolls => out[i].name = file.name
    /\ file.rolls > 0 => file.period = Period(file.name)

FewLate ==
    /\ \A roll \in 1..file.rolls : Cardinality(LateIn(roll)) <= CheckEveryN
    /\ \A roll \in Nat \ {0} : roll = file.rolls =>
         Cardinality(LateIn(roll)) <= file.count

IInv == TypeOK /\ Emptied /\ NothingKept /\ NoLineLost /\ OnDisk /\ Dated /\ FewLate

-----------------------------------------------------------------------------
(* Sequences.                                                              *)

\* Appending at the end of a concatenation.
LEMMA AppendLast ==
    ASSUME NEW S, NEW s \in Seq(S), NEW t \in Seq(S), NEW e \in S
    PROVE  s \o Append(t, e) = Append(s \o t, e)
<1>1. <<e>> \in Seq(S) /\ s \o t \in Seq(S)
  BY ConcatProperties
<1>2. s \o (t \o <<e>>) = (s \o t) \o <<e>>
  BY <1>1, ConcatAssociative
<1> QED BY <1>1, <1>2, AppendIsConcat

LEMMA Regroup ==
    ASSUME NEW S, NEW s \in Seq(S), NEW t \in Seq(S), NEW u \in Seq(S)
    PROVE  (s \o t) \o u = s \o (t \o u)
  BY ConcatAssociative, SMT

\* The first element of what is left moves to the end of what is done.
LEMMA MoveOne ==
    ASSUME NEW S, NEW s \in Seq(S), NEW e \in S, NEW r \in Seq(S)
    PROVE  s \o (<<e>> \o r) = Append(s, e) \o r
<1>1. <<e>> \in Seq(S) /\ Append(s, e) = s \o <<e>>
  BY AppendIsConcat
<1> QED BY <1>1, Regroup

LEMMA MoveFirst ==
    ASSUME NEW S, NEW s \in Seq(S)
    PROVE  \A b \in Seq(S) : \A k \in 1..Len(b) :
             s \o SubSeq(b, k, Len(b)) = Append(s, b[k]) \o SubSeq(b, k + 1, Len(b))
<1>1. ASSUME NEW e \in S, NEW r \in Seq(S)
      PROVE  s \o (<<e>> \o r) = Append(s, e) \o r
  BY MoveOne
<1> TAKE b \in Seq(S)
<1> TAKE k \in 1..Len(b)
<1>2. SubSeq(b, k, Len(b)) = <<b[k]>> \o SubSeq(b, k + 1, Len(b))
  BY SubSeqRecursiveFirst, LenProperties
<1>3. b[k] \in S /\ SubSeq(b, k + 1, Len(b)) \in Seq(S)
  BY SubSeqProperties, LenProperties, ElementOfSeq
<1>4. s \o (<<b[k]>> \o SubSeq(b, k + 1, Len(b))) = Append(s, b[k]) \o SubSeq(b, k + 1, Len(b))
  BY <1>1, <1>3
<1> QED BY <1>2, <1>4, Zenon

\* Nothing is left at the end.
LEMMA NothingLeft ==
    ASSUME NEW S, NEW s \in Seq(S), NEW b \in Seq(S)
    PROVE  s \o SubSeq(b, Len(b) + 1, Len(b)) = s
<1>1. SubSeq(b, Len(b) + 1, Len(b)) = <<>>
  BY SubSeqEmpty, LenProperties
<1> QED BY <1>1, ConcatEmptySeq

\* The lines of what was written, as a sequence of lines.
LEMMA LinesAre ==
    ASSUME NEW s \in Seq(Entry)
    PROVE  /\ Lines(s) \in Seq(Line) /\ Len(Lines(s)) = Len(s)
           /\ \A i \in 1..Len(s) : Lines(s)[i] = s[i].line
<1>1. Len(s) \in Nat /\ \A i \in 1..Len(s) : s[i] \in Entry
  OBVIOUS
<1>2. Lines(s) \in [1..Len(s) -> Line]
  BY <1>1 DEF Lines, Entry
<1>3. Lines(s) \in Seq(Line) /\ Len(Lines(s)) = Len(s)
  BY <1>1, <1>2
<1> QED BY <1>1, <1>3 DEF Lines

LEMMA LinesAppend ==
    ASSUME NEW s \in Seq(Entry), NEW e \in Entry
    PROVE  Lines(Append(s, e)) = Append(Lines(s), e.line)
<1> DEFINE t == Append(s, e)
           u == Append(Lines(s), e.line)
<1>1. /\ e.line \in Line
      /\ t \in Seq(Entry) /\ Len(t) = Len(s) + 1 /\ t[Len(s) + 1] = e
      /\ \A i \in 1..Len(s) : t[i] = s[i]
  BY AppendProperties DEF Entry
<1>2. Lines(s) \in Seq(Line) /\ Len(Lines(s)) = Len(s) /\ Len(s) \in Nat
      /\ \A i \in 1..Len(s) : Lines(s)[i] = s[i].line
  BY LinesAre
<1>3. u \in Seq(Line) /\ Len(u) = Len(s) + 1 /\ u[Len(s) + 1] = e.line
      /\ \A i \in 1..Len(s) : u[i] = Lines(s)[i]
  BY <1>1, <1>2, AppendProperties
<1>4. Lines(t) \in Seq(Line) /\ Len(Lines(t)) = Len(s) + 1
      /\ \A i \in 1..(Len(s) + 1) : Lines(t)[i] = t[i].line
  BY <1>1, LinesAre
<1>5. \A i \in 1..(Len(s) + 1) : Lines(t)[i] = u[i]
  BY <1>1, <1>2, <1>3, <1>4
<1> QED BY <1>3, <1>4, <1>5, SeqEqual

-----------------------------------------------------------------------------
(* Types.                                                                  *)

\* Whatever is logged becomes a line that fits its buffer.
LEMMA NewLineIs == \A text \in Nat : NewLine(text) \in Line
  BY LoggingAssumption DEF NewLine, Fit, Line

LEMMA PeriodIs ==
    /\ \A t \in Nat : Period(t) \in Nat
    /\ \A t, u \in Nat : t <= u => Period(t) <= Period(u)
  BY LoggingAssumption DEF Period

\* What the helpers of LogFile do to its fields.
LEMMA WrittenIs ==
    ASSUME TypeOK, pc = "file", at <= Len(batch)
    PROVE  /\ batch[at] \in Line
           /\ Written(file) \in File
           /\ \A k \in {"name", "count", "period", "lastFlush", "rolls"} :
                Written(file)[k] = file[k]
<1>1. at \in 1..Len(batch) /\ batch \in Seq(Line)
  BY DEF TypeOK
<1>2. batch[at] \in Line
  BY <1>1, ElementOfSeq
<1>3. batch[at] \in Nat
  BY <1>2, LoggingAssumption DEF Line
<1>4. file \in File
  BY DEF TypeOK
<1>5. Written(file) = [file EXCEPT !.bytes = file.bytes + batch[at]]
  BY DEF Written
<1>6. file.bytes + batch[at] \in Nat
  BY <1>3, <1>4 DEF File
<1> QED BY <1>2, <1>4, <1>5, <1>6 DEF File

LEMMA KeptIs ==
    ASSUME now \in Nat, NEW f \in File
    PROVE  /\ Kept(f) \in File
           /\ Kept(f).count = (f.count + 1) % CheckEveryN
           /\ \A k \in {"name", "bytes", "period", "rolls"} : Kept(f)[k] = f[k]
           /\ Kept(f).lastFlush \in {f.lastFlush, now}
<1>1. (f.count + 1) % CheckEveryN \in 0..(CheckEveryN - 1)
  BY LoggingAssumption DEF File
<1>2. /\ Counted(f) \in File
      /\ Counted(f).count = (f.count + 1) % CheckEveryN
      /\ \A k \in {"name", "bytes", "period", "lastFlush", "rolls"} : Counted(f)[k] = f[k]
  BY <1>1 DEF Counted, File
<1>3. ASSUME NEW g \in File
      PROVE  /\ Flushed(g) \in File /\ Flushed(g).lastFlush = now
             /\ \A k \in {"name", "bytes", "count", "period", "rolls"} : Flushed(g)[k] = g[k]
  BY DEF Flushed, File
<1> QED BY <1>2, <1>3 DEF Kept

LEMMA RolledIs ==
    ASSUME now \in Nat, NEW f \in File
    PROVE  /\ Rolled(f) \in File
           /\ Rolled(f).name = now /\ Rolled(f).period = Period(now)
           /\ Rolled(f).rolls = f.rolls + 1
           /\ Rolled(f).count = f.count /\ Rolled(f).lastFlush = f.lastFlush
<1>1. Period(now) \in Nat
  BY PeriodIs
<1>2. /\ Rolled(f).name = now /\ Rolled(f).period = Period(now)
      /\ Rolled(f).rolls = f.rolls + 1
      /\ Rolled(f).count = f.count /\ Rolled(f).lastFlush = f.lastFlush
  BY DEF Rolled, File
<1>3. [f EXCEPT !.name = now, !.bytes = 0] \in File
  BY DEF File
<1>4. f.rolls + 1 \in Nat
  BY DEF File
<1>5. Rolled(f) = [[f EXCEPT !.name = now, !.bytes = 0]
                      EXCEPT !.period = Period(now), !.rolls = f.rolls + 1]
  BY DEF Rolled, File
<1>6. PICK g \in File, p \in Nat, n \in Nat :
           Rolled(f) = [g EXCEPT !.period = p, !.rolls = n]
  BY <1>1, <1>3, <1>4, <1>5, Zenon
<1>7. Rolled(f) \in File
  BY <1>6 DEF File
<1> QED BY <1>2, <1>7

\* Every step keeps the types.
LEMMA TypeStep ==
    ASSUME TypeOK, [Next]_vars
    PROVE  TypeOK'
<1> USE LoggingAssumption
<1>1. ASSUME NEW text \in Texts, NEW fatal \in BOOLEAN, Log(text, fatal)
      PROVE  TypeOK'
  <2>1. NewLine(text) \in Line
    BY NewLineIs
  <2> QED BY <1>1, <2>1, AppendProperties DEF TypeOK, Log, threadVars, fileVars
<1>2. CASE Abort
  BY <1>2 DEF TypeOK, Abort, threadVars, fileVars
<1>3. CASE Second
  <2>1. file.name \in Nat /\ file.lastFlush \in Nat
    BY DEF TypeOK, File
  <2> QED BY <1>3, <2>1 DEF TypeOK, Second, threadVars, fileVars
<1>4. CASE StartThread
  BY <1>4 DEF TypeOK, StartThread, fileVars
<1>5. CASE Stop
  BY <1>5 DEF TypeOK, Stop, fileVars
<1>6. CASE Loop
  <2>1. CASE running
    BY <1>6, <2>1, EmptySeq DEF TypeOK, Loop, fileVars
  <2>2. CASE ~running
    BY <1>6, <2>2 DEF TypeOK, Loop, fileVars
  <2> QED BY <2>1, <2>2
<1>7. CASE Swap
  BY <1>7, LenProperties DEF TypeOK, Swap, fileVars
<1>8. CASE AppendToFile
  <2> DEFINE e == [line |-> batch[at], roll |-> file.rolls, name |-> file.name, when |-> now]
             f == Written(file)
  <2>1. batch[at] \in Line /\ f \in File /\ f.name = file.name /\ f.lastFlush = file.lastFlush
    BY <1>8, WrittenIs DEF AppendToFile
  <2>2. e \in Entry
    BY <2>1 DEF TypeOK, Entry, File
  <2>3. out' = Append(out, e) /\ out' \in Seq(Entry) /\ Len(out') = Len(out) + 1
    BY <1>8, <2>2, AppendProperties DEF TypeOK, AppendToFile
  <2>4. Kept(f) \in File /\ Kept(f).name = file.name /\ Kept(f).lastFlush \in {file.lastFlush, now}
    BY <2>1, KeptIs DEF TypeOK
  <2>5. \A g \in {f, Kept(f)} : /\ Rolled(g) \in File /\ Rolled(g).name = now
                                /\ Rolled(g).lastFlush = g.lastFlush
    BY <2>1, <2>4, RolledIs DEF TypeOK
  <2>6. file' \in {Rolled(f), Rolled(Kept(f)), Kept(f)}
    BY <1>8 DEF AppendToFile
  <2> HIDE DEF f
  <2>7. file' \in File /\ file'.name <= now /\ file'.lastFlush <= now
    BY <2>1, <2>4, <2>5, <2>6 DEF TypeOK
  <2>8. flushed' \in 0..Len(out')
    BY <1>8, <2>3, LenProperties DEF TypeOK, AppendToFile
  <2>9. at' \in 1..(Len(batch') + 1)
    BY <1>8 DEF TypeOK, AppendToFile
  <2> HIDE DEF e
  <2> QED BY <1>8, <2>3, <2>7, <2>8, <2>9 DEF TypeOK, AppendToFile
<1>9. CASE FlushFile
  <2>1. Flushed(file) \in File /\ Flushed(file).name = file.name /\ Flushed(file).lastFlush = now
    BY DEF TypeOK, Flushed, File
  <2>2. Len(out) \in Nat
    BY LenProperties DEF TypeOK
  <2>3. file' \in File /\ file'.name <= now /\ file'.lastFlush <= now
    BY <1>9, <2>1 DEF TypeOK, FlushFile
  <2>4. flushed' \in 0..Len(out)
    BY <1>9, <2>2 DEF TypeOK, FlushFile
  <2> QED BY <1>9, <2>3, <2>4 DEF TypeOK, FlushFile
<1>10. CASE PrintLine
  <2>1. batch[at] \in Line
    BY <1>10, ElementOfSeq DEF TypeOK, PrintLine
  <2> QED BY <1>10, <2>1, AppendProperties DEF TypeOK, PrintLine, fileVars
<1>11. CASE Printed
  BY <1>11 DEF TypeOK, Printed, fileVars
<1>12. CASE UNCHANGED vars
  BY <1>12 DEF TypeOK, vars, threadVars, fileVars
<1> QED BY <1>1, <1>2, <1>3, <1>4, <1>5, <1>6, <1>7, <1>8, <1>9, <1>10, <1>11, <1>12
        DEF Next, LogThread

-----------------------------------------------------------------------------
(* No line is lost.                                                        *)

\* What is taken is a sequence of lines.
LEMMA TakenIs ==
    ASSUME TypeOK
    PROVE  /\ TakenForFile \in Seq(Line) /\ TakenForStdout \in Seq(Line)
           /\ pc \in {"file", "stdout"} => Rest(at) \in Seq(Line)
<1>1. Lines(out) \in Seq(Line)
  BY LinesAre DEF TypeOK
<1>2. ASSUME pc \in {"file", "stdout"} PROVE Rest(at) \in Seq(Line)
  <2>1. at \in Nat \ {0} /\ batch \in Seq(Line) /\ Len(batch) \in Nat
    BY <1>2 DEF TypeOK
  <2>2. \A i \in at..Len(batch) : batch[i] \in Line
    BY <2>1, ElementOfSeq
  <2> QED BY <2>1, <2>2, SubSeqProperties DEF Rest
<1> QED BY <1>1, <1>2, ConcatProperties DEF TypeOK, TakenForFile, TakenForStdout

\* Steps of the log thread after the swap only move lines.
LEMMA TakenStays ==
    ASSUME TypeOK, AppendToFile \/ FlushFile \/ PrintLine \/ Printed
    PROVE  /\ ToFile => TakenForFile' = TakenForFile
           /\ ToStdout => TakenForStdout' = TakenForStdout
<1>1. Lines(out) \in Seq(Line) /\ batch \in Seq(Line) /\ printed \in Seq(Line)
  BY LinesAre DEF TypeOK
<1>2. CASE AppendToFile
  <2> DEFINE e == [line |-> batch[at], roll |-> file.rolls, name |-> file.name, when |-> now]
  <2>1. at \in 1..Len(batch) /\ e \in Entry /\ e.line = batch[at]
    BY <1>2, WrittenIs DEF TypeOK, AppendToFile, Entry, File
  <2>2. Lines(out') = Append(Lines(out), batch[at])
    <3>1. out' = Append(out, e)
      BY <1>2 DEF AppendToFile
    <3> HIDE DEF e
    <3> QED BY <2>1, <3>1, LinesAppend DEF TypeOK
  <2>3. Lines(out) \o SubSeq(batch, at, Len(batch))
          = Append(Lines(out), batch[at]) \o SubSeq(batch, at + 1, Len(batch))
    BY <1>1, <2>1, MoveFirst
  <2>4. Lines(out') \o SubSeq(batch, at + 1, Len(batch))
          = Lines(out) \o SubSeq(batch, at, Len(batch))
    BY <2>2, <2>3
  <2>5. pc = "file" /\ pc' = pc /\ at' = at + 1 /\ batch' = batch /\ printed' = printed
    BY <1>2 DEF AppendToFile
  <2> QED BY <2>4, <2>5, Zenon DEF TakenForFile, TakenForStdout, Rest
<1>3. CASE FlushFile
  <2>1. pc = "file" /\ pc' = "stdout" /\ at' = 1 /\ (ToFile => at = Len(batch) + 1)
        /\ UNCHANGED <<batch, out, printed>>
    BY <1>3 DEF FlushFile
  <2>2. Lines(out) \o SubSeq(batch, Len(batch) + 1, Len(batch)) = Lines(out)
    BY <1>1, NothingLeft
  <2>3. SubSeq(batch, 1, Len(batch)) = batch
    BY <1>1, SubSeqFull
  <2> QED BY <2>1, <2>2, <2>3 DEF TakenForFile, TakenForStdout, Rest
<1>4. CASE PrintLine
  <2>1. at \in 1..Len(batch) /\ pc = "stdout" /\ pc' = pc /\ at' = at + 1
        /\ printed' = Append(printed, batch[at]) /\ UNCHANGED <<batch, out>>
    BY <1>4 DEF TypeOK, PrintLine, fileVars
  <2>2. printed \o SubSeq(batch, at, Len(batch))
          = Append(printed, batch[at]) \o SubSeq(batch, at + 1, Len(batch))
    BY <1>1, <2>1, MoveFirst
  <2>3. printed' \o SubSeq(batch, at + 1, Len(batch))
          = printed \o SubSeq(batch, at, Len(batch))
    BY <2>1, <2>2
  <2> QED BY <2>1, <2>3 DEF TakenForFile, TakenForStdout, Rest
<1>5. CASE Printed
  <2>1. pc = "stdout" /\ pc' = "loop" /\ (ToStdout => at = Len(batch) + 1)
        /\ UNCHANGED <<batch, out, printed>>
    BY <1>5 DEF Printed, fileVars
  <2>2. printed \o SubSeq(batch, Len(batch) + 1, Len(batch)) = printed
    BY <1>1, NothingLeft
  <2> QED BY <2>1, <2>2 DEF TakenForFile, TakenForStdout, Rest
<1> QED BY <1>2, <1>3, <1>4, <1>5

\* The swap takes all that is queued.
LEMMA SwapTakes ==
    ASSUME TypeOK, Emptied, NoLineLost, Swap
    PROVE  NoLineLost'
<1>1. /\ pc = "wait" /\ pc' = "file" /\ at' = 1 /\ batch = <<>>
      /\ batch' = queue /\ queue' = <<>> /\ UNCHANGED <<out, printed, logged>>
  BY DEF Emptied, Swap, fileVars
<1>2. queue \in Seq(Line) /\ Lines(out) \in Seq(Line) /\ printed \in Seq(Line)
  BY LinesAre DEF TypeOK
<1>3. SubSeq(queue, 1, Len(queue)) = queue
  BY <1>2, SubSeqFull
<1>4. (Lines(out) \o queue) \o <<>> = Lines(out) \o queue
      /\ (printed \o queue) \o <<>> = printed \o queue
  BY <1>2, ConcatProperties, ConcatEmptySeq
<1>5. TakenForFile' = Lines(out) \o queue /\ TakenForStdout' = printed \o queue
  BY <1>1, <1>3 DEF TakenForFile, TakenForStdout, Rest
<1>6. TakenForFile = Lines(out) /\ TakenForStdout = printed
  BY <1>1 DEF TakenForFile, TakenForStdout
<1> QED BY <1>1, <1>4, <1>5, <1>6 DEF NoLineLost

\* A line that is logged is queued behind all others.
LEMMA LogQueues ==
    ASSUME TypeOK, NoLineLost, NEW text \in Texts, NEW fatal \in BOOLEAN, Log(text, fatal)
    PROVE  NoLineLost'
<1> DEFINE e == NewLine(text)
<1>1. e \in Line
  BY NewLineIs, LoggingAssumption
<1>2. queue' = Append(queue, e) /\ logged' = Append(logged, e)
      /\ UNCHANGED <<batch, at, pc, out, printed>>
  BY DEF Log, threadVars, fileVars
<1>3. TakenForFile' = TakenForFile /\ TakenForStdout' = TakenForStdout
  BY <1>2 DEF TakenForFile, TakenForStdout, Rest
<1> HIDE DEF e
<1>4. queue \in Seq(Line)
  BY DEF TypeOK
<1>5. TakenForFile \in Seq(Line) /\ TakenForStdout \in Seq(Line)
  BY TakenIs
<1>6. \A taken \in Seq(Line) : taken \o Append(queue, e) = Append(taken \o queue, e)
  BY <1>1, <1>4, AppendLast
<1>7. /\ TakenForFile \o Append(queue, e) = Append(TakenForFile \o queue, e)
      /\ TakenForStdout \o Append(queue, e) = Append(TakenForStdout \o queue, e)
  BY <1>5, <1>6, Zenon
<1> QED BY <1>2, <1>3, <1>7, Zenon DEF NoLineLost

LEMMA LossStep ==
    ASSUME TypeOK, Emptied, NoLineLost, [Next]_vars
    PROVE  Emptied' /\ NoLineLost'
<1>1. ASSUME NEW text \in Texts, NEW fatal \in BOOLEAN, Log(text, fatal)
      PROVE  Emptied' /\ NoLineLost'
  BY <1>1, LogQueues DEF Emptied, Log, threadVars
<1>2. CASE Abort \/ Second \/ Stop \/ UNCHANGED vars
  <2>1. UNCHANGED <<queue, batch, at, pc, out, printed, logged>>
    BY <1>2 DEF Abort, Second, Stop, vars, threadVars, fileVars
  <2> QED BY <2>1 DEF Emptied, NoLineLost, TakenForFile, TakenForStdout, Rest
<1>3. CASE StartThread \/ Loop
  <2>1. /\ pc \in {"none", "loop"} /\ pc' \in {"loop", "wait", "ended"}
        /\ pc' = "wait" => batch' = <<>>
        /\ UNCHANGED <<queue, out, printed, logged>>
    BY <1>3 DEF StartThread, Loop, fileVars
  <2> QED BY <2>1 DEF Emptied, NoLineLost, TakenForFile, TakenForStdout
<1>4. CASE Swap
  BY <1>4, SwapTakes DEF Emptied, Swap
<1>5. CASE AppendToFile \/ FlushFile \/ PrintLine \/ Printed
  <2>1. UNCHANGED <<queue, logged>> /\ pc' \notin {"none", "wait"}
    BY <1>5 DEF AppendToFile, FlushFile, PrintLine, Printed
  <2> QED BY <1>5, <2>1, TakenStays DEF Emptied, NoLineLost
<1> QED BY <1>1, <1>2, <1>3, <1>4, <1>5 DEF Next, LogThread

-----------------------------------------------------------------------------
(* What is taken is on disk.                                               *)

LEMMA DiskStep ==
    ASSUME TypeOK, NothingKept, OnDisk, [Next]_vars
    PROVE  NothingKept' /\ OnDisk'
<1>1. ASSUME NEW text \in Texts, NEW fatal \in BOOLEAN, Log(text, fatal)
      PROVE  NothingKept' /\ OnDisk'
  BY <1>1 DEF NothingKept, OnDisk, Log, threadVars, fileVars
<1>2. CASE Abort \/ Second \/ Stop \/ UNCHANGED vars
  BY <1>2 DEF NothingKept, OnDisk, Abort, Second, Stop, vars, threadVars, fileVars
<1>3. CASE StartThread \/ Loop \/ Swap \/ PrintLine \/ Printed
  BY <1>3 DEF NothingKept, OnDisk, StartThread, Loop, Swap, PrintLine, Printed, fileVars
<1>4. CASE AppendToFile
  BY <1>4 DEF NothingKept, OnDisk, AppendToFile
<1>5. CASE FlushFile
  BY <1>5 DEF NothingKept, OnDisk, FlushFile
<1> QED BY <1>1, <1>2, <1>3, <1>4, <1>5 DEF Next, LogThread

-----------------------------------------------------------------------------
(* Files that were rolled keep to one period.                              *)

LEMMA LateFinite ==
    ASSUME TypeOK, NEW roll
    PROVE  IsFiniteSet(LateIn(roll)) /\ Cardinality(LateIn(roll)) \in Nat
<1>1. IsFiniteSet(1..Len(out))
  BY FS_Interval, LenProperties DEF TypeOK
<1>2. LateIn(roll) \subseteq 1..Len(out)
  BY DEF LateIn
<1> QED BY <1>1, <1>2, FS_Subset, FS_CardinalityType

\* While the period of the open file lasts, no line in it is late.
LEMMA NoneLateYet ==
    ASSUME TypeOK, Dated, Period(now) = Period(file.name)
    PROVE  LateIn(file.rolls) = {}
<1> SUFFICES ASSUME NEW i \in LateIn(file.rolls) PROVE FALSE
  OBVIOUS
<1>1. i \in 1..Len(out) /\ out[i] \in Entry
  BY ElementOfSeq DEF LateIn, TypeOK
<1>2. /\ out[i].roll = file.rolls /\ out[i].name = file.name
      /\ out[i].name <= out[i].when /\ out[i].when <= now
      /\ Period(out[i].when) # Period(out[i].name)
  BY <1>1 DEF LateIn, Dated
<1>3. out[i].name \in Nat /\ out[i].when \in Nat /\ now \in Nat
  BY <1>1 DEF Entry, TypeOK
<1>4. Period(out[i].name) <= Period(out[i].when) /\ Period(out[i].when) <= Period(now)
  BY <1>2, <1>3, PeriodIs
<1>5. Period(out[i].name) \in Nat /\ Period(out[i].when) \in Nat
  BY <1>3, PeriodIs
<1> QED BY <1>2, <1>4, <1>5

\* What a line does to the late ones of its file.
LEMMA OneMore ==
    ASSUME TypeOK, Dated, AppendToFile
    PROVE  \A roll \in Nat :
             IF roll = file.rolls /\ Period(now) # Period(file.name)
             THEN Cardinality(LateIn(roll)') = Cardinality(LateIn(roll)) + 1
             ELSE LateIn(roll)' = LateIn(roll)
<1> DEFINE e == [line |-> batch[at], roll |-> file.rolls, name |-> file.name, when |-> now]
           n == Len(out)
<1>1. e \in Entry /\ out \in Seq(Entry)
  BY WrittenIs DEF TypeOK, AppendToFile, Entry, File
<1>2. out' = Append(out, e) /\ e.roll = file.rolls /\ e.name = file.name /\ e.when = now
  BY DEF AppendToFile
<1>3. n \in Nat /\ Len(out') = n + 1 /\ out'[n + 1] = e /\ \A i \in 1..n : out'[i] = out[i]
  <2> HIDE DEF e
  <2> QED BY <1>1, <1>2, AppendProperties, LenProperties
<1> HIDE DEF e
<1>4. \A roll \in Nat : LateIn(roll)' =
        {i \in 1..(n + 1) : out'[i].roll = roll /\ Period(out'[i].when) # Period(out'[i].name)}
  BY <1>3 DEF LateIn
<1>5. \A roll \in Nat : \A i \in 1..n : i \in LateIn(roll)' <=> i \in LateIn(roll)
  BY <1>3, <1>4 DEF LateIn
<1>6. \A roll \in Nat : LateIn(roll)' \subseteq 1..(n + 1) /\ LateIn(roll) \subseteq 1..n
  BY <1>4 DEF LateIn
<1>7. \A roll \in Nat :
        (n + 1) \in LateIn(roll)' <=> roll = file.rolls /\ Period(now) # Period(file.name)
  BY <1>2, <1>3, <1>4
<1>8. ASSUME NEW roll \in Nat, (n + 1) \notin LateIn(roll)'
      PROVE  LateIn(roll)' = LateIn(roll)
  <2> DEFINE L == LateIn(roll)
             M == LateIn(roll)'
  <2>1. M \subseteq 1..(n + 1) /\ L \subseteq 1..n /\ (n + 1) \notin M
        /\ \A i \in 1..n : i \in M <=> i \in L
    BY <1>5, <1>6, <1>8
  <2> HIDE DEF L, M
  <2>2. M \subseteq 1..n
    BY <1>3, <2>1
  <2> QED BY <2>1, <2>2 DEF L, M
<1>9. ASSUME NEW roll \in Nat, (n + 1) \in LateIn(roll)'
      PROVE  Cardinality(LateIn(roll)') = Cardinality(LateIn(roll)) + 1
  <2>1. LateIn(roll)' = LateIn(roll) \cup {n + 1} /\ (n + 1) \notin LateIn(roll)
    BY <1>3, <1>5, <1>6, <1>9
  <2> QED BY <2>1, LateFinite, FS_AddElement
<1> QED BY <1>7, <1>8, <1>9

\* Steps other than AppendToFile leave the lines of files as they are.
LEMMA LateStays ==
    ASSUME UNCHANGED out
    PROVE  \A roll \in Nat : LateIn(roll)' = LateIn(roll)
  BY DEF LateIn

LEMMA LateAppend ==
    ASSUME TypeOK, Dated, FewLate, AppendToFile
    PROVE  Dated' /\ FewLate'
<1> DEFINE e == [line |-> batch[at], roll |-> file.rolls, name |-> file.name, when |-> now]
           f == Written(file)
           late == Period(now) # Period(file.name)
           rolled == file'.rolls = file.rolls + 1
<1>1. /\ f \in File /\ f.name = file.name /\ f.count = file.count
      /\ f.period = file.period /\ f.rolls = file.rolls
  BY WrittenIs DEF AppendToFile
<1>2. now \in Nat /\ file.name \in Nat /\ file.name <= now /\ file.rolls \in Nat
      /\ file.count \in 0..(CheckEveryN - 1) /\ CheckEveryN \in Nat \ {0}
  BY LoggingAssumption DEF TypeOK, File
<1>3. /\ Kept(f) \in File /\ Kept(f).count = (file.count + 1) % CheckEveryN
      /\ Kept(f).name = file.name /\ Kept(f).period = file.period
      /\ Kept(f).rolls = file.rolls
  BY <1>1, <1>2, KeptIs
<1>4. \A g \in {f, Kept(f)} :
         Rolled(g).name = now /\ Rolled(g).period = Period(now)
         /\ Rolled(g).rolls = file.rolls + 1
  BY <1>1, <1>2, <1>3, RolledIs
<1>5. \/ rolled /\ file'.name = now /\ file'.period = Period(now)
      \/ /\ ~CheckDue /\ file'.rolls = file.rolls /\ file'.name = file.name
         /\ file'.period = file.period /\ file'.count = (file.count + 1) % CheckEveryN
  <2> HIDE DEF f
  <2>1. file' \in {Rolled(f), Rolled(Kept(f))} \/ (~CheckDue /\ file' = Kept(f))
    BY DEF AppendToFile, f
  <2> QED BY <1>3, <1>4, <2>1
<1>6. file'.count \in 0..(CheckEveryN - 1) /\ file' \in File /\ now' = now /\ TypeOK'
  BY TypeStep DEF TypeOK, File, Next, LogThread, AppendToFile
<1> HIDE DEF f
<1>7. Dated'
  <2>1. e \in Entry /\ out \in Seq(Entry)
    BY WrittenIs DEF TypeOK, AppendToFile, Entry, File
  <2>2. out' = Append(out, e)
        /\ e.roll = file.rolls /\ e.name = file.name /\ e.when = now
    BY DEF AppendToFile
  <2> HIDE DEF e
  <2>3. Len(out) \in Nat /\ Len(out') = Len(out) + 1 /\ out'[Len(out) + 1] = e
        /\ \A i \in 1..Len(out) : out'[i] = out[i]
    BY <2>1, <2>2, AppendProperties, LenProperties
  <2>4. ASSUME NEW i \in 1..Len(out')
        PROVE  /\ out'[i].roll <= file.rolls
               /\ out'[i].name <= out'[i].when /\ out'[i].when <= now
               /\ out'[i].roll = file.rolls => out'[i].name = file.name
               /\ out'[i].roll \in Nat
    <3>1. CASE i = Len(out) + 1
      BY <1>2, <2>2, <2>3, <3>1
    <3>2. CASE i \in 1..Len(out)
      <4>1. out[i] \in Entry
        BY <2>1, <3>2, ElementOfSeq
      <4> QED BY <2>3, <3>2, <4>1 DEF Dated, Entry
    <3> QED BY <2>3, <3>1, <3>2
  <2>5. ASSUME NEW i \in 1..Len(out')
        PROVE  /\ out'[i].roll <= file'.rolls
               /\ out'[i].name <= out'[i].when /\ out'[i].when <= now'
               /\ out'[i].roll = file'.rolls => out'[i].name = file'.name
    BY <1>2, <1>5, <1>6, <2>4
  <2>6. file'.rolls > 0 => file'.period = Period(file'.name)
    BY <1>2, <1>5 DEF Dated
  <2> QED BY <2>5, <2>6 DEF Dated, Period
<1>8. \A roll \in Nat : Cardinality(LateIn(roll)) \in Nat /\ Cardinality(LateIn(roll)') \in Nat
  BY LateFinite, OneMore
<1>9. ASSUME NEW roll \in Nat \ {0}, roll = file.rolls
      PROVE  /\ Cardinality(LateIn(roll)') <= file.count + 1
             /\ ~late => Cardinality(LateIn(roll)') = 0
  <2>1. CASE late
    BY <1>2, <1>8, <1>9, <2>1, OneMore DEF FewLate
  <2>2. CASE ~late
    <3>1. LateIn(roll) = {}
      BY <1>9, <2>2, NoneLateYet
    <3>2. LateIn(roll)' = {}
      BY <1>9, <2>2, <3>1, OneMore
    <3> QED BY <1>2, <2>2, <3>2, FS_EmptySet
  <2> QED BY <2>1, <2>2
<1>10. \A roll \in 1..file.rolls : Cardinality(LateIn(roll)') <= CheckEveryN
  <2> TAKE roll \in 1..file.rolls
  <2>1. CASE roll = file.rolls
    <3>1. Cardinality(LateIn(roll)') <= file.count + 1 /\ Cardinality(LateIn(roll)') \in Nat
      BY <1>8, <1>9, <2>1
    <3> QED BY <1>2, <3>1
  <2>2. CASE roll # file.rolls
    <3>1. LateIn(roll)' = LateIn(roll)
      BY <1>2, <2>2, OneMore
    <3> QED BY <3>1 DEF FewLate
  <2> QED BY <2>1, <2>2
<1>11. CASE rolled
  <2>1. ASSUME NEW roll \in Nat, roll = file.rolls + 1
        PROVE  LateIn(roll)' = {}
    <3>1. ASSUME NEW i \in 1..Len(out) PROVE out[i].roll # roll
      <4>1. out[i] \in Entry
        BY <3>1, ElementOfSeq DEF TypeOK
      <4> QED BY <1>2, <2>1, <4>1 DEF Dated, Entry
    <3>2. LateIn(roll) = {}
      BY <3>1 DEF LateIn
    <3> QED BY <1>2, <2>1, <3>2, OneMore
  <2>2. ASSUME NEW roll \in Nat, roll = file.rolls + 1
        PROVE  Cardinality(LateIn(roll)') = 0
    BY <2>1, <2>2, FS_EmptySet
  <2>3. \A roll \in 1..file'.rolls : Cardinality(LateIn(roll)') <= CheckEveryN
    <3> TAKE roll \in 1..file'.rolls
    <3>1. roll \in 1..file.rolls \/ (roll \in Nat /\ roll = file.rolls + 1)
      BY <1>2, <1>11
    <3> QED BY <1>2, <1>10, <2>2, <3>1
  <2>4. \A roll \in Nat \ {0} : roll = file'.rolls =>
           Cardinality(LateIn(roll)') <= file'.count
    BY <1>6, <1>11, <2>2
  <2> QED BY <1>7, <2>3, <2>4 DEF FewLate
<1>12. CASE ~rolled
  <2>1. /\ ~CheckDue /\ file'.rolls = file.rolls
        /\ file'.count = (file.count + 1) % CheckEveryN
    BY <1>5, <1>12
  <2>2. file.rolls > 0 /\ late => file'.count = file.count + 1
    <3> SUFFICES ASSUME file.rolls > 0, late PROVE file'.count = file.count + 1
      OBVIOUS
    <3>1. file.count + 1 < CheckEveryN
      BY <1>2, <2>1 DEF CheckDue, Dated
    <3> QED BY <1>2, <2>1, <3>1
  <2>3. ASSUME NEW roll \in Nat \ {0}, roll = file'.rolls
        PROVE  Cardinality(LateIn(roll)') <= file'.count
    <3>1. roll = file.rolls /\ file.rolls > 0
      BY <1>2, <2>1, <2>3
    <3> QED BY <1>2, <1>6, <1>9, <2>2, <3>1
  <2> QED BY <1>7, <1>10, <2>1, <2>3 DEF FewLate
<1> QED BY <1>11, <1>12

LEMMA LateStep ==
    ASSUME TypeOK, Dated, FewLate, [Next]_vars
    PROVE  Dated' /\ FewLate'
<1>1. ASSUME UNCHANGED out, file'.rolls = file.rolls, file'.name = file.name,
             file'.period = file.period, file'.count = file.count,
             now' \in Nat, now <= now'
      PROVE  Dated' /\ FewLate'
  <2>1. ASSUME NEW i \in 1..Len(out)
        PROVE  /\ out[i].name <= out[i].when /\ out[i].when <= now'
    <3>1. out[i] \in Entry
      BY ElementOfSeq DEF TypeOK
    <3>2. out[i].name <= out[i].when /\ out[i].when <= now
      BY <1>1 DEF Dated
    <3>3. out[i].when \in Nat
      BY <3>1 DEF Entry
    <3>4. now \in Nat /\ now' \in Nat /\ now <= now'
      BY <1>1 DEF TypeOK
    <3> QED BY <3>2, <3>3, <3>4
  <2>2. file.period = Period(file.name) => file'.period = Period(file'.name)
    BY <1>1 DEF Period
  <2>3. Dated'
    BY <1>1, <2>1, <2>2 DEF Dated
  <2>4. \A roll \in Nat : LateIn(roll)' = LateIn(roll)
    BY <1>1, LateStays
  <2>5. FewLate'
    BY <1>1, <2>4 DEF FewLate
  <2> QED BY <2>3, <2>5
<1>2. ASSUME NEW text \in Texts, NEW fatal \in BOOLEAN, Log(text, fatal)
      PROVE  Dated' /\ FewLate'
  BY <1>1, <1>2 DEF Log, fileVars, TypeOK
<1>3. CASE Abort \/ Stop \/ StartThread \/ UNCHANGED vars
  BY <1>1, <1>3 DEF Abort, Stop, StartThread, vars, fileVars, TypeOK
<1>4. CASE Second
  BY <1>1, <1>4 DEF Second, fileVars, TypeOK
<1>5. CASE Loop \/ Swap \/ PrintLine \/ Printed
  BY <1>1, <1>5 DEF Loop, Swap, PrintLine, Printed, fileVars, TypeOK
<1>6. CASE AppendToFile
  BY <1>6, LateAppend
<1>7. CASE FlushFile
  <2>1. file' \in {file, Flushed(file)} /\ UNCHANGED <<out, now>>
    BY <1>7 DEF FlushFile
  <2>2. /\ Flushed(file).rolls = file.rolls /\ Flushed(file).name = file.name
        /\ Flushed(file).period = file.period /\ Flushed(file).count = file.count
    BY DEF Flushed, File, TypeOK
  <2> QED BY <1>1, <2>1, <2>2 DEF TypeOK
<1> QED BY <1>2, <1>3, <1>4, <1>5, <1>6, <1>7 DEF Next, LogThread

-----------------------------------------------------------------------------
(* The theorems.                                                           *)

LEMMA InitIInv == Init => IInv
<1> SUFFICES ASSUME Init PROVE IInv
  OBVIOUS
<1> USE LoggingAssumption DEF Init
<1>1. TypeOK
  <2>1. Period(Start) \in Nat /\ Period(MaxNow) \in Nat
    BY PeriodIs
  <2>2. file \in File /\ file.name = Start /\ file.lastFlush = 0
    BY <2>1 DEF File
  <2>3. <<>> \in Seq(Line) /\ <<>> \in Seq(Entry) /\ Len(<<>>) = 0
    BY EmptySeq
  <2>4. queue \in Seq(Line) /\ batch \in Seq(Line) /\ logged \in Seq(Line)
        /\ printed \in Seq(Line) /\ out \in Seq(Entry)
    BY <2>3
  <2>5. running \in BOOLEAN /\ dying \in BOOLEAN /\ aborted \in BOOLEAN
    OBVIOUS
  <2>6. now \in Nat /\ file.name <= now /\ file.lastFlush <= now
    BY <2>2
  <2>7. flushed \in 0..Len(out)
    BY <2>3
  <2> QED BY <2>2, <2>4, <2>5, <2>6, <2>7 DEF TypeOK
<1>2. Emptied /\ NothingKept /\ OnDisk
  BY DEF Emptied, NothingKept, OnDisk
<1>3. NoLineLost
  <2>1. TakenForFile = <<>> /\ TakenForStdout = <<>>
    BY DEF TakenForFile, TakenForStdout, Lines
  <2>2. <<>> \o <<>> = <<>>
    BY EmptySeq, ConcatEmptySeq
  <2> QED BY <2>1, <2>2 DEF NoLineLost
<1>4. Dated /\ FewLate
  <2>1. Len(out) = 0 /\ file.rolls = 0
    OBVIOUS
  <2> QED BY <2>1 DEF Dated, FewLate
<1> QED BY <1>1, <1>2, <1>3, <1>4 DEF IInv

LEMMA NextIInv == IInv /\ [Next]_vars => IInv'
  BY TypeStep, LossStep, DiskStep, LateStep DEF IInv

THEOREM Invariance == Spec => []IInv
  BY InitIInv, NextIInv, PTL DEF Spec

(* Every variable of the log keeps its type, and m_count never reaches     *)
(* m_checkEveryN (log.cc:85-87).                                           *)
THEOREM TypeCorrect == Spec => []TypeOK
  BY Invariance, PTL DEF IInv

(* No line is lost, repeated or overtaken between a Logger and the disk,   *)
(* for any number of threads (log.cc:30-31, logThread.cc:58-76).           *)
THEOREM NothingLost == Spec => []NoLineLost
  BY Invariance, PTL DEF IInv

(* All that was taken is on disk when its batch is over, with any pattern  *)
(* of rolls and flushes in between (logThread.cc:65-69).                   *)
THEOREM Durable == Spec => []OnDisk
  BY Invariance, PTL DEF IInv

(* A file that was rolled gets at most m_checkEveryN lines of a later      *)
(* period, though m_count is not set back by a roll for size (log.cc:76-95). *)
THEOREM Apart == Spec => []PeriodsApart
<1>1. IInv => PeriodsApart
  BY DEF IInv, FewLate, PeriodsApart
<1> QED BY <1>1, Invariance, PTL
=============================================================================
