---------------------------- MODULE TimeTagProofs ----------------------------
(***************************************************************************)
(* Theorems about TimeTagPipeline, for any number of channels, any dead    *)
(* time and any queue, chunk and file sizes.                               *)
(***************************************************************************)
EXTENDS TimeTagPipeline, FiniteSetTheorems, SequenceTheorems, TLAPS

-----------------------------------------------------------------------------
(* Type correctness *)

\* EndTime picks one of two times.
LEMMA EndTimeType ==
    ASSUME TypeOK, NEW c \in Channels
    PROVE  EndTime(c) \in Times
  BY DEF TypeOK, ClaimerTypes, EndTime

\* A claimer makes at most two tags for a click: the dark count before it and
\* the click's own.
LEMMA MadeType ==
    ASSUME NEW dark, NEW S, dark \in {{}} \cup {{d} : d \in S}
    PROVE  Cardinality(dark) = IF dark = {} THEN 0 ELSE 1
PROOF
  <1>1. CASE dark = {}
    BY <1>1, FS_EmptySet
  <1>2. CASE \E d \in S : dark = {d}
    BY <1>2, FS_Singleton
  <1> QED BY <1>1, <1>2

LEMMA ReceiveType ==
    ASSUME TypeOK, NEW c \in Channels, Receive(c)
    PROVE  TypeOK'
PROOF
  <1>1. PICK e \in until[c] .. MaxTime : until' = [until EXCEPT ![c] = e]
    BY DEF Receive
  <1>2. e \in Times
    BY <1>1, PipelineAssumption DEF TypeOK, ClaimerTypes, Times
  <1>3. ClaimerTypes'
    BY <1>1, <1>2 DEF TypeOK, ClaimerTypes, Receive
  <1> QED BY <1>3 DEF TypeOK, MergerTypes, WriterTypes, Receive, mergerVars, writerVars

LEMMA ClickType ==
    ASSUME TypeOK, NEW c \in Channels, Click(c)
    PROVE  TypeOK'
PROOF
  <1> DEFINE Dark(time) == {{}} \cup (IF DarkCounts THEN {{d} : d \in lastClick[c] .. time - 1} ELSE {})
             new(dark) == {NewTag(c, 1, d) : d \in dark}
             made(dark) == 1 + Cardinality(dark)
  <1>1. PICK time \in Times :
          /\ from[c] - EarlyBy <= time /\ time <= until[c] + LateBy
          /\ Survives(c, time)
          /\ \E dark \in Dark(time) :
                  /\ count[c] + made(dark) <= MaxTags
                  /\ filtered' = [filtered EXCEPT
                        ![c] = @ \cup new(dark) \cup {NewTag(c, made(dark), time)}]
                  /\ count' = [count EXCEPT ![c] = @ + made(dark)]
          /\ lastClick' = [lastClick EXCEPT ![c] = time]
    BY Zenon DEF Click
  <1>2. PICK dark \in Dark(time) :
          /\ count[c] + made(dark) <= MaxTags
          /\ filtered' = [filtered EXCEPT
                ![c] = @ \cup new(dark) \cup {NewTag(c, made(dark), time)}]
          /\ count' = [count EXCEPT ![c] = @ + made(dark)]
    BY <1>1
  <1>3. time \in Nat /\ lastClick[c] \in Nat /\ MaxTime \in Nat /\ MaxTags \in Nat /\ count[c] \in 0 .. MaxTags
    BY PipelineAssumption DEF TypeOK, ClaimerTypes, Times
  <1>4. made(dark) \in {1, 2} /\ (dark # {} => made(dark) = 2)
    <2>1. dark \in {{}} \cup {{d} : d \in lastClick[c] .. time - 1}
      BY <1>2
    <2>2. Cardinality(dark) = IF dark = {} THEN 0 ELSE 1
      BY <2>1, MadeType
    <2> QED BY <2>2
  <1>5. \A d \in dark : d \in Times
    BY <1>2, <1>3, time \in Times DEF Times
  <1>6. NewTag(c, made(dark), time) \in Tags
    <2>1. count[c] + made(dark) \in 1 .. MaxTags
      BY <1>2, <1>3, <1>4
    <2> QED BY <2>1 DEF NewTag, Tags
  <1>7. \A d \in dark : NewTag(c, 1, d) \in Tags
    <2>1. dark # {} => count[c] + 1 \in 1 .. MaxTags
      BY <1>2, <1>3, <1>4
    <2> QED BY <2>1, <1>5 DEF NewTag, Tags
  <1>8. filtered' \in [Channels -> SUBSET Tags]
    BY <1>2, <1>6, <1>7 DEF TypeOK, ClaimerTypes
  <1>9. count' \in [Channels -> 0 .. MaxTags]
    BY <1>2, <1>3, <1>4 DEF TypeOK, ClaimerTypes
  <1>10. lastClick' \in [Channels -> Times]
    BY <1>1 DEF TypeOK, ClaimerTypes
  <1> QED
    BY <1>8, <1>9, <1>10
    DEF TypeOK, ClaimerTypes, MergerTypes, WriterTypes, Click, mergerVars, writerVars

LEMMA SendType ==
    ASSUME TypeOK, NEW c \in Channels,
           EndOfClicks(c) \/ SendTags(c) \/ TargetClosed(c)
    PROVE  TypeOK'
PROOF
  <1>1. CASE EndOfClicks(c)
    <2>1. 0 \in Times
      BY PipelineAssumption DEF Times
    <2> QED
      BY <1>1, <2>1
      DEF TypeOK, ClaimerTypes, MergerTypes, WriterTypes, EndOfClicks, mergerVars, writerVars
  <1>2. CASE SendTags(c)
    <2>1. [end |-> EndTime(c), tags |-> filtered[c]] \in Batches
      BY EndTimeType DEF TypeOK, ClaimerTypes, Batches
    <2>2. queue' \in [Channels -> Seq(Batches)]
      BY <1>2, <2>1 DEF SendTags, TypeOK, ClaimerTypes
    <2> QED
      BY <1>2, <2>2
      DEF TypeOK, ClaimerTypes, MergerTypes, WriterTypes, SendTags, mergerVars, writerVars
  <1>3. CASE TargetClosed(c)
    BY <1>3
    DEF TypeOK, ClaimerTypes, MergerTypes, WriterTypes, TargetClosed, mergerVars, writerVars
  <1> QED BY <1>1, <1>2, <1>3

LEMMA AbsorbType ==
    ASSUME TypeOK, NEW c \in Channels, Absorb(c)
    PROVE  /\ queue' \in [Channels -> Seq(Batches)]
           /\ pending' \in [Channels -> SUBSET Tags]
           /\ frontier' \in [Channels -> Times]
PROOF
  <1>1. queue[c] \in Seq(Batches) /\ queue[c] # <<>>
    BY DEF TypeOK, ClaimerTypes, Absorb
  <1>2. Head(queue[c]) \in Batches /\ Tail(queue[c]) \in Seq(Batches)
    BY <1>1
  <1> QED
    BY <1>2 DEF TypeOK, ClaimerTypes, MergerTypes, Absorb, Batches

LEMMA MergerType ==
    ASSUME TypeOK, MergerStep
    PROVE  TypeOK'
PROOF
  <1>0. 1 \in Channels
    BY PipelineAssumption DEF Channels
  <1>1. CASE Control
    BY <1>1
    DEF TypeOK, ClaimerTypes, MergerTypes, WriterTypes, Control, claimerVars, writerVars
  <1>2. CASE AbsorbLaggard
    <2>1. PICK c \in Channels : Absorb(c)
      BY <1>2 DEF AbsorbLaggard
    <2> QED
      BY <1>0, <1>2, <2>1, AbsorbType
      DEF TypeOK, ClaimerTypes, MergerTypes, WriterTypes, AbsorbLaggard, BeginDrain,
          claimerVars, writerVars
  <1>3. CASE LaggardTimeout
    BY <1>0, <1>3
    DEF TypeOK, ClaimerTypes, MergerTypes, WriterTypes, LaggardTimeout, BeginDrain,
        claimerVars, writerVars
  <1>4. CASE DrainBatch
    <2>1. scan \in Channels /\ Absorb(scan)
      BY <1>4 DEF DrainBatch
    <2> QED
      BY <1>4, <2>1, AbsorbType
      DEF TypeOK, ClaimerTypes, MergerTypes, WriterTypes, DrainBatch, claimerVars, writerVars
  <1>5. CASE DrainNext
    <2>1. scan' \in Channels /\ merger' \in {"drain", "emit"}
      BY <1>0, <1>5, PipelineAssumption DEF DrainNext, LastChannel, Channels
    <2> QED
      BY <1>5, <2>1
      DEF TypeOK, ClaimerTypes, MergerTypes, WriterTypes, DrainNext, claimerVars, writerVars
  <1>6. CASE Emit
    <2>1. FinalTags \in SUBSET Tags
      BY DEF FinalTags, Final, TypeOK, MergerTypes
    <2>2. rowQueue' \in Seq(SUBSET Tags)
      BY <1>6, <2>1 DEF Emit, TypeOK, MergerTypes
    <2>3. pending' \in [Channels -> SUBSET Tags]
      BY <1>6 DEF Emit, TypeOK, MergerTypes
    <2> QED
      BY <1>6, <2>1, <2>2, <2>3
      DEF TypeOK, ClaimerTypes, MergerTypes, WriterTypes, Emit, claimerVars, writerVars
  <1> QED
    BY <1>1, <1>2, <1>3, <1>4, <1>5, <1>6 DEF MergerStep

\* What an iteration of the writer does, whatever the lengths.
Writing(full, rotate) ==
    LET inFile == file.rows \o Append(rows, Head(rowQueue))
    IN  /\ rows' = IF full THEN <<>> ELSE Append(rows, Head(rowQueue))
        /\ file' = IF rotate THEN [rows |-> <<>>, chunks |-> 0]
                   ELSE IF full THEN [rows |-> inFile, chunks |-> file.chunks + 1]
                   ELSE file
        /\ closed' = IF rotate THEN closed \o inFile ELSE closed

\* It starts a new file only after a full chunk.
LEMMA RowsWritten ==
    ASSUME WriteRows
    PROVE  \E full, rotate \in BOOLEAN : (rotate => full) /\ Writing(full, rotate)
PROOF
  <1> DEFINE full   == Length(Append(rows, Head(rowQueue))) >= MaxChunkRows
             rotate == full /\ file.chunks + 1 > MaxFileRows \div MaxChunkRows
  <1>1. Writing(full, rotate)
    BY Zenon DEF WriteRows, Writing, Finished, NextFile, EmptyFile
  <1>2. full \in BOOLEAN /\ rotate \in BOOLEAN /\ (rotate => full)
    OBVIOUS
  <1> HIDE DEF full, rotate
  <1> QED BY <1>1, <1>2

LEMMA WriterType ==
    ASSUME TypeOK, WriterStep
    PROVE  TypeOK'
PROOF
  <1>1. CASE WriteRows
    <2>1. rowQueue \in Seq(SUBSET Tags) /\ rowQueue # <<>>
      BY <1>1 DEF WriteRows, TypeOK, MergerTypes
    <2>2. Head(rowQueue) \in SUBSET Tags /\ Tail(rowQueue) \in Seq(SUBSET Tags)
      BY <2>1
    <2>3. WriterTypes'
      <3> DEFINE collected == Append(rows, Head(rowQueue))
                 inFile == file.rows \o collected
      <3>1. rows \in Seq(SUBSET Tags) /\ file.rows \in Seq(SUBSET Tags) /\ closed \in Seq(SUBSET Tags)
        BY DEF TypeOK, WriterTypes
      <3>2. collected \in Seq(SUBSET Tags)
        BY <2>2, <3>1
      <3>3. inFile \in Seq(SUBSET Tags)
        BY <3>1, <3>2
      <3>4. closed \o inFile \in Seq(SUBSET Tags)
        BY <3>1, <3>3
      <3>5. \E full, rotate \in BOOLEAN :
              /\ rows' = IF full THEN <<>> ELSE collected
              /\ file' = IF rotate THEN [rows |-> <<>>, chunks |-> 0]
                         ELSE IF full THEN [rows |-> inFile, chunks |-> file.chunks + 1]
                         ELSE file
              /\ closed' = IF rotate THEN closed \o inFile ELSE closed
        BY <1>1, RowsWritten DEF Writing
      <3>6. file.chunks \in Nat /\ file \in [rows : Seq(SUBSET Tags), chunks : Nat]
        BY DEF TypeOK, WriterTypes
      <3>7. writer' \in {"running", "done"}
        BY <1>1 DEF WriteRows, TypeOK, WriterTypes
      <3> HIDE DEF inFile, collected
      <3>8. rows' \in Seq(SUBSET Tags)
        BY <3>2, <3>5
      <3>9. file' \in [rows : Seq(SUBSET Tags), chunks : Nat]
        BY <3>3, <3>5, <3>6
      <3>10. closed' \in Seq(SUBSET Tags)
        BY <3>1, <3>4, <3>5
      <3> QED BY <3>7, <3>8, <3>9, <3>10 DEF WriterTypes
    <2> QED
      BY <1>1, <2>2, <2>3 DEF WriteRows, TypeOK, ClaimerTypes, MergerTypes, claimerVars, mergerVars
  <1>2. CASE CloseFile
    <2>1. rows \in Seq(SUBSET Tags) /\ file.rows \in Seq(SUBSET Tags) /\ closed \in Seq(SUBSET Tags)
      BY DEF TypeOK, WriterTypes
    <2>2. file.rows \o rows \in Seq(SUBSET Tags)
      BY <2>1
    <2>3. closed' \in Seq(SUBSET Tags)
      BY <1>2, <2>1, <2>2 DEF CloseFile, Flushed
    <2>4. rows' \in Seq(SUBSET Tags) /\ file' \in [rows : Seq(SUBSET Tags), chunks : Nat]
      BY <1>2 DEF CloseFile, EmptyFile
    <2>5. WriterTypes'
      BY <1>2, <2>3, <2>4 DEF CloseFile, WriterTypes
    <2> QED
      BY <1>2, <2>5 DEF CloseFile, TypeOK, ClaimerTypes, MergerTypes, claimerVars, mergerVars
  <1> QED BY <1>1, <1>2 DEF WriterStep

LEMMA StutterType ==
    ASSUME TypeOK, SendStop \/ UNCHANGED vars
    PROVE  TypeOK'
  BY DEF TypeOK, ClaimerTypes, MergerTypes, WriterTypes, SendStop, vars,
         claimerVars, mergerVars, writerVars

LEMMA InitType ==
    ASSUME Init
    PROVE  TypeOK
PROOF
  <1>1. 0 \in Times /\ 1 \in Channels /\ 0 \in 0 .. MaxTags
    BY PipelineAssumption DEF Times, Channels
  <1>2. ClaimerTypes
    BY <1>1 DEF Init, ClaimerTypes
  <1>3. MergerTypes
    <2>1. rowQueue \in Seq(SUBSET Tags)
      BY DEF Init
    <2>2. pending \in [Channels -> SUBSET Tags] /\ frontier \in [Channels -> Times]
      BY <1>1 DEF Init
    <2>3. merger \in {"control", "laggard", "drain", "emit", "stopped"} /\ stopSent \in BOOLEAN
      BY DEF Init
    <2>4. scan \in Channels /\ emitted \subseteq Tags
      BY <1>1 DEF Init
    <2> QED BY <2>1, <2>2, <2>3, <2>4 DEF MergerTypes
  <1>4. WriterTypes
    BY DEF Init, WriterTypes, EmptyFile
  <1> QED BY <1>2, <1>3, <1>4 DEF TypeOK

\* Type correctness: in every reachable state every variable of the pipeline
\* has its type; in particular scan never leaves the channels, count never
\* passes its bound and a frontier is always a time.
THEOREM TypeCorrect == Spec => []TypeOK
PROOF
  <1>1. Init => TypeOK
    BY InitType
  <1>2. TypeOK /\ [Next]_vars => TypeOK'
    BY ReceiveType, ClickType, SendType, MergerType, WriterType, StutterType
    DEF Next, ClaimerStep
  <1> QED BY <1>1, <1>2, PTL DEF Spec

-----------------------------------------------------------------------------
(* The merged stream is sorted                                             *)
(*                                                                         *)
(* StreamSorted compares only what is emitted; that it is kept depends on  *)
(* every stage before.  The inductive invariant follows a tag back to its  *)
(* claimer: what is emitted is no later than any tag under way, no later   *)
(* than any frontier is no tag not yet made, and so on.                    *)

\* No tag that claimer c makes from now on is earlier than its horizon.
Horizon(c) ==
    LET batch == IF claimer[c] = "click" THEN from[c] ELSE until[c]
    IN  IF lastClick[c] > batch THEN lastClick[c] ELSE batch

BatchesAreIntervals == \A c \in Channels : claimer[c] = "click" => from[c] <= until[c]

\* A frontier, and the end of a batch that will become one, keeps what the
\* comment on ChannelBuffer.frontier promises of the tags to come ...
FrontiersHold ==
    \A c \in Channels :
      /\ frontier[c] <= Horizon(c)
      /\ \A i \in DOMAIN queue[c] : queue[c][i].end <= Horizon(c)

\* ... and of the tags on their way behind it.
TagsBehindFrontiers ==
    \A c \in Channels :
      /\ \A y \in filtered[c] :
           /\ frontier[c] <= y.time
           /\ \A i \in DOMAIN queue[c] : queue[c][i].end <= y.time
      /\ \A j \in DOMAIN queue[c] : \A y \in queue[c][j].tags :
           /\ frontier[c] <= y.time
           /\ \A i \in 1 .. j - 1 : queue[c][i].end <= y.time

\* What was emitted precedes what is still to be made ...
EmittedHold == \A c \in Channels : \A x \in emitted : x.time <= Horizon(c)

\* ... and what is under way.
EmittedFirst ==
    \A c \in Channels : \A x \in emitted :
      /\ \A y \in filtered[c] \cup pending[c] : x.time <= y.time
      /\ \A j \in DOMAIN queue[c] : \A y \in queue[c][j].tags : x.time <= y.time

SortedInv ==
    /\ TypeOK
    /\ BatchesAreIntervals
    /\ FrontiersHold
    /\ TagsBehindFrontiers
    /\ EmittedHold
    /\ EmittedFirst

LEMMA TimesAreIntegers == \A t \in Times : t \in Nat
  BY PipelineAssumption DEF Times

LEMMA ClocksAreIntegers ==
    ASSUME TypeOK, NEW c \in Channels
    PROVE  /\ from[c] \in Nat /\ until[c] \in Nat /\ lastClick[c] \in Nat
           /\ frontier[c] \in Nat
  BY TimesAreIntegers DEF TypeOK, ClaimerTypes, MergerTypes

LEMMA HorizonIsInteger ==
    ASSUME TypeOK, TypeOK', NEW c \in Channels
    PROVE  Horizon(c) \in Nat /\ Horizon(c)' \in Nat
PROOF
  <1>1. from'[c] \in Nat /\ until'[c] \in Nat /\ lastClick'[c] \in Nat
    BY TimesAreIntegers DEF TypeOK, ClaimerTypes
  <1> QED BY <1>1, ClocksAreIntegers DEF Horizon

\* The processing of a batch never moves a horizon back.
LEMMA HorizonAdvances ==
    ASSUME TypeOK, BatchesAreIntervals, NEW d \in Channels, ClaimerStep(d),
           NEW c \in Channels
    PROVE  Horizon(c) <= Horizon(c)'
PROOF
  <1>0. /\ from[d] \in Nat /\ until[d] \in Nat /\ lastClick[d] \in Nat
        /\ from[c] \in Nat /\ until[c] \in Nat /\ lastClick[c] \in Nat
        /\ DeadTime \in Nat
    BY ClocksAreIntegers, PipelineAssumption
  <1> USE DEF TypeOK, ClaimerTypes
  <1>1. CASE Receive(d)
    <2>1. PICK e \in until[d] .. MaxTime : until' = [until EXCEPT ![d] = e]
      BY <1>1 DEF Receive
    <2>2. until[d] <= e /\ e \in Int
      BY <1>0, <2>1, PipelineAssumption
    <2> QED BY <1>0, <1>1, <2>1, <2>2 DEF Receive, Horizon
  <1>2. CASE Click(d)
    <2>1. PICK time \in Times :
            Survives(d, time) /\ lastClick' = [lastClick EXCEPT ![d] = time]
      BY <1>2 DEF Click
    <2>2. lastClick[d] <= time /\ time \in Nat
      BY <1>0, <2>1, TimesAreIntegers DEF Survives
    <2> QED BY <1>0, <1>2, <2>1, <2>2 DEF Click, Horizon
  <1>3. CASE EndOfClicks(d)
    <2>1. from[d] <= until[d]
      BY <1>3 DEF EndOfClicks, BatchesAreIntervals
    <2> QED BY <1>0, <1>3, <2>1 DEF EndOfClicks, Horizon
  <1>4. CASE SendTags(d)
    BY <1>0, <1>4 DEF SendTags, Horizon
  <1>5. CASE TargetClosed(d)
    BY <1>0, <1>5 DEF TargetClosed, Horizon
  <1> QED BY <1>1, <1>2, <1>3, <1>4, <1>5 DEF ClaimerStep

\* Without dark counts, and with no click before its batch, the one tag that
\* a click makes respects every bound on its claimer.
LEMMA ClickRespectsBounds ==
    ASSUME DarkCounts = FALSE, EarlyBy = 0,
           TypeOK, BatchesAreIntervals, NEW c \in Channels, Click(c)
    PROVE  \E y \in Tags :
              /\ filtered' = [filtered EXCEPT ![c] = @ \cup {y}]
              /\ Horizon(c) <= y.time
PROOF
  <1>0. /\ from[c] \in Nat /\ until[c] \in Nat /\ lastClick[c] \in Nat
        /\ DeadTime \in Nat
    BY ClocksAreIntegers, PipelineAssumption
  <1>1. PICK time \in Times :
          /\ from[c] - EarlyBy <= time
          /\ Survives(c, time)
          /\ \E dark \in {{}} :
               /\ count[c] + (1 + Cardinality(dark)) <= MaxTags
               /\ filtered' = [filtered EXCEPT
                     ![c] = @ \cup {NewTag(c, 1, d) : d \in dark}
                              \cup {NewTag(c, 1 + Cardinality(dark), time)}]
    BY Zenon DEF Click
  <1>2. /\ count[c] + (1 + Cardinality({})) <= MaxTags
        /\ filtered' = [filtered EXCEPT
              ![c] = @ \cup {NewTag(c, 1, d) : d \in {}}
                       \cup {NewTag(c, 1 + Cardinality({}), time)}]
    BY <1>1
  <1>3. 1 + Cardinality({}) = 1
    BY FS_EmptySet
  <1>4. count[c] + 1 <= MaxTags /\ filtered' = [filtered EXCEPT ![c] = @ \cup {NewTag(c, 1, time)}]
    BY <1>2, <1>3
  <1>5. NewTag(c, 1, time) \in Tags /\ NewTag(c, 1, time).time = time
    BY <1>4, PipelineAssumption DEF TypeOK, ClaimerTypes, NewTag, Tags
  <1>6. Horizon(c) <= time
    <2>1. time \in Nat
      BY TimesAreIntegers
    <2>2. lastClick[c] <= time
      BY <1>0, <1>1, <2>1 DEF Survives
    <2>3. from[c] <= time
      BY <1>0, <1>1, <2>1
    <2>4. claimer[c] = "click"
      BY DEF Click
    <2> QED BY <1>0, <2>1, <2>2, <2>3, <2>4 DEF Horizon
  <1> QED BY <1>4, <1>5, <1>6

\* The batch at position i of a queue after one more was appended.
LEMMA AppendedBatch ==
    ASSUME TypeOK, NEW c \in Channels, SendTags(c)
    PROVE  /\ DOMAIN queue[c] = 1 .. Len(queue[c]) /\ Len(queue[c]) \in Nat
           /\ DOMAIN queue'[c] = 1 .. Len(queue[c]) + 1
           /\ \A i \in DOMAIN queue[c] : queue'[c][i] = queue[c][i]
           /\ queue'[c][Len(queue[c]) + 1] = [end |-> EndTime(c), tags |-> filtered[c]]
           /\ \A d \in Channels \ {c} : queue'[d] = queue[d]
PROOF
  <1>1. queue[c] \in Seq(Batches) /\ queue \in [Channels -> Seq(Batches)]
    BY DEF TypeOK, ClaimerTypes
  <1>2. queue'[c] = Append(queue[c], [end |-> EndTime(c), tags |-> filtered[c]])
    BY <1>1 DEF SendTags
  <1>3. [end |-> EndTime(c), tags |-> filtered[c]] \in Batches
    BY EndTimeType DEF TypeOK, ClaimerTypes, Batches
  <1>4. \A d \in Channels \ {c} : queue'[d] = queue[d]
    BY <1>1 DEF SendTags
  <1> QED BY <1>1, <1>2, <1>3, <1>4

\* The end a claimer gives its batch is not beyond its horizon.
LEMMA EndTimeHolds ==
    ASSUME TypeOK, NEW c \in Channels
    PROVE  claimer[c] = "send" => EndTime(c) <= Horizon(c)
  BY ClocksAreIntegers DEF EndTime, Horizon

LEMMA IntervalsKept ==
    ASSUME TypeOK, BatchesAreIntervals, NEW d \in Channels, ClaimerStep(d)
    PROVE  BatchesAreIntervals'
PROOF
  <1> USE DEF TypeOK, ClaimerTypes, BatchesAreIntervals
  <1>1. CASE Receive(d)
    <2>1. PICK e \in until[d] .. MaxTime : until' = [until EXCEPT ![d] = e]
      BY <1>1 DEF Receive
    <2>2. until[d] <= e
      BY <2>1, ClocksAreIntegers, PipelineAssumption
    <2> QED BY <1>1, <2>1, <2>2 DEF Receive
  <1>2. CASE Click(d) \/ EndOfClicks(d) \/ SendTags(d) \/ TargetClosed(d)
    BY <1>2 DEF Click, EndOfClicks, SendTags, TargetClosed
  <1> QED BY <1>1, <1>2 DEF ClaimerStep

\* The times of batches and tags.
LEMMA TagTimes ==
    ASSUME TypeOK
    PROVE  /\ \A x \in emitted : x.time \in Times
           /\ \A c \in Channels : \A y \in filtered[c] \cup pending[c] : y.time \in Times
           /\ \A c \in Channels : \A i \in DOMAIN queue[c] :
                /\ queue[c][i].end \in Times
                /\ \A y \in queue[c][i].tags : y.time \in Times
           /\ \A c \in Channels : frontier[c] \in Times
PROOF
  <1>1. \A y \in Tags : y.time \in Times
    BY DEF Tags
  <1>2. \A c \in Channels : \A i \in DOMAIN queue[c] : queue[c][i] \in Batches
    BY DEF TypeOK, ClaimerTypes
  <1> QED BY <1>1, <1>2 DEF TypeOK, ClaimerTypes, MergerTypes, Batches

LEMMA ClaimerKeepsFrontiers ==
    ASSUME TypeOK, TypeOK', BatchesAreIntervals, FrontiersHold, EmittedHold,
           NEW d \in Channels, ClaimerStep(d)
    PROVE  FrontiersHold' /\ EmittedHold'
PROOF
  <1>1. \A c \in Channels :
          Horizon(c) <= Horizon(c)' /\ Horizon(c) \in Nat /\ Horizon(c)' \in Nat
    BY HorizonAdvances, HorizonIsInteger
  <1>2. frontier' = frontier /\ emitted' = emitted
    BY DEF ClaimerStep, Receive, Click, EndOfClicks, SendTags, TargetClosed, mergerVars
  <1>3. EmittedHold'
    BY <1>1, <1>2, TagTimes, TimesAreIntegers DEF EmittedHold
  <1>4. \A c \in Channels : frontier'[c] <= Horizon(c)'
    BY <1>1, <1>2, ClocksAreIntegers DEF FrontiersHold
  <1>5. \A c \in Channels : \A i \in DOMAIN queue[c] : queue[c][i].end <= Horizon(c)'
    BY <1>1, TagTimes, TimesAreIntegers DEF FrontiersHold
  <1>6. CASE SendTags(d)
    <2> DEFINE n == Len(queue[d])
    <2>1. /\ DOMAIN queue[d] = 1 .. n /\ n \in Nat
          /\ DOMAIN queue'[d] = 1 .. n + 1
          /\ \A i \in DOMAIN queue[d] : queue'[d][i] = queue[d][i]
          /\ queue'[d][n + 1] = [end |-> EndTime(d), tags |-> filtered[d]]
          /\ \A c \in Channels \ {d} : queue'[c] = queue[c]
      BY <1>6, AppendedBatch
    <2>2. queue'[d][n + 1].end <= Horizon(d)'
      <3>1. EndTime(d) <= Horizon(d) /\ EndTime(d) \in Nat
        BY <1>6, EndTimeHolds, EndTimeType, TimesAreIntegers DEF SendTags
      <3> QED BY <1>1, <2>1, <3>1
    <2> HIDE DEF n
    <2>3. \A i \in DOMAIN queue'[d] : queue'[d][i].end <= Horizon(d)'
      BY <1>5, <2>1, <2>2
    <2> QED BY <1>3, <1>4, <1>5, <2>1, <2>3 DEF FrontiersHold
  <1>7. CASE queue' = queue
    BY <1>3, <1>4, <1>5, <1>7 DEF FrontiersHold
  <1> QED
    BY <1>6, <1>7 DEF ClaimerStep, Receive, Click, EndOfClicks, TargetClosed

LEMMA ClaimerKeepsTags ==
    ASSUME DarkCounts = FALSE, EarlyBy = 0, SortedInv,
           NEW d \in Channels, ClaimerStep(d)
    PROVE  TagsBehindFrontiers' /\ EmittedFirst'
PROOF
  <1>0. TypeOK /\ BatchesAreIntervals
    BY DEF SortedInv
  <1>1. UNCHANGED mergerVars
    BY DEF ClaimerStep, Receive, Click, EndOfClicks, SendTags, TargetClosed
  <1>2. CASE Click(d)
    <2>1. PICK y \in Tags :
            /\ filtered' = [filtered EXCEPT ![d] = @ \cup {y}]
            /\ Horizon(d) <= y.time
      BY <1>0, <1>2, ClickRespectsBounds
    <2>2. Horizon(d) \in Nat /\ y.time \in Nat
      BY <1>0, ClocksAreIntegers, TimesAreIntegers DEF Horizon, Tags
    <2>3. /\ frontier[d] <= y.time
          /\ \A i \in DOMAIN queue[d] : queue[d][i].end <= y.time
          /\ \A x \in emitted : x.time <= y.time
      BY <1>0, <2>1, <2>2, TagTimes, TimesAreIntegers DEF SortedInv, FrontiersHold, EmittedHold
    <2>4. queue' = queue
      BY <1>2 DEF Click
    <2>5. filtered \in [Channels -> SUBSET Tags]
      BY <1>0 DEF TypeOK, ClaimerTypes
    <2> QED
      BY <1>1, <2>1, <2>3, <2>4, <2>5
      DEF SortedInv, TagsBehindFrontiers, EmittedFirst, mergerVars
  <1>3. CASE SendTags(d)
    <2> DEFINE n == Len(queue[d])
    <2>1. /\ DOMAIN queue[d] = 1 .. n /\ n \in Nat
          /\ DOMAIN queue'[d] = 1 .. n + 1
          /\ \A i \in DOMAIN queue[d] : queue'[d][i] = queue[d][i]
          /\ queue'[d][n + 1] = [end |-> EndTime(d), tags |-> filtered[d]]
          /\ \A c \in Channels \ {d} : queue'[c] = queue[c]
      BY <1>0, <1>3, AppendedBatch
    <2> HIDE DEF n
    <2>2. filtered'[d] = {} /\ \A c \in Channels \ {d} : filtered'[c] = filtered[c]
      BY <1>0, <1>3 DEF SendTags, TypeOK, ClaimerTypes
    <2>3. \A y \in queue'[d][n + 1].tags :
            /\ frontier[d] <= y.time
            /\ \A i \in 1 .. n : queue'[d][i].end <= y.time
            /\ \A x \in emitted : x.time <= y.time
      BY <2>1 DEF SortedInv, TagsBehindFrontiers, EmittedFirst
    <2>4. \A j \in 1 .. n : \A y \in queue'[d][j].tags :
            /\ frontier[d] <= y.time
            /\ \A i \in 1 .. j - 1 : queue'[d][i].end <= y.time
            /\ \A x \in emitted : x.time <= y.time
      BY <2>1 DEF SortedInv, TagsBehindFrontiers, EmittedFirst
    <2>5. \A j \in DOMAIN queue'[d] : \A y \in queue'[d][j].tags :
            /\ frontier[d] <= y.time
            /\ \A i \in 1 .. j - 1 : queue'[d][i].end <= y.time
            /\ \A x \in emitted : x.time <= y.time
      BY <2>1, <2>3, <2>4
    <2>6. TagsBehindFrontiers'
      BY <1>1, <2>1, <2>2, <2>5 DEF SortedInv, TagsBehindFrontiers, mergerVars
    <2>7. EmittedFirst'
      BY <1>1, <2>1, <2>2, <2>5 DEF SortedInv, EmittedFirst, mergerVars
    <2> QED BY <2>6, <2>7
  <1>4. CASE queue' = queue /\ filtered' = filtered
    BY <1>1, <1>4 DEF SortedInv, TagsBehindFrontiers, EmittedFirst, mergerVars
  <1> QED
    BY <1>2, <1>3, <1>4 DEF ClaimerStep, Receive, EndOfClicks, TargetClosed

-----------------------------------------------------------------------------

\* The head of a queue becomes the channel's frontier and pending tags.
LEMMA AbsorbKeepsSorted ==
    ASSUME SortedInv, TypeOK', NEW c \in Channels, Absorb(c),
           UNCHANGED <<claimerVars, emitted>>
    PROVE  SortedInv'
PROOF
  <1> DEFINE n == Len(queue[c])
  <1>1. /\ n \in Nat /\ n >= 1
        /\ DOMAIN queue[c] = 1 .. n
        /\ DOMAIN queue'[c] = 1 .. n - 1
        /\ \A i \in 1 .. n - 1 : queue'[c][i] = queue[c][i + 1]
        /\ frontier'[c] = queue[c][1].end
        /\ pending'[c] = pending[c] \cup queue[c][1].tags
    <2>1. queue[c] \in Seq(Batches) /\ queue[c] # <<>>
      BY DEF SortedInv, TypeOK, ClaimerTypes, Absorb
    <2>2. /\ queue'[c] = Tail(queue[c])
          /\ frontier'[c] = Head(queue[c]).end
          /\ pending'[c] = pending[c] \cup Head(queue[c]).tags
      BY DEF SortedInv, TypeOK, ClaimerTypes, MergerTypes, Absorb
    <2> QED BY <2>1, <2>2
  <1>2. \A d \in Channels \ {c} :
          queue'[d] = queue[d] /\ frontier'[d] = frontier[d] /\ pending'[d] = pending[d]
    BY DEF SortedInv, TypeOK, ClaimerTypes, MergerTypes, Absorb
  <1>3. \A d \in Channels : Horizon(d)' = Horizon(d) /\ filtered'[d] = filtered[d]
    BY DEF claimerVars, Horizon
  <1> HIDE DEF n
  <1>4. BatchesAreIntervals' /\ EmittedHold'
    BY <1>3 DEF SortedInv, BatchesAreIntervals, EmittedHold, claimerVars
  <1>5. FrontiersHold'
    <2>1. \A i \in 1 .. n : queue[c][i].end <= Horizon(c)
      BY <1>1 DEF SortedInv, FrontiersHold
    <2>2. \A i \in 1 .. n - 1 : i + 1 \in 1 .. n
      BY <1>1
    <2>3. Horizon(c)' = Horizon(c)
      BY <1>3
    <2>4. frontier'[c] <= Horizon(c)'
      BY <1>1, <2>1, <2>3
    <2>5. \A i \in DOMAIN queue'[c] : queue'[c][i].end <= Horizon(c)'
      BY <1>1, <2>1, <2>2, <2>3
    <2> QED BY <1>2, <1>3, <2>4, <2>5 DEF SortedInv, FrontiersHold
  <1>6. TagsBehindFrontiers'
    <2>1. \A y \in filtered'[c] :
            /\ frontier'[c] <= y.time
            /\ \A i \in DOMAIN queue'[c] : queue'[c][i].end <= y.time
      BY <1>1, <1>3 DEF SortedInv, TagsBehindFrontiers
    <2>2. ASSUME NEW j \in 1 .. n - 1, NEW y \in queue'[c][j].tags
          PROVE  /\ frontier'[c] <= y.time
                 /\ \A i \in 1 .. j - 1 : queue'[c][i].end <= y.time
      <3>1. j + 1 \in 1 .. n /\ 1 \in 1 .. (j + 1) - 1 /\ y \in queue[c][j + 1].tags
        BY <1>1
      <3>2. \A i \in 1 .. (j + 1) - 1 : queue[c][i].end <= y.time
        BY <1>1, <3>1 DEF SortedInv, TagsBehindFrontiers
      <3>3. \A i \in 1 .. j - 1 : i \in 1 .. n - 1 /\ i + 1 \in 1 .. (j + 1) - 1
        BY <1>1
      <3> QED BY <1>1, <3>1, <3>2, <3>3
    <2> QED BY <1>1, <1>2, <1>3, <2>1, <2>2 DEF SortedInv, TagsBehindFrontiers
  <1>7. EmittedFirst'
    <2>1. emitted' = emitted
      OBVIOUS
    <2>2. \A x \in emitted : \A j \in 1 .. n : \A y \in queue[c][j].tags : x.time <= y.time
      BY <1>1 DEF SortedInv, EmittedFirst
    <2>3. \A i \in 1 .. n - 1 : i + 1 \in 1 .. n
      BY <1>1
    <2>4. \A x \in emitted :
            /\ \A y \in filtered'[c] \cup pending'[c] : x.time <= y.time
            /\ \A j \in DOMAIN queue'[c] : \A y \in queue'[c][j].tags : x.time <= y.time
      BY <1>1, <1>3, <2>2, <2>3 DEF SortedInv, EmittedFirst
    <2> QED BY <1>2, <1>3, <2>1, <2>4 DEF SortedInv, EmittedFirst
  <1> QED BY <1>4, <1>5, <1>6, <1>7 DEF SortedInv

\* What the merge thread emits follows what it emitted before and precedes
\* all that is pending, under way or still to be made.
LEMMA EmitKeepsSorted ==
    ASSUME SortedInv, TypeOK', Emit
    PROVE  /\ SortedInv'
           /\ \A new \in emitted' \ emitted, old \in emitted : old.time <= new.time
PROOF
  <1>1. /\ emitted' = emitted \cup FinalTags
        /\ pending' = [c \in Channels |-> pending[c] \ Final(c)]
        /\ UNCHANGED <<claimerVars, queue, frontier>>
    BY DEF Emit
  <1>2. \A c \in Channels : Horizon(c)' = Horizon(c) /\ Horizon(c) \in Nat
    BY <1>1, HorizonIsInteger DEF SortedInv, claimerVars, Horizon
  <1>3. \A x \in FinalTags : x.time \in Nat /\ \A d \in Channels : x.time <= frontier[d]
    BY TagTimes, TimesAreIntegers DEF SortedInv, FinalTags, Final
  <1>4. \A x \in FinalTags : \E c \in Channels : x \in pending[c]
    BY DEF FinalTags, Final
  <1>5. \A c \in Channels : frontier[c] \in Nat /\ frontier[c] <= Horizon(c)
    BY ClocksAreIntegers DEF SortedInv, FrontiersHold
  <1>6. BatchesAreIntervals' /\ FrontiersHold' /\ TagsBehindFrontiers'
    BY <1>1, <1>2
    DEF SortedInv, BatchesAreIntervals, FrontiersHold, TagsBehindFrontiers, claimerVars
  <1>7. EmittedHold'
    <2>1. \A c \in Channels : \A x \in FinalTags : x.time <= Horizon(c)
      BY <1>2, <1>3, <1>5
    <2> QED BY <1>1, <1>2, <2>1 DEF SortedInv, EmittedHold
  <1>8. EmittedFirst'
    <2>1. ASSUME NEW c \in Channels, NEW x \in FinalTags
          PROVE  /\ \A y \in filtered[c] \cup pending'[c] : x.time <= y.time
                 /\ \A j \in DOMAIN queue[c] : \A y \in queue[c][j].tags : x.time <= y.time
      <3>1. x.time \in Nat /\ x.time <= frontier[c] /\ frontier[c] \in Nat
        BY <1>3, <1>5
      <3>2. ASSUME NEW y \in pending'[c]
            PROVE  x.time <= y.time
        <4>1. y \in pending[c] /\ y \notin Final(c)
          BY <1>1
        <4>2. y.time \in Nat
          BY <4>1, TagTimes, TimesAreIntegers DEF SortedInv
        <4>3. PICK d \in Channels : ~ (y.time <= frontier[d])
          BY <4>1 DEF Final
        <4> QED BY <1>3, <1>5, <3>1, <4>2, <4>3
      <3>3. \A y \in filtered[c] : frontier[c] <= y.time /\ y.time \in Nat
        BY TagTimes, TimesAreIntegers DEF SortedInv, TagsBehindFrontiers
      <3>4. \A j \in DOMAIN queue[c] : \A y \in queue[c][j].tags :
              frontier[c] <= y.time /\ y.time \in Nat
        BY TagTimes, TimesAreIntegers DEF SortedInv, TagsBehindFrontiers
      <3>5. \A y \in filtered[c] : x.time <= y.time
        BY <3>1, <3>3
      <3>6. \A j \in DOMAIN queue[c] : \A y \in queue[c][j].tags : x.time <= y.time
        BY <3>1, <3>4
      <3> QED BY <3>2, <3>5, <3>6
    <2>2. \A c \in Channels : pending'[c] \subseteq pending[c]
      BY <1>1
    <2>3. filtered' = filtered /\ queue' = queue
      BY <1>1 DEF claimerVars
    <2> QED BY <1>1, <2>1, <2>2, <2>3 DEF SortedInv, EmittedFirst
  <1>9. \A new \in emitted' \ emitted, old \in emitted : old.time <= new.time
    BY <1>1, <1>4 DEF SortedInv, EmittedFirst
  <1> QED BY <1>6, <1>7, <1>8, <1>9 DEF SortedInv

LEMMA SortedStep ==
    ASSUME DarkCounts = FALSE, EarlyBy = 0, SortedInv, TypeOK', [Next]_vars
    PROVE  /\ SortedInv'
           /\ \A new \in emitted' \ emitted, old \in emitted : old.time <= new.time
PROOF
  <1>1. CASE \E c \in Channels : ClaimerStep(c)
    <2>1. PICK c \in Channels : ClaimerStep(c)
      BY <1>1
    <2>2. emitted' = emitted
      BY <2>1 DEF ClaimerStep, Receive, Click, EndOfClicks, SendTags, TargetClosed, mergerVars
    <2>3. TypeOK /\ BatchesAreIntervals /\ FrontiersHold /\ EmittedHold
      BY DEF SortedInv
    <2>4. BatchesAreIntervals'
      BY <2>1, <2>3, IntervalsKept
    <2>5. FrontiersHold' /\ EmittedHold'
      BY <2>1, <2>3, ClaimerKeepsFrontiers
    <2>6. TagsBehindFrontiers' /\ EmittedFirst'
      BY <2>1, ClaimerKeepsTags
    <2> QED BY <2>2, <2>4, <2>5, <2>6 DEF SortedInv
  <1>2. CASE AbsorbLaggard \/ DrainBatch
    <2>1. PICK c \in Channels : Absorb(c)
      BY <1>2 DEF AbsorbLaggard, DrainBatch
    <2>2. UNCHANGED <<claimerVars, emitted>>
      BY <1>2 DEF AbsorbLaggard, DrainBatch
    <2>3. SortedInv'
      BY <2>1, <2>2, AbsorbKeepsSorted
    <2> QED BY <2>2, <2>3
  <1>3. CASE Emit
    BY <1>3, EmitKeepsSorted
  <1>4. CASE UNCHANGED <<claimerVars, queue, pending, frontier, emitted>>
    BY <1>4
    DEF SortedInv, BatchesAreIntervals, FrontiersHold, TagsBehindFrontiers, EmittedHold,
        EmittedFirst, Horizon, claimerVars
  <1>5. CASE Control \/ LaggardTimeout \/ DrainNext \/ SendStop \/ WriterStep \/ UNCHANGED vars
    BY <1>4, <1>5
    DEF Control, LaggardTimeout, DrainNext, SendStop, WriterStep, WriteRows, CloseFile, vars,
        mergerVars
  <1> QED BY <1>1, <1>2, <1>3, <1>5 DEF Next, MergerStep

LEMMA InitSorted ==
    ASSUME Init
    PROVE  SortedInv
PROOF
  <1>1. TypeOK
    BY InitType
  <1> QED
    BY <1>1 DEF Init, SortedInv, BatchesAreIntervals, FrontiersHold, TagsBehindFrontiers,
                EmittedHold, EmittedFirst, Horizon

\* The merged stream is sorted, whatever the order in which batches and
\* timeouts reach the merge thread, provided that detectors have no dark
\* counts and no click precedes its batch.  The run DarkUnsorted shows
\* that the first assumption cannot be dropped.
THEOREM SortedWithoutDarkCounts ==
    ASSUME DarkCounts = FALSE, EarlyBy = 0
    PROVE  Spec => StreamSorted
PROOF
  <1>1. Init => SortedInv
    BY InitSorted
  <1>2. SortedInv /\ [Next]_vars /\ TypeOK' =>
          /\ SortedInv'
          /\ [\A new \in emitted' \ emitted, old \in emitted : old.time <= new.time]_vars
    BY SortedStep
  <1> QED BY <1>1, <1>2, TypeCorrect, PTL DEF Spec, StreamSorted

-----------------------------------------------------------------------------
(* The dead time is kept.  What makes it inductive is that last_click is   *)
(* never behind a tag already made, across the batches of the detector.    *)

LastClickIsLast ==
    \A c \in Channels : \A y \in MadeBy(c) : y.n <= count[c] /\ y.time <= lastClick[c]

OwnTags ==
    \A c \in Channels : \A y \in filtered[c] \cup QueuedTags(c) \cup pending[c] : y.chan = c

DeadTimeInv == TypeOK /\ OwnTags /\ LastClickIsLast /\ DeadTimeKept

LEMMA MadeAreTags ==
    ASSUME TypeOK, NEW c \in Channels
    PROVE  MadeBy(c) \subseteq Tags
PROOF
  <1>1. \A i \in 1 .. Len(queue[c]) : queue[c][i].tags \in SUBSET Tags
    <2>1. queue[c] \in Seq(Batches)
      BY DEF TypeOK, ClaimerTypes
    <2>2. \A i \in 1 .. Len(queue[c]) : queue[c][i] \in Batches
      BY <2>1
    <2> QED BY <2>2 DEF Batches
  <1>2. QueuedTags(c) \subseteq Tags
    BY <1>1 DEF QueuedTags
  <1> QED BY <1>2 DEF TypeOK, ClaimerTypes, MergerTypes, MadeBy

\* A step that makes no tag, however it moves the tags there are.
LEMMA MovingKeepsDeadTime ==
    ASSUME DeadTimeInv, TypeOK', OwnTags',
           UNCHANGED <<count, lastClick>>,
           \A c \in Channels : MadeBy(c)' \subseteq MadeBy(c)
    PROVE  DeadTimeInv'
  BY DEF DeadTimeInv, LastClickIsLast, DeadTimeKept

LEMMA ClickKeepsDeadTime ==
    ASSUME DarkCounts = FALSE, DeadTimeInv, TypeOK', NEW c \in Channels, Click(c)
    PROVE  DeadTimeInv'
PROOF
  <1>0. TypeOK
    BY DEF DeadTimeInv
  <1>1. PICK time \in Times :
          /\ Survives(c, time)
          /\ \E dark \in {{}} :
               /\ filtered' = [filtered EXCEPT
                     ![c] = @ \cup {NewTag(c, 1, d) : d \in dark}
                              \cup {NewTag(c, 1 + Cardinality(dark), time)}]
               /\ count' = [count EXCEPT ![c] = @ + (1 + Cardinality(dark))]
          /\ lastClick' = [lastClick EXCEPT ![c] = time]
    BY Zenon DEF Click
  <1>2. /\ filtered' = [filtered EXCEPT
              ![c] = @ \cup {NewTag(c, 1, d) : d \in {}}
                       \cup {NewTag(c, 1 + Cardinality({}), time)}]
        /\ count' = [count EXCEPT ![c] = @ + (1 + Cardinality({}))]
    BY <1>1
  <1>3. 1 + Cardinality({}) = 1
    BY FS_EmptySet
  <1> DEFINE new == NewTag(c, 1, time)
  <1>4. filtered'[c] = filtered[c] \cup {new} /\ \A d \in Channels \ {c} : filtered'[d] = filtered[d]
    BY <1>0, <1>2, <1>3 DEF TypeOK, ClaimerTypes
  <1>5. count'[c] = count[c] + 1 /\ \A d \in Channels \ {c} : count'[d] = count[d]
    BY <1>0, <1>2, <1>3 DEF TypeOK, ClaimerTypes
  <1>6. lastClick'[c] = time /\ \A d \in Channels \ {c} : lastClick'[d] = lastClick[d]
    BY <1>0, <1>1 DEF TypeOK, ClaimerTypes
  <1>7. UNCHANGED <<queue, pending, emitted>>
    BY DEF Click, mergerVars
  <1>8. new.chan = c /\ new.n = count[c] + 1 /\ new.time = time
    BY DEF NewTag
  <1>9. /\ MadeBy(c)' = MadeBy(c) \cup {new}
        /\ \A d \in Channels \ {c} : MadeBy(d)' = MadeBy(d)
    BY <1>4, <1>7 DEF MadeBy, QueuedTags
  <1>10. OwnTags'
    BY <1>4, <1>7, <1>8 DEF DeadTimeInv, OwnTags, QueuedTags
  <1>11. /\ time \in Nat /\ lastClick[c] \in Nat /\ count[c] \in Nat /\ DeadTime \in Nat
         /\ lastClick[c] + DeadTime <= time
    BY <1>0, <1>1, ClocksAreIntegers, TimesAreIntegers, PipelineAssumption
    DEF Survives, TypeOK, ClaimerTypes
  <1>12. \A y \in MadeBy(c) : /\ y.n \in Nat /\ y.time \in Nat
                              /\ y.n <= count[c] /\ y.time <= lastClick[c]
    BY <1>0, MadeAreTags, TimesAreIntegers DEF DeadTimeInv, LastClickIsLast, Tags
  <1> HIDE DEF new
  <1>13. \A y \in MadeBy(c)' : y.n <= count'[c] /\ y.time <= lastClick'[c]
    BY <1>5, <1>6, <1>8, <1>9, <1>11, <1>12
  <1>14. LastClickIsLast'
    BY <1>5, <1>6, <1>9, <1>13 DEF DeadTimeInv, LastClickIsLast
  <1>15. \A a, b \in MadeBy(c)' : a.n < b.n => a.time + DeadTime <= b.time
    BY <1>8, <1>9, <1>11, <1>12 DEF DeadTimeInv, DeadTimeKept
  <1>16. DeadTimeKept'
    BY <1>9, <1>15 DEF DeadTimeInv, DeadTimeKept
  <1> QED BY <1>10, <1>14, <1>16 DEF DeadTimeInv

\* A claimer's batch moves to the end of its queue, and nothing else moves.
LEMMA SendMoves ==
    ASSUME TypeOK, NEW c \in Channels, SendTags(c)
    PROVE  /\ QueuedTags(c)' = QueuedTags(c) \cup filtered[c]
           /\ filtered'[c] = {}
           /\ \A d \in Channels \ {c} :
                 QueuedTags(d)' = QueuedTags(d) /\ filtered'[d] = filtered[d]
           /\ UNCHANGED <<count, lastClick, pending, emitted>>
PROOF
  <1> DEFINE n == Len(queue[c])
  <1>1. /\ n \in Nat /\ DOMAIN queue'[c] = 1 .. n + 1 /\ DOMAIN queue[c] = 1 .. n
        /\ \A i \in DOMAIN queue[c] : queue'[c][i] = queue[c][i]
        /\ queue'[c][n + 1] = [end |-> EndTime(c), tags |-> filtered[c]]
        /\ \A d \in Channels \ {c} : queue'[d] = queue[d]
    BY AppendedBatch
  <1>2. Len(queue'[c]) = n + 1
    BY DEF SendTags, TypeOK, ClaimerTypes
  <1> HIDE DEF n
  <1>3. QueuedTags(c)' = QueuedTags(c) \cup filtered[c]
    <2>1. \A i \in 1 .. n + 1 : i \in 1 .. n \/ i = n + 1
      BY <1>1
    <2>2. \A i \in 1 .. n : queue'[c][i].tags = queue[c][i].tags
      BY <1>1
    <2>3. queue'[c][n + 1].tags = filtered[c]
      BY <1>1
    <2>4. QueuedTags(c)' = UNION {queue'[c][i].tags : i \in 1 .. n + 1}
      BY <1>2 DEF QueuedTags
    <2>5. QueuedTags(c) = UNION {queue[c][i].tags : i \in 1 .. n}
      BY <1>1 DEF QueuedTags, n
    <2> QED BY <1>1, <2>1, <2>2, <2>3, <2>4, <2>5
  <1>4. \A d \in Channels \ {c} : QueuedTags(d)' = QueuedTags(d)
    BY <1>1 DEF QueuedTags
  <1>5. /\ filtered'[c] = {} /\ \A d \in Channels \ {c} : filtered'[d] = filtered[d]
        /\ UNCHANGED <<count, lastClick, pending, emitted>>
    BY DEF SendTags, TypeOK, ClaimerTypes, mergerVars
  <1> QED BY <1>3, <1>4, <1>5

\* The oldest batch of a queue moves to the buffer, and nothing else moves.
LEMMA AbsorbMoves ==
    ASSUME TypeOK, NEW c \in Channels, Absorb(c)
    PROVE  /\ QueuedTags(c) = Head(queue[c]).tags \cup QueuedTags(c)'
           /\ pending'[c] = pending[c] \cup Head(queue[c]).tags
           /\ \A d \in Channels \ {c} :
                 QueuedTags(d)' = QueuedTags(d) /\ pending'[d] = pending[d]
PROOF
  <1>1. queue[c] \in Seq(Batches) /\ queue[c] # <<>>
    BY DEF Absorb, TypeOK, ClaimerTypes
  <1>2. /\ queue'[c] = Tail(queue[c]) /\ pending'[c] = pending[c] \cup Head(queue[c]).tags
        /\ \A d \in Channels \ {c} : queue'[d] = queue[d] /\ pending'[d] = pending[d]
    BY DEF Absorb, TypeOK, ClaimerTypes, MergerTypes
  <1>3. QueuedTags(c) = Head(queue[c]).tags \cup QueuedTags(c)'
    <2> DEFINE n == Len(queue[c])
    <2>1. /\ n \in Nat \ {0} /\ Len(queue'[c]) = n - 1 /\ Head(queue[c]) = queue[c][1]
          /\ \A i \in 1 .. n - 1 : queue'[c][i] = queue[c][i + 1]
      BY <1>1, <1>2
    <2> HIDE DEF n
    <2>2. \A i \in 1 .. n : i = 1 \/ i - 1 \in 1 .. n - 1
      BY <2>1
    <2>3. \A i \in 1 .. n - 1 : i + 1 \in 1 .. n
      BY <2>1
    <2>4. QueuedTags(c)' = UNION {queue'[c][i].tags : i \in 1 .. n - 1}
      BY <2>1 DEF QueuedTags
    <2>5. QueuedTags(c) = UNION {queue[c][i].tags : i \in 1 .. n}
      BY DEF QueuedTags, n
    <2>6. ASSUME NEW x \in QueuedTags(c)
          PROVE  x \in Head(queue[c]).tags \cup QueuedTags(c)'
      <3>1. PICK i \in 1 .. n : x \in queue[c][i].tags
        BY <2>5, <2>6
      <3>2. CASE i = 1
        BY <2>1, <3>1, <3>2
      <3>3. CASE i - 1 \in 1 .. n - 1
        <4>1. queue'[c][i - 1] = queue[c][i]
          BY <2>1, <3>1, <3>3
        <4> QED BY <2>4, <3>1, <3>3, <4>1
      <3> QED BY <2>2, <3>1, <3>2, <3>3
    <2>7. QueuedTags(c)' \subseteq QueuedTags(c)
      BY <2>1, <2>3, <2>4, <2>5
    <2>8. 1 \in 1 .. n
      BY <2>1
    <2> QED BY <2>1, <2>5, <2>6, <2>7, <2>8
  <1>4. \A d \in Channels \ {c} : QueuedTags(d)' = QueuedTags(d)
    BY <1>2 DEF QueuedTags
  <1> QED BY <1>2, <1>3, <1>4

LEMMA DeadTimeStep ==
    ASSUME DarkCounts = FALSE, DeadTimeInv, TypeOK', [Next]_vars
    PROVE  DeadTimeInv'
PROOF
  <1>0. TypeOK
    BY DEF DeadTimeInv
  <1>1. CASE \E c \in Channels : Click(c)
    BY <1>1, ClickKeepsDeadTime
  <1>2. CASE \E c \in Channels : SendTags(c)
    <2>1. PICK c \in Channels : SendTags(c)
      BY <1>2
    <2>2. OwnTags' /\ \A d \in Channels : MadeBy(d)' \subseteq MadeBy(d)
      BY <1>0, <2>1, SendMoves DEF DeadTimeInv, OwnTags, MadeBy
    <2> QED BY <1>0, <2>1, <2>2, SendMoves, MovingKeepsDeadTime
  <1>3. CASE AbsorbLaggard \/ DrainBatch
    <2>1. PICK c \in Channels : Absorb(c)
      BY <1>3 DEF AbsorbLaggard, DrainBatch
    <2>2. UNCHANGED <<filtered, count, lastClick, emitted>>
      BY <1>3 DEF AbsorbLaggard, DrainBatch, claimerVars
    <2>3. OwnTags' /\ \A d \in Channels : MadeBy(d)' \subseteq MadeBy(d)
      BY <1>0, <2>1, <2>2, AbsorbMoves DEF DeadTimeInv, OwnTags, MadeBy
    <2> QED BY <2>2, <2>3, MovingKeepsDeadTime
  <1>4. CASE Emit
    <2>1. /\ emitted' = emitted \cup FinalTags
          /\ pending' = [c \in Channels |-> pending[c] \ Final(c)]
          /\ UNCHANGED <<filtered, queue, count, lastClick>>
      BY <1>4 DEF Emit, claimerVars
    <2>2. \A c \in Channels : QueuedTags(c)' = QueuedTags(c)
      BY <2>1 DEF QueuedTags
    <2>3. \A c \in Channels : \A y \in FinalTags : y.chan = c => y \in pending[c]
      BY DEF FinalTags, Final, DeadTimeInv, OwnTags
    <2>4. OwnTags' /\ \A c \in Channels : MadeBy(c)' \subseteq MadeBy(c)
      BY <2>1, <2>2, <2>3 DEF DeadTimeInv, OwnTags, MadeBy
    <2> QED BY <2>1, <2>4, MovingKeepsDeadTime
  <1>5. CASE UNCHANGED <<filtered, count, lastClick, queue, pending, emitted>>
    BY <1>5 DEF DeadTimeInv, OwnTags, LastClickIsLast, DeadTimeKept, MadeBy, QueuedTags
  <1> QED
    BY <1>1, <1>2, <1>3, <1>4, <1>5
    DEF Next, ClaimerStep, MergerStep, Receive, EndOfClicks, TargetClosed, Control,
        LaggardTimeout, DrainNext, SendStop, WriterStep, WriteRows, CloseFile, vars,
        claimerVars, mergerVars

LEMMA InitDeadTime ==
    ASSUME Init
    PROVE  DeadTimeInv
PROOF
  <1>1. TypeOK
    BY InitType
  <1>2. \A c \in Channels : QueuedTags(c) = {}
    BY DEF Init, QueuedTags
  <1>3. \A c \in Channels : MadeBy(c) = {}
    BY <1>2 DEF Init, MadeBy
  <1>4. OwnTags
    BY <1>2 DEF Init, OwnTags
  <1> QED
    BY <1>1, <1>3, <1>4 DEF DeadTimeInv, LastClickIsLast, DeadTimeKept

\* Without dark counts no two tags of a detector are closer than its dead
\* time, whether they come from one batch or from several, at every stage of
\* their way.  Dark counts are not held to the dead time (spd.rs:111-113).
THEOREM DeadTimeWithoutDarkCounts ==
    ASSUME DarkCounts = FALSE
    PROVE  Spec => []DeadTimeKept
PROOF
  <1>1. Init => DeadTimeInv
    BY InitDeadTime
  <1>2. DeadTimeInv /\ [Next]_vars /\ TypeOK' => DeadTimeInv'
    BY DeadTimeStep
  <1>3. DeadTimeInv => DeadTimeKept
    BY DEF DeadTimeInv
  <1> QED BY <1>1, <1>2, <1>3, TypeCorrect, PTL DEF Spec

-----------------------------------------------------------------------------
(* No tag is lost or made twice.  EachTagOnce is not inductive: it says    *)
(* that the queue as a whole shares no tag with the buffer behind it, but  *)
(* not that two batches in it do not, of which the first is absorbed; and  *)
(* it says nothing of the writer's rows while the writer still runs.       *)

Apart(c) ==
    /\ filtered[c] \cap QueuedTags(c) = {} /\ filtered[c] \cap pending[c] = {}
    /\ filtered[c] \cap emitted = {} /\ QueuedTags(c) \cap pending[c] = {}
    /\ QueuedTags(c) \cap emitted = {} /\ pending[c] \cap emitted = {}

BatchesApart ==
    \A c \in Channels : \A i, j \in 1 .. Len(queue[c]) :
        i # j => queue[c][i].tags \cap queue[c][j].tags = {}

Numbered == \A c \in Channels : {tag.n : tag \in MadeBy(c)} = 1 .. count[c]

\* A writer that is done has nothing left.
WriterDrained == Exited => rowQueue = <<>> /\ rows = <<>> /\ file.rows = <<>>

TagsOnceInv ==
    /\ TypeOK /\ OwnTags /\ (\A c \in Channels : Apart(c)) /\ BatchesApart /\ Numbered
    /\ OnceInStream /\ WriterDrained

LEMMA OnceImplied ==
    ASSUME TagsOnceInv
    PROVE  EachTagOnce
PROOF
  <1>1. ASSUME NEW c \in Channels
        PROVE  LET stages == <<filtered[c], QueuedTags(c), pending[c], {t \in emitted : t.chan = c}>>
               IN  /\ \A i, j \in DOMAIN stages : i < j => stages[i] \cap stages[j] = {}
                   /\ {tag.n : tag \in UNION {stages[i] : i \in DOMAIN stages}} = 1 .. count[c]
    <2> DEFINE out == {t \in emitted : t.chan = c}
               stages == <<filtered[c], QueuedTags(c), pending[c], out>>
    <2>1. DOMAIN stages = {1, 2, 3, 4}
      OBVIOUS
    <2>2. /\ stages[1] = filtered[c] /\ stages[2] = QueuedTags(c)
          /\ stages[3] = pending[c] /\ stages[4] = out
      OBVIOUS
    <2>3. out \subseteq emitted
      OBVIOUS
    <2> HIDE DEF out
    <2>4. /\ filtered[c] \cap QueuedTags(c) = {} /\ filtered[c] \cap pending[c] = {}
          /\ filtered[c] \cap out = {} /\ QueuedTags(c) \cap pending[c] = {}
          /\ QueuedTags(c) \cap out = {} /\ pending[c] \cap out = {}
      BY <1>1, <2>3 DEF TagsOnceInv, Apart
    <2>5. UNION {stages[i] : i \in DOMAIN stages} = MadeBy(c)
      <3>1. UNION {stages[i] : i \in {1, 2, 3, 4}} = stages[1] \cup stages[2] \cup stages[3] \cup stages[4]
        OBVIOUS
      <3> QED BY <2>1, <2>2, <3>1 DEF MadeBy, out
    <2> HIDE DEF stages
    <2>6. \A i, j \in DOMAIN stages : i < j => stages[i] \cap stages[j] = {}
      BY <2>1, <2>2, <2>4
    <2>7. {tag.n : tag \in UNION {stages[i] : i \in DOMAIN stages}} = 1 .. count[c]
      BY <1>1, <2>5 DEF TagsOnceInv, Numbered
    <2> QED BY <2>6, <2>7 DEF stages, out
  <1>2. Exited => emitted = UNION ToSet(closed)
    <2> SUFFICES ASSUME Exited PROVE emitted = UNION ToSet(closed)
      OBVIOUS
    <2>1. rowQueue = <<>> /\ rows = <<>> /\ file.rows = <<>>
      BY DEF TagsOnceInv, WriterDrained
    <2>2. closed \in Seq(SUBSET Tags) /\ <<>> \in Seq(SUBSET Tags)
      BY DEF TagsOnceInv, TypeOK, WriterTypes
    <2>3. Stream = closed
      BY <2>1, <2>2, ConcatEmptySeq DEF Stream
    <2> QED BY <2>3 DEF TagsOnceInv, OnceInStream
  <1>3. OnceUntilEmitted
    BY <1>1 DEF OnceUntilEmitted
  <1> QED BY <1>2, <1>3 DEF EachTagOnce, TagsOnceInv

\* Steps of a claimer and of the merge thread but Emit leave the files alone.
LEMMA WritingUntouched ==
    ASSUME OnceInStream, WriterDrained,
           UNCHANGED <<emitted, rowQueue, writerVars>>
    PROVE  OnceInStream' /\ WriterDrained'
PROOF
  <1>1. Stream' = Stream
    BY DEF Stream, writerVars
  <1> QED BY <1>1 DEF OnceInStream, WriterDrained, writerVars, Exited

\* The parts of the stream.
LEMMA StreamParts ==
    ASSUME TypeOK
    PROVE  /\ closed \in Seq(SUBSET Tags) /\ file.rows \in Seq(SUBSET Tags)
           /\ rows \in Seq(SUBSET Tags) /\ rowQueue \in Seq(SUBSET Tags)
           /\ rows \o rowQueue \in Seq(SUBSET Tags)
           /\ file.rows \o (rows \o rowQueue) \in Seq(SUBSET Tags)
           /\ Stream \in Seq(SUBSET Tags)
PROOF
  <1>1. /\ closed \in Seq(SUBSET Tags) /\ file.rows \in Seq(SUBSET Tags)
        /\ rows \in Seq(SUBSET Tags) /\ rowQueue \in Seq(SUBSET Tags)
    BY DEF TypeOK, MergerTypes, WriterTypes
  <1>2. rows \o rowQueue \in Seq(SUBSET Tags)
    BY <1>1
  <1>3. file.rows \o (rows \o rowQueue) \in Seq(SUBSET Tags)
    BY <1>1, <1>2
  <1>4. Stream \in Seq(SUBSET Tags)
    BY <1>1, <1>3 DEF Stream
  <1> QED BY <1>1, <1>2, <1>3, <1>4

\* The first Vec of the channel becomes the last in the builders.
LEMMA Handed ==
    ASSUME NEW S, NEW a \in Seq(S), NEW q \in Seq(S), q # <<>>
    PROVE  Append(a, Head(q)) \o Tail(q) = a \o q
PROOF
  <1>1. Head(q) \in S /\ Tail(q) \in Seq(S) /\ <<Head(q)>> \in Seq(S)
    OBVIOUS
  <1>2. Append(a, Head(q)) = a \o <<Head(q)>>
    BY <1>1, AppendIsConcat
  <1>3. <<Head(q)>> \o Tail(q) = q
    OBVIOUS
  <1> QED BY <1>1, <1>2, <1>3, ConcatAssociative

\* Both ways to put what a batch brings behind what is there.
Regrouped(c, f, a, t) ==
    /\ (f \o a) \o t = f \o (a \o t)
    /\ (c \o (f \o a)) \o t = c \o (f \o (a \o t))

LEMMA Regroup ==
    ASSUME NEW S, NEW c \in Seq(S), NEW f \in Seq(S), NEW a \in Seq(S), NEW t \in Seq(S)
    PROVE  Regrouped(c, f, a, t)
PROOF
  <1>1. f \o a \in Seq(S)
    OBVIOUS
  <1>2. (f \o a) \o t = f \o (a \o t)
    BY ConcatAssociative
  <1>3. (c \o (f \o a)) \o t = c \o ((f \o a) \o t)
    BY <1>1, ConcatAssociative
  <1> QED BY <1>2, <1>3 DEF Regrouped

\* The writer takes rows from place to place and never out of their order: no
\* chunk and no rotation adds, drops or repeats one.
LEMMA StreamStays ==
    ASSUME TypeOK, TypeOK', WriterStep
    PROVE  Stream' = Stream
PROOF
  <1> DEFINE S == SUBSET Tags
             c == closed
             f == file.rows
             r == rows
             q == rowQueue
  <1>0. c \in Seq(S) /\ f \in Seq(S) /\ r \in Seq(S) /\ q \in Seq(S) /\ <<>> \in Seq(S)
    BY StreamParts
  <1>1. CASE WriteRows
    <2> DEFINE a == Append(r, Head(q))
               t == Tail(q)
    <2>1. q # <<>> /\ rowQueue' = t
      BY <1>1 DEF WriteRows
    <2>2. Head(q) \in S /\ t \in Seq(S) /\ a \in Seq(S)
      BY <1>0, <2>1
    <2>3. a \o t = r \o q
      BY <1>0, <2>1, Handed
    <2>4. (f \o a) \o t = f \o (a \o t) /\ (c \o (f \o a)) \o t = c \o (f \o (a \o t))
      <3>1. Regrouped(c, f, a, t)
        BY <1>0, <2>2, Regroup
      <3> QED BY <3>1 DEF Regrouped
    <2>5. PICK full \in BOOLEAN, rotate \in BOOLEAN : (rotate => full) /\ Writing(full, rotate)
      BY <1>1, RowsWritten
    <2>6. /\ rows' = IF full THEN <<>> ELSE a
          /\ file'.rows = IF rotate THEN <<>> ELSE IF full THEN f \o a ELSE f
          /\ closed' = IF rotate THEN c \o (f \o a) ELSE c
      BY <2>5 DEF Writing
    <2> HIDE DEF a, t, c, f, r, q
    <2>7. Stream' = closed' \o (file'.rows \o (rows' \o t)) /\ Stream = c \o (f \o (r \o q))
      BY <2>1 DEF Stream, c, f, r, q
    <2>8. CASE rotate
      <3>1. closed' = c \o (f \o a) /\ file'.rows = <<>> /\ rows' = <<>>
        BY <2>5, <2>6, <2>8
      <3>2. <<>> \o t = t
        BY <2>2, ConcatEmptySeq
      <3> QED BY <2>3, <2>4, <2>7, <3>1, <3>2
    <2>9. CASE full /\ ~ rotate
      <3>1. closed' = c /\ file'.rows = f \o a /\ rows' = <<>>
        BY <2>6, <2>9
      <3>2. <<>> \o t = t
        BY <2>2, ConcatEmptySeq
      <3> QED BY <2>3, <2>4, <2>7, <3>1, <3>2
    <2>10. CASE ~ full
      <3>1. closed' = c /\ file'.rows = f /\ rows' = a
        BY <2>5, <2>6, <2>10
      <3> QED BY <2>3, <2>7, <3>1
    <2> QED BY <2>8, <2>9, <2>10
  <1>2. CASE CloseFile
    <2>1. /\ q = <<>> /\ rowQueue' = <<>> /\ rows' = <<>> /\ file'.rows = <<>>
          /\ closed' = c \o (f \o r)
      BY <1>2 DEF CloseFile, Flushed, EmptyFile
    <2>2. f \o r \in Seq(S)
      BY <1>0
    <2> HIDE DEF c, f, r
    <2>3. c \o (f \o r) \in Seq(S)
      BY <1>0, <2>2
    <2>4. <<>> \o <<>> = <<>> /\ r \o <<>> = r /\ (c \o (f \o r)) \o <<>> = c \o (f \o r)
      BY <1>0, <2>3, ConcatEmptySeq
    <2> QED BY <2>1, <2>4 DEF Stream, c, f, r, q
  <1> QED BY <1>1, <1>2 DEF WriterStep

\* The tags of a click are numbered on from those there are.
LEMMA ClickKeepsOnce ==
    ASSUME TagsOnceInv, TypeOK', NEW c \in Channels, Click(c)
    PROVE  TagsOnceInv'
PROOF
  <1>0. TypeOK /\ OwnTags
    BY DEF TagsOnceInv
  <1>1. PICK time \in Times :
          \E dark \in {{}} \cup (IF DarkCounts THEN {{d} : d \in lastClick[c] .. time - 1} ELSE {}) :
             LET darkTags == {NewTag(c, 1, d) : d \in dark}
                 made     == 1 + Cardinality(dark)
             IN  /\ filtered' = [filtered EXCEPT
                       ![c] = @ \cup darkTags \cup {NewTag(c, made, time)}]
                 /\ count' = [count EXCEPT ![c] = @ + made]
    BY Zenon DEF Click
  <1> DEFINE S == lastClick[c] .. time - 1
  <1>2. PICK dark \in {{}} \cup {{d} : d \in S} :
          /\ filtered' = [filtered EXCEPT
                ![c] = @ \cup {NewTag(c, 1, d) : d \in dark}
                         \cup {NewTag(c, 1 + Cardinality(dark), time)}]
          /\ count' = [count EXCEPT ![c] = @ + (1 + Cardinality(dark))]
    BY <1>1
  <1>3. Cardinality(dark) = IF dark = {} THEN 0 ELSE 1
    BY <1>2, MadeType
  <1> DEFINE new == {NewTag(c, 1, d) : d \in dark} \cup {NewTag(c, 1 + Cardinality(dark), time)}
             made == 1 + Cardinality(dark)
  <1>4. made \in {1, 2} /\ count[c] \in Nat
    BY <1>0, <1>3 DEF TypeOK, ClaimerTypes
  <1>5. \A y \in new : y.chan = c /\ y.n \in count[c] + 1 .. count[c] + made
    BY <1>3, <1>4 DEF NewTag
  <1>6. {y.n : y \in new} = count[c] + 1 .. count[c] + made
    <2>1. CASE dark = {}
      <3>1. made = 1 /\ new = {NewTag(c, 1, time)}
        BY <1>3, <2>1
      <3>2. NewTag(c, 1, time).n = count[c] + 1
        BY DEF NewTag
      <3>3. count[c] + 1 .. count[c] + 1 = {count[c] + 1}
        BY <1>4
      <3> HIDE DEF new, made
      <3> QED BY <3>1, <3>2, <3>3
    <2>2. CASE dark # {}
      <3>1. PICK d : dark = {d}
        BY <1>2, <2>2
      <3>2. made = 2 /\ new = {NewTag(c, 1, d), NewTag(c, 2, time)}
        BY <1>3, <2>2, <3>1
      <3>3. NewTag(c, 1, d).n = count[c] + 1 /\ NewTag(c, 2, time).n = count[c] + 2
        BY DEF NewTag
      <3>4. count[c] + 1 .. count[c] + 2 = {count[c] + 1, count[c] + 2}
        BY <1>4
      <3> HIDE DEF new, made
      <3> QED BY <3>2, <3>3, <3>4
    <2> QED BY <2>1, <2>2
  <1>7. /\ filtered'[c] = filtered[c] \cup new /\ \A d \in Channels \ {c} : filtered'[d] = filtered[d]
        /\ count'[c] = count[c] + made /\ \A d \in Channels \ {c} : count'[d] = count[d]
    BY <1>0, <1>2 DEF TypeOK, ClaimerTypes
  <1>8. UNCHANGED <<queue, pending, emitted, rowQueue, writerVars>>
    BY DEF Click, mergerVars
  <1> HIDE DEF new, made
  <1>9. \A d \in Channels : QueuedTags(d)' = QueuedTags(d)
    BY <1>8 DEF QueuedTags
  <1>10. MadeBy(c)' = MadeBy(c) \cup new /\ \A d \in Channels \ {c} : MadeBy(d)' = MadeBy(d)
    BY <1>7, <1>8, <1>9 DEF MadeBy
  <1>11. new \cap (QueuedTags(c) \cup pending[c] \cup emitted) = {}
    <2>1. \A y \in MadeBy(c) : y.n \in 1 .. count[c]
      BY DEF TagsOnceInv, Numbered
    <2>2. \A y \in new : y \notin MadeBy(c)
      BY <1>4, <1>5, <2>1
    <2> QED BY <1>5, <2>2 DEF MadeBy
  <1>12. OwnTags'
    BY <1>0, <1>5, <1>7, <1>8, <1>9 DEF OwnTags
  <1>13. \A d \in Channels : Apart(d)'
    BY <1>7, <1>8, <1>9, <1>11 DEF TagsOnceInv, Apart
  <1>14. BatchesApart'
    BY <1>8 DEF TagsOnceInv, BatchesApart
  <1>15. Numbered'
    <2>1. {y.n : y \in MadeBy(c)'} = {y.n : y \in MadeBy(c)} \cup {y.n : y \in new}
      BY <1>10
    <2>2. (1 .. count[c]) \cup (count[c] + 1 .. count[c] + made) = 1 .. count[c] + made
      BY <1>4
    <2>3. {y.n : y \in MadeBy(c)'} = 1 .. count'[c]
      BY <1>6, <1>7, <2>1, <2>2 DEF TagsOnceInv, Numbered
    <2> QED BY <1>7, <1>10, <2>3 DEF TagsOnceInv, Numbered
  <1> QED
    BY <1>8, <1>12, <1>13, <1>14, <1>15, WritingUntouched DEF TagsOnceInv

LEMMA SendKeepsOnce ==
    ASSUME TagsOnceInv, TypeOK', NEW c \in Channels, SendTags(c)
    PROVE  TagsOnceInv'
PROOF
  <1>0. TypeOK /\ OwnTags
    BY DEF TagsOnceInv
  <1>1. OwnTags' /\ \A d \in Channels : MadeBy(d)' = MadeBy(d)
    BY <1>0, SendMoves DEF OwnTags, MadeBy
  <1>2. \A d \in Channels : Apart(d)'
    BY <1>0, SendMoves DEF TagsOnceInv, Apart
  <1>3. BatchesApart'
    <2> DEFINE n == Len(queue[c])
    <2>1. /\ n \in Nat /\ DOMAIN queue'[c] = 1 .. n + 1 /\ DOMAIN queue[c] = 1 .. n
          /\ \A i \in DOMAIN queue[c] : queue'[c][i] = queue[c][i]
          /\ queue'[c][n + 1] = [end |-> EndTime(c), tags |-> filtered[c]]
          /\ \A d \in Channels \ {c} : queue'[d] = queue[d]
      BY <1>0, AppendedBatch
    <2>2. Len(queue'[c]) = n + 1
      BY <1>0 DEF SendTags, TypeOK, ClaimerTypes
    <2>3. \A i \in 1 .. n : queue[c][i].tags \cap filtered[c] = {}
      BY DEF TagsOnceInv, Apart, QueuedTags
    <2>4. \A i, j \in 1 .. n : i # j => queue[c][i].tags \cap queue[c][j].tags = {}
      BY DEF TagsOnceInv, BatchesApart
    <2> HIDE DEF n
    <2>5. \A i \in 1 .. n + 1 : i \in 1 .. n \/ i = n + 1
      BY <2>1
    <2>6. \A i, j \in 1 .. n + 1 : i # j => queue'[c][i].tags \cap queue'[c][j].tags = {}
      <3>1. \A i \in 1 .. n : queue'[c][i].tags = queue[c][i].tags
        BY <2>1
      <3>2. queue'[c][n + 1].tags = filtered[c]
        BY <2>1
      <3> QED BY <2>3, <2>4, <2>5, <3>1, <3>2
    <2> QED BY <2>1, <2>2, <2>6 DEF TagsOnceInv, BatchesApart
  <1>4. Numbered'
    BY <1>0, <1>1, SendMoves DEF TagsOnceInv, Numbered
  <1>5. UNCHANGED <<emitted, rowQueue, writerVars>>
    BY DEF SendTags, mergerVars
  <1> QED BY <1>1, <1>2, <1>3, <1>4, <1>5, WritingUntouched DEF TagsOnceInv

LEMMA AbsorbKeepsOnce ==
    ASSUME TagsOnceInv, TypeOK', NEW c \in Channels, Absorb(c),
           UNCHANGED <<filtered, count, emitted, rowQueue, writerVars>>
    PROVE  TagsOnceInv'
PROOF
  <1>0. TypeOK /\ OwnTags
    BY DEF TagsOnceInv
  <1>1. OwnTags' /\ \A d \in Channels : MadeBy(d)' = MadeBy(d)
    BY <1>0, AbsorbMoves DEF OwnTags, MadeBy
  <1>2. queue[c] \in Seq(Batches) /\ queue[c] # <<>>
    BY <1>0 DEF Absorb, TypeOK, ClaimerTypes
  <1>3. queue'[c] = Tail(queue[c]) /\ \A d \in Channels \ {c} : queue'[d] = queue[d]
    BY <1>0 DEF Absorb, TypeOK, ClaimerTypes
  <1> DEFINE n == Len(queue[c])
  <1>4. /\ n \in Nat \ {0} /\ Len(queue'[c]) = n - 1 /\ Head(queue[c]) = queue[c][1]
        /\ \A i \in 1 .. n - 1 : queue'[c][i] = queue[c][i + 1]
    BY <1>2, <1>3
  <1>5. \A i, j \in 1 .. n : i # j => queue[c][i].tags \cap queue[c][j].tags = {}
    BY DEF TagsOnceInv, BatchesApart
  <1> HIDE DEF n
  <1>6. \A i \in 1 .. n - 1 : i + 1 \in 1 .. n /\ i + 1 # 1 /\ 1 \in 1 .. n
    BY <1>4
  <1>7. Head(queue[c]).tags \cap QueuedTags(c)' = {}
    <2>1. QueuedTags(c)' = UNION {queue'[c][i].tags : i \in 1 .. n - 1}
      BY <1>4 DEF QueuedTags
    <2>2. \A i \in 1 .. n - 1 : Head(queue[c]).tags \cap queue'[c][i].tags = {}
      BY <1>4, <1>5, <1>6
    <2> QED BY <2>1, <2>2
  <1>8. BatchesApart'
    <2>1. \A i, j \in 1 .. n - 1 : i # j => i + 1 # j + 1
      BY <1>4
    <2>2. \A i, j \in 1 .. n - 1 : i # j => queue'[c][i].tags \cap queue'[c][j].tags = {}
      BY <1>4, <1>5, <1>6, <2>1
    <2> QED BY <1>3, <1>4, <2>2 DEF TagsOnceInv, BatchesApart
  <1>9. \A d \in Channels : Apart(d)'
    BY <1>0, <1>7, AbsorbMoves DEF TagsOnceInv, Apart
  <1>10. Numbered'
    BY <1>1 DEF TagsOnceInv, Numbered
  <1> QED BY <1>1, <1>8, <1>9, <1>10, WritingUntouched DEF TagsOnceInv

\* What is emitted comes last in the stream.
LEMMA StreamGrows ==
    ASSUME TypeOK, NEW x \in SUBSET Tags, rowQueue' = Append(rowQueue, x),
           UNCHANGED <<closed, file, rows>>
    PROVE  Stream' = Append(Stream, x)
PROOF
  <1> DEFINE S == SUBSET Tags
             u == rows \o rowQueue
             v == file.rows \o u
  <1>1. /\ closed \in Seq(S) /\ file.rows \in Seq(S) /\ rows \in Seq(S) /\ rowQueue \in Seq(S)
        /\ u \in Seq(S) /\ v \in Seq(S) /\ closed \o v \in Seq(S) /\ <<x>> \in Seq(S)
    BY StreamParts DEF Stream
  <1>2. rowQueue' = rowQueue \o <<x>>
    BY <1>1, AppendIsConcat
  <1>3. rows \o rowQueue' = u \o <<x>>
    BY <1>1, <1>2, ConcatAssociative
  <1>4. Stream = closed \o v /\ Stream' = closed \o (file.rows \o (rows \o rowQueue'))
    BY DEF Stream
  <1>5. Append(Stream, x) = (closed \o v) \o <<x>>
    BY <1>1, <1>4, AppendIsConcat
  <1> HIDE DEF u
  <1>6. closed \o (file.rows \o (u \o <<x>>)) = (closed \o v) \o <<x>>
    <2>1. Regrouped(closed, file.rows, u, <<x>>)
      BY <1>1, Regroup
    <2> QED BY <2>1 DEF Regrouped
  <1> QED BY <1>3, <1>4, <1>5, <1>6

\* What is emitted leaves the buffers for the writer's queue.
LEMMA EmitKeepsOnce ==
    ASSUME TagsOnceInv, TypeOK', Emit, ~ Exited
    PROVE  TagsOnceInv'
PROOF
  <1>0. TypeOK /\ OwnTags
    BY DEF TagsOnceInv
  <1>1. /\ emitted' = emitted \cup FinalTags
        /\ pending' = [c \in Channels |-> pending[c] \ Final(c)]
        /\ UNCHANGED <<filtered, queue, count, writerVars>>
    BY DEF Emit, claimerVars
  <1>2. \A c \in Channels : QueuedTags(c)' = QueuedTags(c)
    BY <1>1 DEF QueuedTags
  <1>3. \A c \in Channels : Final(c) = {y \in FinalTags : y.chan = c} /\ Final(c) \subseteq pending[c]
    BY <1>0 DEF FinalTags, Final, OwnTags
  <1>4. OwnTags' /\ \A c \in Channels : MadeBy(c)' = MadeBy(c)
    BY <1>0, <1>1, <1>2, <1>3 DEF OwnTags, MadeBy
  <1>5. \A c \in Channels : Apart(c)'
    <2>1. \A c \in Channels : \A y \in FinalTags : y.chan = c => y \in Final(c)
      BY <1>3
    <2>2. \A c \in Channels : \A y \in filtered[c] \cup QueuedTags(c) \cup pending[c] : y.chan = c
      BY <1>0 DEF OwnTags
    <2> QED BY <1>1, <1>2, <1>3, <2>1, <2>2 DEF TagsOnceInv, Apart
  <1>6. BatchesApart' /\ Numbered'
    BY <1>1, <1>4 DEF TagsOnceInv, BatchesApart, Numbered
  <1>7. OnceInStream'
    <2>1. CASE FinalTags = {} /\ UNCHANGED rowQueue
      <3>1. emitted' = emitted /\ UNCHANGED <<emitted, rowQueue, writerVars>>
        BY <1>1, <2>1
      <3> QED BY <3>1, WritingUntouched DEF TagsOnceInv
    <2>2. CASE rowQueue' = Append(rowQueue, FinalTags)
      <3>1. FinalTags \in SUBSET Tags
        BY <1>0, <1>3 DEF TypeOK, MergerTypes, FinalTags, Final
      <3>2. Stream' = Append(Stream, FinalTags)
        BY <1>0, <1>1, <2>2, <3>1, StreamGrows DEF writerVars
      <3> DEFINE n == Len(Stream)
      <3>3. /\ n \in Nat /\ DOMAIN Stream = 1 .. n /\ DOMAIN Stream' = 1 .. n + 1
            /\ Stream'[n + 1] = FinalTags /\ \A i \in 1 .. n : Stream'[i] = Stream[i]
        BY <1>0, <3>1, <3>2, StreamParts
      <3>4. \A i \in 1 .. n : Stream[i] \subseteq emitted
        BY <3>3 DEF TagsOnceInv, OnceInStream, ToSet
      <3>5. FinalTags \cap emitted = {}
        BY <1>3 DEF FinalTags, TagsOnceInv, Apart
      <3>6. \A i, j \in 1 .. n : i # j => Stream[i] \cap Stream[j] = {}
        BY <3>3 DEF TagsOnceInv, OnceInStream
      <3>7. emitted = UNION {Stream[i] : i \in 1 .. n}
        BY <3>3 DEF TagsOnceInv, OnceInStream, ToSet
      <3> HIDE DEF n
      <3>8. \A i \in 1 .. n + 1 : i \in 1 .. n \/ i = n + 1
        BY <3>3
      <3>9. n + 1 \in 1 .. n + 1 /\ \A i \in 1 .. n : i \in 1 .. n + 1
        BY <3>3
      <3>10. \A i, j \in 1 .. n + 1 : i # j => Stream'[i] \cap Stream'[j] = {}
        BY <3>3, <3>4, <3>5, <3>6, <3>8
      <3>11. emitted' = UNION {Stream'[i] : i \in 1 .. n + 1}
        BY <1>1, <3>3, <3>7, <3>8, <3>9
      <3> QED BY <3>3, <3>10, <3>11 DEF OnceInStream, ToSet
    <2> QED BY <2>1, <2>2 DEF Emit
  <1>8. WriterDrained'
    BY <1>1 DEF WriterDrained, Exited, writerVars
  <1> QED BY <1>4, <1>5, <1>6, <1>7, <1>8 DEF TagsOnceInv

LEMMA WriterKeepsOnce ==
    ASSUME TagsOnceInv, TypeOK', WriterStep, ~ Exited
    PROVE  TagsOnceInv'
PROOF
  <1>0. TypeOK
    BY DEF TagsOnceInv
  <1>1. UNCHANGED <<filtered, count, queue, pending, emitted>>
    BY DEF WriterStep, WriteRows, CloseFile, claimerVars, mergerVars
  <1>2. /\ OwnTags' /\ (\A c \in Channels : Apart(c)') /\ BatchesApart' /\ Numbered'
    BY <1>1 DEF TagsOnceInv, OwnTags, Apart, BatchesApart, Numbered, MadeBy, QueuedTags
  <1>3. OnceInStream'
    <2>1. Stream' = Stream
      BY <1>0, StreamStays
    <2> QED BY <1>1, <2>1 DEF TagsOnceInv, OnceInStream
  <1>4. WriterDrained'
    <2>1. CASE WriteRows
      BY <2>1 DEF WriteRows, WriterDrained, Exited
    <2>2. CASE CloseFile
      BY <2>2 DEF CloseFile, EmptyFile, WriterDrained
    <2> QED BY <2>1, <2>2 DEF WriterStep
  <1> QED BY <1>2, <1>3, <1>4 DEF TagsOnceInv

LEMMA TagsOnceStep ==
    ASSUME TagsOnceInv, TypeOK', [Next]_vars
    PROVE  TagsOnceInv'
PROOF
  <1>1. CASE ~ Exited /\ \E c \in Channels : Click(c)
    BY <1>1, ClickKeepsOnce
  <1>2. CASE ~ Exited /\ \E c \in Channels : SendTags(c)
    BY <1>2, SendKeepsOnce
  <1>3. CASE ~ Exited /\ (AbsorbLaggard \/ DrainBatch)
    <2>1. PICK c \in Channels : Absorb(c)
      BY <1>3 DEF AbsorbLaggard, DrainBatch
    <2>2. UNCHANGED <<filtered, count, emitted, rowQueue, writerVars>>
      BY <1>3 DEF AbsorbLaggard, DrainBatch, claimerVars
    <2> QED BY <2>1, <2>2, AbsorbKeepsOnce
  <1>4. CASE ~ Exited /\ Emit
    BY <1>4, EmitKeepsOnce
  <1>5. CASE ~ Exited /\ WriterStep
    BY <1>5, WriterKeepsOnce
  <1>6. CASE UNCHANGED <<filtered, count, queue, pending, emitted, rowQueue, writerVars>>
    <2>1. OwnTags' /\ (\A c \in Channels : Apart(c)') /\ BatchesApart' /\ Numbered'
      BY <1>6 DEF TagsOnceInv, OwnTags, Apart, BatchesApart, Numbered, MadeBy, QueuedTags
    <2> QED BY <1>6, <2>1, WritingUntouched DEF TagsOnceInv
  <1> QED
    BY <1>1, <1>2, <1>3, <1>4, <1>5, <1>6
    DEF Next, ClaimerStep, MergerStep, Receive, EndOfClicks, TargetClosed, Control,
        LaggardTimeout, DrainNext, SendStop, vars, claimerVars, mergerVars

LEMMA InitTagsOnce ==
    ASSUME Init
    PROVE  TagsOnceInv
PROOF
  <1>1. TypeOK
    BY InitType
  <1>2. \A c \in Channels : QueuedTags(c) = {} /\ MadeBy(c) = {} /\ Len(queue[c]) = 0
    BY DEF Init, QueuedTags, MadeBy
  <1>3. OwnTags /\ (\A c \in Channels : Apart(c)) /\ BatchesApart
    BY <1>2 DEF Init, OwnTags, Apart, BatchesApart
  <1>4. Numbered
    <2>1. \A c \in Channels : count[c] = 0 /\ 1 .. 0 = {}
      BY DEF Init
    <2> QED BY <1>2, <2>1 DEF Numbered
  <1>5. Stream = <<>>
    <2>1. <<>> \in Seq(SUBSET Tags)
      OBVIOUS
    <2>2. <<>> \o <<>> = <<>>
      BY <2>1, ConcatEmptySeq
    <2> QED BY <2>2 DEF Init, Stream, EmptyFile
  <1>6. DOMAIN Stream = {}
    BY <1>5
  <1>7. OnceInStream /\ WriterDrained
    BY <1>6 DEF Init, OnceInStream, WriterDrained, ToSet, Exited
  <1> QED BY <1>1, <1>3, <1>4, <1>7 DEF TagsOnceInv

\* However batches, buffers and files are interleaved, every tag of a detector
\* is at exactly one stage of its way and the numbers have no gap; the rows that
\* left the merge thread stand in the channel, the builders, the current file
\* and the finished ones exactly once, over full chunks and rotations; and when
\* the process exits all of them are in finished files (parquet/core.rs).
THEOREM TagsOnceCorrect == Spec => []EachTagOnce
PROOF
  <1>1. Init => TagsOnceInv
    BY InitTagsOnce
  <1>2. TagsOnceInv /\ [Next]_vars /\ TypeOK' => TagsOnceInv'
    BY TagsOnceStep
  <1>3. TagsOnceInv => EachTagOnce
    BY OnceImplied
  <1> QED BY <1>1, <1>2, <1>3, TypeCorrect, PTL DEF Spec
=============================================================================
