--------------------------- MODULE TimeTagPipeline ---------------------------
(***************************************************************************)
(* From a detector's clicks to rows in Parquet files: the classical        *)
(* detector model in each claimer thread (nodes/spd.rs), the merge thread  *)
(* and the writer thread (parquet/core.rs).                                *)
(***************************************************************************)
EXTENDS Integers, Sequences, FiniteSets, SequencesExt

CONSTANTS
    ChannelCount,   \* channels added before start, numbered in that order
    DeadTime,
    DarkCounts,     \* TRUE iff the dark count rate is not zero
    EarlyBy,        \* how far a click may precede the start of its batch
    LateBy,         \* how far a click may follow the end of its batch
    TagQueueSize,   \* sync_channel(16) from a claimer to the merge thread
    RowQueueSize,   \* sync_channel(64) from the merge thread to the writer
    MaxChunkRows, MaxFileRows,
    MaxTime, MaxTags    \* bounds: simulated time, and tags of one channel

Channels == 1 .. ChannelCount
Times    == 0 .. MaxTime

ASSUME PipelineAssumption ==
    /\ ChannelCount \in Nat \ {0}
    /\ DeadTime \in Nat /\ EarlyBy \in Nat /\ LateBy \in Nat
    /\ DarkCounts \in BOOLEAN
    /\ TagQueueSize \in Nat \ {0} /\ RowQueueSize \in Nat \ {0}
    /\ MaxChunkRows \in Nat \ {0} /\ MaxFileRows \in Nat \ {0}
    /\ MaxTime \in Nat /\ MaxTags \in Nat

\* A tag is told from another of the same time by its number on its channel.
Tags == [chan : Channels, n : 1 .. MaxTags, time : Times]

VARIABLES
    claimer,        \* each claimer thread: "recv", "click", "send" or "halted"
    from, until,    \* start_time and end_time of the claimer's current batch
    lastClick,      \* last_click
    filtered,       \* filtered_result
    count,          \* tags made so far on each channel
    queue,          \* TimeTagBatches on their way to the merge thread
    merger,         \* merge thread: "control", "laggard", "drain", "emit", "stopped"
    scan,           \* the channel the drain loop is at
    pending, frontier,  \* ChannelBuffer
    stopSent,       \* ParquetWorkerEvent::Stop sent
    emitted,        \* history: every tag the merge thread sent to the writer
    rowQueue,       \* Vec<NormalizedTimeTag>s on their way to the writer
    writer,         \* "running" or "done"
    rows,           \* what the array builders hold, the Vecs in their order
    file,           \* what is written to the current file, and in how many chunks
    closed          \* what the files with a footer hold, one after the other

claimerVars == <<claimer, from, until, lastClick, filtered, count>>
mergerVars  == <<merger, scan, pending, frontier, emitted>>
writerVars  == <<writer, rows, file, closed>>
vars        == <<claimerVars, queue, mergerVars, stopSent, rowQueue, writerVars>>

EmptyFile == [rows |-> <<>>, chunks |-> 0]

Init ==
    /\ claimer = [c \in Channels |-> "recv"]
    /\ from = [c \in Channels |-> 0]
    /\ until = [c \in Channels |-> 0]
    /\ lastClick = [c \in Channels |-> 0]
    /\ filtered = [c \in Channels |-> {}]
    /\ count = [c \in Channels |-> 0]
    /\ queue = [c \in Channels |-> <<>>]
    /\ merger = "control"
    /\ scan = 1
    /\ pending = [c \in Channels |-> {}]
    /\ frontier = [c \in Channels |-> 0]
    /\ stopSent = FALSE
    /\ emitted = {}
    /\ rowQueue = <<>>
    /\ writer = "running"
    /\ rows = <<>>
    /\ file = EmptyFile
    /\ closed = <<>>

-----------------------------------------------------------------------------
(* The claimer loop *)

\* A batch of claimed packets: it starts where the last one ended.
Receive(c) ==
    /\ claimer[c] = "recv"
    /\ \E end \in until[c] .. MaxTime : until' = [until EXCEPT ![c] = end]
    /\ from' = [from EXCEPT ![c] = until[c]]
    /\ claimer' = [claimer EXCEPT ![c] = "click"]
    /\ UNCHANGED <<lastClick, filtered, count, queue, mergerVars, stopSent, rowQueue, writerVars>>

NewTag(c, k, time) == [chan |-> c, n |-> count[c] + k, time |-> time]

SurvivesEarly(c, time) == lastClick[c] + DeadTime <= time + 1      \* mutant

\* `if last_click + dead_time > *time { continue; }`
Survives(c, time) == lastClick[c] + DeadTime <= time

\* A click that survives the efficiency coin and the dead time is accepted;
\* before it, a dark count may be put anywhere since the last click.  A click
\* that does not survive changes nothing.  That the claimed clicks are sorted
\* needs no variable: none that survives is earlier than the last.
Click(c) ==
    /\ claimer[c] = "click"
    /\ \E time \in Times :
         /\ from[c] - EarlyBy <= time /\ time <= until[c] + LateBy
         /\ Survives(c, time)
         /\ \E dark \in {{}} \cup (IF DarkCounts THEN {{d} : d \in lastClick[c] .. time - 1} ELSE {}) :
              LET darkTags == {NewTag(c, 1, d) : d \in dark}
                  made     == 1 + Cardinality(dark)
              IN  /\ count[c] + made <= MaxTags
                  /\ filtered' = [filtered EXCEPT
                        ![c] = @ \cup darkTags \cup {NewTag(c, made, time)}]
                  /\ count' = [count EXCEPT ![c] = @ + made]
         /\ lastClick' = [lastClick EXCEPT ![c] = time]
    /\ UNCHANGED <<claimer, from, until, queue, mergerVars, stopSent, rowQueue, writerVars>>

EndOfClicks(c) ==
    /\ claimer[c] = "click"
    /\ claimer' = [claimer EXCEPT ![c] = "send"]
    /\ from' = [from EXCEPT ![c] = 0]      \* dead until the next batch
    /\ UNCHANGED <<until, lastClick, filtered, count, queue, mergerVars,
                   stopSent, rowQueue, writerVars>>

\* batch.end_time.max(last of filtered_result): the last tag pushed is the
\* last click.
EndTime(c) ==
    IF filtered[c] # {} /\ lastClick[c] > until[c] THEN lastClick[c] ELSE until[c]

\* tagger_channel.send, also of an empty batch; blocks while the queue is full.
SendTags(c) ==
    /\ claimer[c] = "send"
    /\ merger # "stopped"
    /\ Len(queue[c]) < TagQueueSize
    /\ queue' = [queue EXCEPT ![c] = Append(@, [end |-> EndTime(c), tags |-> filtered[c]])]
    /\ filtered' = [filtered EXCEPT ![c] = {}]
    /\ claimer' = [claimer EXCEPT ![c] = "recv"]
    /\ UNCHANGED <<from, until, lastClick, count, mergerVars, stopSent, rowQueue, writerVars>>

\* The receiver is gone: the claimer returns.
TargetClosed(c) ==
    /\ claimer[c] = "send"
    /\ merger = "stopped"
    /\ claimer' = [claimer EXCEPT ![c] = "halted"]
    /\ UNCHANGED <<from, until, lastClick, filtered, count, queue, mergerVars,
                   stopSent, rowQueue, writerVars>>

-----------------------------------------------------------------------------
(* ParquetWorker::run, after Start *)

\* The SIGINT handler: ParquetHandle::stop.
SendStop ==
    /\ ~ stopSent
    /\ stopSent' = TRUE
    /\ UNCHANGED <<claimerVars, queue, mergerVars, rowQueue, writerVars>>

Control ==
    /\ merger = "control"
    /\ merger' = IF stopSent THEN "stopped" ELSE "laggard"
    /\ UNCHANGED <<claimerVars, queue, scan, pending, frontier, emitted, stopSent,
                   rowQueue, writerVars>>

\* youngest_channel
IsLaggard(c) ==
    /\ \A d \in Channels : frontier[c] <= frontier[d]
    /\ \A d \in 1 .. c - 1 : frontier[c] < frontier[d]

\* ChannelBuffer::absorb
Absorb(c) ==
    /\ queue[c] # <<>>
    /\ queue' = [queue EXCEPT ![c] = Tail(@)]
    /\ pending' = [pending EXCEPT ![c] = @ \cup Head(queue[c]).tags]
    /\ frontier' = [frontier EXCEPT ![c] = Head(queue[c]).end]

SkipDrain  == merger' = "emit" /\ scan' = 1    \* mutant

BeginDrain == merger' = "drain" /\ scan' = 1

AbsorbLaggard ==
    /\ merger = "laggard"
    /\ \E c \in Channels : IsLaggard(c) /\ Absorb(c)
    /\ BeginDrain
    /\ UNCHANGED <<claimerVars, emitted, stopSent, rowQueue, writerVars>>

LaggardTimeout ==
    /\ merger = "laggard"
    /\ \E c \in Channels : IsLaggard(c) /\ queue[c] = <<>>
    /\ BeginDrain
    /\ UNCHANGED <<claimerVars, queue, pending, frontier, emitted, stopSent, rowQueue, writerVars>>

DrainBatch ==
    /\ merger = "drain"
    /\ scan \in Channels
    /\ Absorb(scan)
    /\ UNCHANGED <<claimerVars, merger, scan, emitted, stopSent, rowQueue, writerVars>>

ScanPast == scan > ChannelCount                 \* mutant

LastChannel == scan = ChannelCount

\* The channel is empty: on to the next, and after the last to the emission.
DrainNext ==
    /\ merger = "drain"
    /\ scan \in Channels
    /\ queue[scan] = <<>>
    /\ IF LastChannel
       THEN merger' = "emit" /\ scan' = 1
       ELSE scan' = scan + 1 /\ UNCHANGED merger
    /\ UNCHANGED <<claimerVars, queue, pending, frontier, emitted, stopSent, rowQueue, writerVars>>

FinalForOne(c) == {tag \in pending[c] : tag.time <= frontier[c]}    \* mutant

\* Tags no channel can precede any more, given the frontiers.
Final(c) == {tag \in pending[c] : \A d \in Channels : tag.time <= frontier[d]}
FinalTags == UNION {Final(c) : c \in Channels}

Emit ==
    /\ merger = "emit"
    /\ merger' = "control"
    /\ pending' = [c \in Channels |-> pending[c] \ Final(c)]
    /\ \/ FinalTags = {} /\ UNCHANGED rowQueue
       \/ /\ FinalTags # {}
          /\ Len(rowQueue) < RowQueueSize
          /\ rowQueue' = Append(rowQueue, FinalTags)
    /\ emitted' = emitted \cup FinalTags
    /\ UNCHANGED <<claimerVars, queue, scan, frontier, stopSent, writerVars>>

-----------------------------------------------------------------------------
(* TimeTagStreamParquetWriter::write *)

\* array_length: the rows of these Vecs.
Length(vecs) == Cardinality(UNION ToSet(vecs))

\* Mutant: finish_cloned(), which leaves the rows in the builders.
Cloned(vecs) == vecs

\* finish() hands the rows out and empties the builders.
Finished(vecs) == <<>>

\* Mutant: the next file starts with what the last one held.
Reopened(written) == [rows |-> written, chunks |-> 0]

NextFile(written) == EmptyFile

\* One iteration: collect the rows, write a full chunk, rotate a full file.
WriteRows ==
    LET collected == Append(rows, Head(rowQueue))
        full      == Length(collected) >= MaxChunkRows
        chunks    == file.chunks + 1
        inFile    == file.rows \o collected
        rotate    == full /\ chunks > MaxFileRows \div MaxChunkRows
    IN  /\ writer = "running"
        /\ rowQueue # <<>>
        /\ rowQueue' = Tail(rowQueue)
        /\ rows' = IF full THEN Finished(collected) ELSE collected
        /\ file' = IF rotate THEN NextFile(inFile)
                   ELSE IF full THEN [rows |-> inFile, chunks |-> chunks]
                   ELSE file
        /\ closed' = IF rotate THEN closed \o inFile ELSE closed
        /\ UNCHANGED <<claimerVars, queue, mergerVars, stopSent, writer>>

Unflushed == file.rows                          \* mutant

Flushed == file.rows \o rows

\* The sender is gone and the queue is empty: write what is left, close.
CloseFile ==
    /\ writer = "running"
    /\ merger = "stopped"
    /\ rowQueue = <<>>
    /\ writer' = "done"
    /\ closed' = closed \o Flushed
    /\ rows' = <<>>
    /\ file' = EmptyFile
    /\ UNCHANGED <<claimerVars, queue, mergerVars, stopSent, rowQueue>>

-----------------------------------------------------------------------------
ClaimerStep(c) == Receive(c) \/ Click(c) \/ EndOfClicks(c) \/ SendTags(c) \/ TargetClosed(c)
MergerStep     == Control \/ AbsorbLaggard \/ LaggardTimeout \/ DrainBatch \/ DrainNext \/ Emit
WriterStep     == WriteRows \/ CloseFile

\* After stop() has joined both threads the process exits.
Exited == writer = "done"

Next ==
    \/ \E c \in Channels : ~ Exited /\ ClaimerStep(c)
    \/ ~ Exited /\ (MergerStep \/ SendStop \/ WriterStep)
    \/ Exited /\ UNCHANGED vars

Spec == Init /\ [][Next]_vars

\* The three kinds of threads are scheduled; nothing says that a detector
\* gets another batch, that it clicks, or that anybody presses Ctrl-C.  The
\* strong fairness says that a claimer does not refill its queue before the
\* next try_recv each and every time: making a batch takes a simulation step
\* of every node before it, a try_recv does not.
FairSpec ==
    /\ Spec
    /\ \A c \in Channels : WF_vars(~ Exited /\ (EndOfClicks(c) \/ SendTags(c) \/ TargetClosed(c)))
    /\ WF_vars(~ Exited /\ MergerStep)
    /\ SF_vars(~ Exited /\ DrainNext)
    /\ WF_vars(~ Exited /\ WriterStep)

-----------------------------------------------------------------------------
(* Properties *)

Batches == [end : Times, tags : SUBSET Tags]

ClaimerTypes ==
    /\ claimer \in [Channels -> {"recv", "click", "send", "halted"}]
    /\ from \in [Channels -> Times] /\ until \in [Channels -> Times]
    /\ lastClick \in [Channels -> Times]
    /\ filtered \in [Channels -> SUBSET Tags]
    /\ count \in [Channels -> 0 .. MaxTags]
    /\ queue \in [Channels -> Seq(Batches)]

MergerTypes ==
    /\ merger \in {"control", "laggard", "drain", "emit", "stopped"}
    /\ scan \in Channels
    /\ pending \in [Channels -> SUBSET Tags]
    /\ frontier \in [Channels -> Times]
    /\ stopSent \in BOOLEAN
    /\ emitted \subseteq Tags
    /\ rowQueue \in Seq(SUBSET Tags)

WriterTypes ==
    /\ writer \in {"running", "done"}
    /\ rows \in Seq(SUBSET Tags)
    /\ file \in [rows : Seq(SUBSET Tags), chunks : Nat]
    /\ closed \in Seq(SUBSET Tags)

\* Every variable keeps its type.
TypeOK == ClaimerTypes /\ MergerTypes /\ WriterTypes

\* The row order is non-decreasing across the whole stream: what the merge
\* thread emits is never earlier than anything it emitted before, although
\* batches of different channels come in any order, frontiers may fall back
\* and a click may lie beyond the end of its batch.
StreamSorted ==
    [][\A new \in emitted' \ emitted, old \in emitted : old.time <= new.time]_vars

QueuedTags(c) == UNION {queue[c][i].tags : i \in 1 .. Len(queue[c])}

\* Every Vec the merge thread has sent, in the order of the rows: in a finished
\* file, in the current one, in the builders, in the channel.
Stream == closed \o (file.rows \o (rows \o rowQueue))

\* Every tag of channel c that exists, wherever it is.
MadeBy(c) ==
    filtered[c] \cup QueuedTags(c) \cup pending[c] \cup {tag \in emitted : tag.chan = c}

\* Accepted clicks of one detector keep the dead time between them, also over
\* a batch boundary.
DeadTimeKept ==
    \A c \in Channels : \A a, b \in MadeBy(c) : a.n < b.n => a.time + DeadTime <= b.time

\* Until it is emitted a tag is at exactly one stage of its way, and the
\* numbers of the tags have no gap.
OnceUntilEmitted ==
    \A c \in Channels :
      LET stages == <<filtered[c], QueuedTags(c), pending[c], {t \in emitted : t.chan = c}>>
      IN  /\ \A i, j \in DOMAIN stages : i < j => stages[i] \cap stages[j] = {}
          /\ {tag.n : tag \in UNION {stages[i] : i \in DOMAIN stages}} = 1 .. count[c]

\* From there on its row is in exactly one place, be it the channel, the
\* builders, the current file or a file that has its footer.
OnceInStream ==
    LET vecs == Stream
    IN  /\ \A i, j \in DOMAIN vecs : i # j => vecs[i] \cap vecs[j] = {}
        /\ emitted = UNION ToSet(vecs)

\* Until the process is stopped no tag is lost or duplicated on its way
\* through the channels, the buffers and the files, over full chunks and
\* rotations, and what the merge thread emitted is in a finished file when the
\* process exits (parquet/core.rs:130-165, 255-304).
EachTagOnce ==
    /\ OnceUntilEmitted
    /\ OnceInStream
    /\ Exited => emitted = UNION ToSet(closed)

\* A claimer blocked on a full queue is let on, whatever the other channels
\* do: the merge thread drains them all, not only the one it waits for.
ClaimersNotBlocked ==
    \A c \in Channels : claimer[c] = "send" ~> claimer[c] # "send" \/ Exited

-----------------------------------------------------------------------------
(* What documents say of the program *)

\* "On SIGINT, Fresnel flushes the tag pipeline, writes the Parquet footer,
\* and exits": no tag the merge thread had received is missing.
StopFlushes == Exited => \A c \in Channels : pending[c] = {}
=============================================================================
