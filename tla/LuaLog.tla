------------------------------- MODULE LuaLog -------------------------------
(* The asynchronous logger of lualib-src/lua-log.c: the log service's thread *)
(* appends lines to the current buffer under a mutex, a worker thread swaps  *)
(* the filled buffers out every few seconds, writes them and rolls the file. *)
(*                                                                           *)
(* A line is its number: made counts the lines ever appended.  A buffer is   *)
(* its lines and the bytes used.  A list of buffers is what can be reached   *)
(* from its head along ->next ("chain"), its tail and the size it claims.    *)
(* Every critical section is one action.  malloc does not fail.  A step that *)
(* names a file reads the clock once.                                        *)
EXTENDS Naturals, Sequences, FiniteSets

CONSTANTS
  Buffers,      \* the buffers malloc can hand out
  NULL,         \* the null pointer
  BufferSize,   \* LOG_BUFFER_SIZE
  Lengths,      \* the lengths a line can have; LOG_MAX is far below the buffer
  NoticeLength, \* the length of the line about dropped buffers
  MaxBatch,     \* the buffers written at once before the rest is dropped (25)
  RollSize,     \* inst.rollsize
  OpenOutcomes, \* what fopen may do: TRUE it opens the file, FALSE it fails
  LogLevel,     \* inst.loglevel
  MaxLines,     \* bound: lines ever appended
  LastDay       \* bound: the days that pass

ASSUME LogAssumption ==
  /\ BufferSize \in Nat
  /\ Lengths \subseteq 1..(BufferSize - 1)
  /\ NoticeLength \in 1..(BufferSize - 1)
  /\ MaxBatch \in Nat /\ MaxBatch >= 2
  /\ RollSize \in Nat \ {0}
  /\ OpenOutcomes \in (SUBSET BOOLEAN) \ {{}}
  /\ LogLevel \in Nat /\ MaxLines \in Nat /\ LastDay \in Nat \ {0}
  /\ NULL \notin Buffers

(* enum logger_level.                                                        *)
Level == [DEBUG |-> 0, INFO |-> 1, WARNING |-> 2, ERROR |-> 3, FATAL |-> 4]

VARIABLES
  mem,       \* Buffers -> the lines and the bytes a buffer holds
  live,      \* the buffers that are allocated
  curr,      \* inst.curr_buffer
  nextb,     \* inst.next_buffer
  list,      \* inst.buffers
  running,   \* inst.running
  front,     \* what the log service is doing
  made,      \* how many lines were appended
  pc,        \* where the worker is
  new1,      \* its new_buffer1
  new2,      \* its new_buffer2
  batch,     \* its buffers_to_write
  node,      \* the position in batch of the buffer it writes next
  today,     \* the calendar
  rollday,   \* inst.roll_mday
  handle,    \* inst.handle: a file, Stdout, or NULL before the first one
  written,   \* inst.written_bytes
  files,     \* the bytes in each file
  out,       \* the lines written, in order
  dropped    \* the lines the worker threw away

shared == <<mem, live, curr, nextb, list>>
disk == <<rollday, handle, written, files>>
vars == <<mem, live, curr, nextb, list, running, front, made, pc, new1, new2,
          batch, node, today, rollday, handle, written, files, out, dropped>>

Empty == [lines |-> <<>>, size |-> 0]
NoList == [chain |-> <<>>, tail |-> NULL, size |-> 0]

(* A log file is its day and index; standard output has a name of its own.   *)
Files == (1..LastDay) \X (0..1)
Stdout == <<0, 0>>

Lines(b) == {mem[b].lines[i] : i \in DOMAIN mem[b].lines}
Elems(s) == {s[i] : i \in DOMAIN s}

(* The buffer calloc returns.                                                *)
Fresh == CHOOSE b \in Buffers : b \notin live
CanAlloc == Buffers \ live # {}

-----------------------------------------------------------------------------
(* Init is linit: the two front-end buffers exist and the thread is started. *)
Init ==
  \E b1, b2 \in Buffers :
    /\ b1 # b2
    /\ b1 = (CHOOSE b \in Buffers : TRUE)
    /\ b2 = (CHOOSE b \in Buffers : b # b1)
    /\ mem = [b \in Buffers |-> Empty]
    /\ live = {b1, b2}
    /\ curr = b1 /\ nextb = b2 /\ list = NoList
    /\ running = TRUE /\ front = "open" /\ made = 0
    /\ pc = "start" /\ new1 = NULL /\ new2 = NULL
    /\ batch = NoList /\ node = 0
    /\ today = 1 /\ rollday = 0 /\ handle = NULL /\ written = 0
    /\ files = [f \in Files |-> 0]
    /\ out = <<>> /\ dropped = {}

(* Line number n, len bytes long, is stored at the end of buffer b.          *)
Put(m, b, n, len) ==
  [m EXCEPT ![b] = [lines |-> Append(@.lines, n), size |-> @.size + len]]

(* mutant: tail stays where it was                                           *)
PushTailKept ==
  [chain |-> (IF list.chain = <<>> THEN <<curr>> ELSE list.chain),
   tail |-> (IF list.chain = <<>> THEN curr ELSE list.tail),
   size |-> list.size + 1]

(* The current buffer is put into the list; its chain already ends with it.  *)
Push ==
  [chain |-> (IF list.chain = <<>> THEN <<curr>> ELSE list.chain),
   tail |-> curr, size |-> list.size + 1]

(* mutant: the spare buffer is not linked behind the full one                *)
AppendUnlinked(n, len) ==
  \/ /\ mem[curr].size + len < BufferSize
     /\ mem' = Put(mem, curr, n, len)
     /\ UNCHANGED <<live, curr, nextb, list>>
  \/ /\ mem[curr].size + len >= BufferSize
     /\ nextb # NULL
     /\ list' = Push
     /\ curr' = nextb
     /\ nextb' = NULL
     /\ mem' = Put(mem, nextb, n, len)
     /\ UNCHANGED live

(* append(): a full current buffer goes to the list, the spare one or a new  *)
(* one takes its place and is linked behind it before it is listed itself.   *)
AppendLine(n, len) ==
  \/ /\ mem[curr].size + len < BufferSize
     /\ mem' = Put(mem, curr, n, len)
     /\ UNCHANGED <<live, curr, nextb, list>>
  \/ /\ mem[curr].size + len >= BufferSize
     /\ nextb # NULL
     /\ list' = [Push EXCEPT !.chain = Append(@, nextb)]
     /\ curr' = nextb
     /\ nextb' = NULL
     /\ mem' = Put(mem, nextb, n, len)
     /\ UNCHANGED live
  \/ /\ mem[curr].size + len >= BufferSize
     /\ nextb = NULL
     /\ CanAlloc
     /\ list' = [Push EXCEPT !.chain = Append(@, Fresh)]
     /\ curr' = Fresh
     /\ live' = live \cup {Fresh}
     /\ mem' = Put([mem EXCEPT ![Fresh] = Empty], Fresh, n, len)
     /\ UNCHANGED nextb

(* ldebug, linfo, lwarning and lerror; the first two look at the level.      *)
Accepts(level) == level \in {"DEBUG", "INFO"} => LogLevel <= Level[level]

Log ==
  \E level \in DOMAIN Level \ {"FATAL"}, len \in Lengths :
    /\ front = "open" /\ made < MaxLines
    /\ Accepts(level)
    /\ made' = made + 1
    /\ AppendLine(made', len)
    /\ UNCHANGED <<running, front, pc, new1, new2, batch, node, today,
                   rollday, handle, written, files, out, dropped>>

(* lfatal: the line is appended, then log_exit, then abort.                  *)
Fatal ==
  \E len \in Lengths :
    /\ front = "open" /\ made < MaxLines
    /\ made' = made + 1
    /\ AppendLine(made', len)
    /\ front' = "fatal"
    /\ UNCHANGED <<running, pc, new1, new2, batch, node, today, rollday,
                   handle, written, files, out, dropped>>

(* log_exit up to pthread_join: neither the mutex nor the condition is used. *)
Exit ==
  /\ front \in {"open", "fatal"}
  /\ running' = FALSE
  /\ front' = "joining"
  /\ UNCHANGED <<shared, made, pc, new1, new2, batch, node, today, disk, out,
                 dropped>>

(* log_exit once the worker has returned: the handle is closed.              *)
Joined ==
  /\ front = "joining" /\ pc = "done"
  /\ front' = "closed"
  /\ UNCHANGED <<shared, running, made, pc, new1, new2, batch, node, today,
                 disk, out, dropped>>

-----------------------------------------------------------------------------
(* mutant: the index is counted before the name is made                      *)
RollFileNextIndex ==
  IF handle = Stdout
  THEN UNCHANGED <<rollday, handle, written>>
  ELSE /\ handle' = <<today, IF written >= RollSize THEN 2 ELSE 1>>
       /\ written' = IF written >= RollSize THEN 0 ELSE written
       /\ rollday' = today

(* rollfile(): file 0 of the day is opened; if the bytes counted reach the   *)
(* roll size it is closed, the count restarts and file 1 is opened instead.  *)
(* A file that cannot be opened makes the logger write to stdout for good.   *)
RollFile ==
  IF handle = Stdout
  THEN UNCHANGED <<rollday, handle, written>>
  ELSE \E first, second \in OpenOutcomes :
         LET again == first /\ written >= RollSize
             fails == ~first \/ (again /\ ~second)
         IN  /\ handle' = IF fails THEN Stdout
                                   ELSE <<today, IF again THEN 1 ELSE 0>>
             /\ written' = IF again THEN 0 ELSE written
             /\ rollday' = IF fails THEN rollday ELSE today

(* worker_func up to its loop.                                               *)
Start ==
  /\ pc = "start"
  /\ RollFile
  /\ CanAlloc /\ Buffers \ (live \cup {Fresh}) # {}
  /\ new1' = Fresh
  /\ new2' = (CHOOSE b \in Buffers : b \notin live \cup {Fresh})
  /\ live' = live \cup {new1', new2'}
  /\ mem' = [mem EXCEPT ![new1'] = Empty, ![new2'] = Empty]
  /\ pc' = "top"
  /\ UNCHANGED <<curr, nextb, list, running, front, made, batch, node, today,
                 files, out, dropped>>

(* mutant: the flag is read once, before the loop                            *)
LoopForever ==
  /\ pc = "top"
  /\ pc' = "wait"
  /\ UNCHANGED <<shared, running, front, made, new1, new2, batch, node, today,
                 disk, out, dropped>>

(* while (inst.running)                                                      *)
Loop ==
  /\ pc = "top"
  /\ pc' = IF running THEN "wait" ELSE "done"
  /\ UNCHANGED <<shared, running, front, made, new1, new2, batch, node, today,
                 disk, out, dropped>>

(* mutant: the worker waits for a signal, not for a time                     *)
SwapOnSignal ==
  /\ pc = "wait" /\ list.chain # <<>>
  /\ batch' = Push
  /\ list' = NoList
  /\ curr' = new1
  /\ new1' = NULL
  /\ nextb' = (IF nextb = NULL THEN new2 ELSE nextb)
  /\ new2' = (IF nextb = NULL THEN NULL ELSE new2)
  /\ pc' = "drop"
  /\ UNCHANGED <<mem, live, running, front, made, node, today, disk, out,
                 dropped>>

(* The critical section after the timed wait, which a signal, a timeout or   *)
(* nothing at all ends: the current buffer joins the list, which is taken.   *)
Swap ==
  /\ pc = "wait"
  /\ IF rollday # today THEN RollFile
                        ELSE UNCHANGED <<rollday, handle, written>>
  /\ batch' = Push
  /\ list' = NoList
  /\ curr' = new1
  /\ new1' = NULL
  /\ nextb' = (IF nextb = NULL THEN new2 ELSE nextb)
  /\ new2' = (IF nextb = NULL THEN NULL ELSE new2)
  /\ pc' = "drop"
  /\ UNCHANGED <<mem, live, running, front, made, node, today, files, out,
                 dropped>>

(* Too many buffers: a notice is appended like any line.                     *)
Notice ==
  /\ pc = "drop" /\ batch.size > MaxBatch
  /\ made' = made + 1
  /\ AppendLine(made', NoticeLength)
  /\ pc' = "cut"
  /\ UNCHANGED <<running, front, new1, new2, batch, node, today, disk, out,
                 dropped>>

(* The first two buffers are kept, the others freed with their lines.        *)
Cut ==
  /\ pc = "cut"
  /\ LET gone == {batch.chain[i] : i \in 3..Len(batch.chain)}
     IN  /\ dropped' = dropped \cup UNION {Lines(b) : b \in gone}
         /\ live' = live \ gone
  /\ batch' = [chain |-> SubSeq(batch.chain, 1, 2), tail |-> batch.chain[2],
               size |-> 2]
  /\ node' = 1
  /\ pc' = "write"
  /\ UNCHANGED <<mem, curr, nextb, list, running, front, made, new1, new2,
                 today, disk, out>>

NoCut ==
  /\ pc = "drop" /\ batch.size <= MaxBatch
  /\ node' = 1
  /\ pc' = "write"
  /\ UNCHANGED <<shared, running, front, made, new1, new2, batch, today, disk,
                 out, dropped>>

(* One turn of the loop over the buffers: fwrite.                            *)
Write ==
  /\ pc = "write" /\ node <= Len(batch.chain)
  /\ LET b == batch.chain[node]
     IN  /\ out' = out \o mem[b].lines
         /\ written' = written + mem[b].size
         /\ files' = IF handle \in Files
                     THEN [files EXCEPT ![handle] = @ + mem[b].size]
                     ELSE files
  /\ node' = node + 1
  /\ UNCHANGED <<shared, running, front, made, pc, new1, new2, batch, today,
                 rollday, handle, dropped>>

(* Everything is flushed; a file that grew too large is rolled.              *)
Flush ==
  /\ pc = "write" /\ node > Len(batch.chain)
  /\ IF written > RollSize THEN RollFile
                           ELSE UNCHANGED <<rollday, handle, written>>
  /\ pc' = "refill"
  /\ UNCHANGED <<shared, running, front, made, new1, new2, batch, node, today,
                 files, out, dropped>>

(* mutant: everything after the first buffer is freed                        *)
RefillFreesSpare ==
  /\ pc = "refill"
  /\ new1' = batch.chain[1]
  /\ new2' = (IF new2 = NULL THEN batch.chain[2] ELSE new2)
  /\ mem' = [b \in Buffers |->
               IF b \in {new1', new2'} THEN Empty ELSE mem[b]]
  /\ live' = live \ {batch.chain[i] : i \in 2..Len(batch.chain)}
  /\ batch' = NoList
  /\ pc' = "top"
  /\ UNCHANGED <<curr, nextb, list, running, front, made, node, today, disk,
                 out, dropped>>

(* The worker's two spare buffers are taken back, the others freed.          *)
Refill ==
  /\ pc = "refill"
  /\ LET kept == IF new2 = NULL THEN 2 ELSE 1
         rest == {batch.chain[i] : i \in (kept + 1)..Len(batch.chain)}
     IN  /\ new1' = batch.chain[1]
         /\ new2' = (IF new2 = NULL THEN batch.chain[2] ELSE new2)
         /\ mem' = [b \in Buffers |->
                      IF b \in {batch.chain[i] : i \in 1..kept} THEN Empty
                                                                ELSE mem[b]]
         /\ live' = live \ rest
  /\ batch' = NoList
  /\ pc' = "top"
  /\ UNCHANGED <<curr, nextb, list, running, front, made, node, today, disk,
                 out, dropped>>

(* Midnight.                                                                 *)
NextDay ==
  /\ today < LastDay
  /\ today' = today + 1
  /\ UNCHANGED <<shared, running, front, made, pc, new1, new2, batch, node,
                 disk, out, dropped>>

Worker == Start \/ Loop \/ Swap \/ Notice \/ Cut \/ NoCut \/ Write \/ Flush
          \/ Refill
Next == Log \/ Fatal \/ Exit \/ Joined \/ NextDay \/ Worker

Spec == Init /\ [][Next]_vars

(* The worker thread is scheduled, its wait is timed, and pthread_join       *)
(* returns when the worker has.                                              *)
FairSpec == Spec /\ WF_vars(Worker) /\ WF_vars(Joined)

-----------------------------------------------------------------------------
TypeOK ==
  /\ mem \in [Buffers -> [lines : Seq(Nat), size : Nat]]
  /\ live \subseteq Buffers
  /\ curr \in Buffers /\ nextb \in Buffers \cup {NULL}
  /\ new1 \in Buffers \cup {NULL} /\ new2 \in Buffers \cup {NULL}
  /\ \A l \in {list, batch} :
       /\ l.chain \in Seq(Buffers) /\ l.tail \in Buffers \cup {NULL}
       /\ l.size \in Nat
  /\ running \in BOOLEAN
  /\ front \in {"open", "fatal", "joining", "closed"}
  /\ pc \in {"start", "top", "wait", "drop", "cut", "write", "refill", "done"}
  /\ made \in Nat /\ node \in Nat /\ written \in Nat
  /\ today \in 1..LastDay /\ rollday \in 0..LastDay
  /\ handle \in Files \cup {Stdout, NULL}
  /\ files \in [Files -> Nat]
  /\ out \in Seq(Nat) /\ dropped \subseteq Nat

(* The places a buffer can be in.  The list's chain, when there is one,      *)
(* already ends with the current buffer.                                     *)
Spares == {curr, nextb, new1, new2} \ {NULL}

(* Every allocated buffer is in exactly one place, and no place holds a      *)
(* freed buffer, although buffers travel between the two threads and back.   *)
BuffersOwned ==
  /\ \A x, y \in {"curr", "next", "new1", "new2"} :
       LET at(p) == CASE p = "curr" -> curr [] p = "next" -> nextb
                      [] p = "new1" -> new1 [] p = "new2" -> new2
       IN  (at(x) = at(y) /\ at(x) # NULL) => x = y
  /\ \A i, j \in DOMAIN list.chain : list.chain[i] = list.chain[j] => i = j
  /\ \A i, j \in DOMAIN batch.chain : batch.chain[i] = batch.chain[j] => i = j
  /\ Elems(list.chain) \cap {nextb, new1, new2} = {}
  /\ Elems(batch.chain) \cap (Elems(list.chain) \cup Spares) = {}
  /\ live = Spares \cup Elems(list.chain) \cup Elems(batch.chain)

(* The assertions of append and worker_func: the list's links agree with its *)
(* tail and size, the worker's spare buffers are empty when it starts a turn *)
(* and there are enough written buffers to take them back from.              *)
AssertsHold ==
  /\ (list.chain = <<>>) <=> (list.size = 0)
  /\ list.chain # <<>> =>
       /\ Len(list.chain) = list.size + 1
       /\ list.chain[list.size] = list.tail
       /\ list.chain[list.size + 1] = curr
  /\ pc \in {"top", "wait"} =>
       /\ batch.chain = <<>>
       /\ new1 # NULL /\ mem[new1].size = 0
       /\ new2 # NULL /\ mem[new2].size = 0
  /\ pc \in {"drop", "cut", "write", "refill"} =>
       /\ Len(batch.chain) = batch.size
       /\ batch.size > 0 /\ batch.chain[batch.size] = batch.tail
       /\ new2 = NULL => batch.size > 1

(* Everything appended, in the order in which it will be written.            *)
Listed == IF list.chain = <<>> THEN <<curr>> ELSE list.chain
Unwritten ==
  IF pc = "write" THEN SubSeq(batch.chain, node, Len(batch.chain))
  ELSE IF pc \in {"drop", "cut"} THEN batch.chain ELSE <<>>
Pending == Unwritten \o Listed

(* The lines reach the file in the order in which they were appended, and    *)
(* every line is in exactly one place: written, dropped or in a buffer that  *)
(* is still to be written.                                                   *)
LinesInOrder ==
  /\ \A i, j \in DOMAIN out : i < j => out[i] < out[j]
  /\ \A i \in DOMAIN out, b \in Elems(Pending) : \A n \in Lines(b) : out[i] < n
  /\ \A i, j \in DOMAIN Pending :
       i < j => \A n \in Lines(Pending[i]), m \in Lines(Pending[j]) : n < m
  /\ \A b \in Elems(Pending) :
       \A i, j \in DOMAIN mem[b].lines :
         i < j => mem[b].lines[i] < mem[b].lines[j]
  /\ dropped \cap (Elems(out) \cup UNION {Lines(b) : b \in Elems(Pending)}) = {}
  /\ Elems(out) \cup dropped \cup UNION {Lines(b) : b \in Elems(Pending)}
       = 1..made

(* While the logger runs, every line appended is written or dropped.         *)
LinesReachDisk ==
  \A n \in 1..MaxLines :
    (made >= n) ~> (n \in Elems(out) \cup dropped \/ ~running)

(* log_exit returns: the worker sees that it must stop.                      *)
ExitReturns == (front = "joining") ~> (front = "closed")

(* A log file that has reached the roll size is left for a new one.          *)
FileRolled ==
  pc = "wait" /\ handle \in Files => files[handle] <= RollSize
=============================================================================
