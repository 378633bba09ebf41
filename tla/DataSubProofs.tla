---------------------------- MODULE DataSubProofs ----------------------------
(***************************************************************************)
(* Theorems about DataSub for any number of strips, rows and pages: every  *)
(* result comes from the right rows of completed statistics, no two jobs   *)
(* write the same row, and the files are complete when they are written.   *)
(***************************************************************************)
EXTENDS DataSub, SequenceTheorems, TLAPS

-----------------------------------------------------------------------------
(***************************************************************************)
(* image_index.                                                            *)
(***************************************************************************)
LEMMA StripSize ==
  /\ BufferLength \in Nat \ {0}
  /\ NumThreads \in Nat \ {0}
  /\ BufferLength * NumThreads <= Length
BY DataSubAssumption DEF BufferLength

\* The strips follow each other.
LEMMA StripOrder ==
  ASSUME NEW t \in Strips, NEW u \in Strips, t < u
  PROVE  t * BufferLength + BufferLength <= u * BufferLength
<1>1. t \in Nat /\ u \in Nat /\ BufferLength \in Nat /\ u - t - 1 \in Nat
  BY StripSize DEF Strips
<1>2. (u - t - 1) * BufferLength \in Nat
  BY <1>1
<1>3. u * BufferLength = t * BufferLength + BufferLength + (u - t - 1) * BufferLength
  BY <1>1
<1>. QED BY <1>1, <1>2, <1>3

LEMMA StripFits ==
  ASSUME NEW t \in Strips, NEW r \in Rows
  PROVE  r + t * BufferLength \in 0..(Length - 1)
<1>1. t \in Nat /\ r \in Nat /\ NumThreads - t - 1 \in Nat /\ r < BufferLength
  BY StripSize DEF Strips, Rows
<1>2. (NumThreads - t - 1) * BufferLength \in Nat /\ t * BufferLength \in Nat
  BY <1>1, StripSize
<1>3. BufferLength * NumThreads
        = t * BufferLength + BufferLength + (NumThreads - t - 1) * BufferLength
  BY <1>1, StripSize
<1>. QED BY <1>1, <1>2, <1>3, StripSize, DataSubAssumption

LEMMA StripInjective ==
  ASSUME NEW t \in Strips, NEW u \in Strips, NEW r \in Rows, NEW q \in Rows,
         r + t * BufferLength = q + u * BufferLength
  PROVE  t = u /\ r = q
<1>1. /\ t \in Nat /\ u \in Nat /\ t * BufferLength \in Nat /\ u * BufferLength \in Nat
      /\ r \in 0..(BufferLength - 1) /\ q \in 0..(BufferLength - 1) /\ BufferLength \in Nat
  BY StripSize DEF Strips, Rows
<1>2. ~(t < u)
  BY <1>1, StripOrder
<1>3. ~(u < t)
  BY <1>1, StripOrder
<1>4. t = u
  BY <1>1, <1>2, <1>3
<1>. QED BY <1>1, <1>4

\* Pages follow each other.
LEMMA PageFits ==
  ASSUME NEW x \in 0..(Length - 1), NEW p \in Nat, NEW k \in 0..(p - 1)
  PROVE  x + k * Length \in 0..(p * Length - 1)
<1>1. k \in Nat /\ p - k - 1 \in Nat /\ Length \in Nat /\ x \in Nat /\ x < Length
  BY DataSubAssumption
<1>2. (p - k - 1) * Length \in Nat /\ k * Length \in Nat
  BY <1>1
<1>3. p * Length = k * Length + Length + (p - k - 1) * Length
  BY <1>1
<1>. QED BY <1>1, <1>2, <1>3

LEMMA PageMod ==
  ASSUME NEW x \in 0..(Length - 1), NEW k \in Nat
  PROVE  (x + k * Length) % Length = x /\ (x + k * Length) \div Length = k
<1>1. /\ x \in Nat /\ x < Length /\ Length \in Nat \ {0} /\ k * Length \in Nat
  BY DataSubAssumption
<1>. DEFINE n == x + k * Length
            q == n \div Length
            m == n % Length
<1>2. n \in Nat /\ q \in Int /\ m \in 0..(Length - 1) /\ n = Length * q + m
  BY <1>1
<1>. HIDE DEF q, m
<1>3. Length * (q - k) = x - m /\ q - k \in Int
  BY <1>1, <1>2
<1>4. q - k >= 1 => Length * (q - k) >= Length
  BY <1>1, <1>3
<1>5. q - k <= -1 => Length * (q - k) <= -Length
  BY <1>1, <1>3
<1>6. q = k
  BY <1>1, <1>2, <1>3, <1>4, <1>5
<1>7. m = x
  BY <1>1, <1>2, <1>6
<1>. QED BY <1>6, <1>7 DEF q, m

\* The rows that the first s pages contribute to row r of strip t.
RowsUpTo(t, r, s) == {ImageIndex(t, r, k) : k \in 0..(s - 1)}

LEMMA IndexFirst ==
  ASSUME NEW t \in Strips, NEW r \in Rows
  PROVE  ImageIndex(t, r, 0) = r + t * BufferLength /\ ImageIndex(t, r, 0) \in 0..(Length - 1)
<1>1. r + t * BufferLength \in 0..(Length - 1) /\ 0 * Length = 0
  BY StripFits, DataSubAssumption
<1>2. ImageIndex(t, r, 0) = r + t * BufferLength + 0
  BY <1>1 DEF ImageIndex
<1>. QED BY <1>1, <1>2

LEMMA IndexFits ==
  ASSUME NEW t \in Strips, NEW r \in Rows, NEW p \in Nat, NEW k \in 0..(p - 1)
  PROVE  ImageIndex(t, r, k) \in 0..(p * Length - 1)
BY StripFits, PageFits DEF ImageIndex

LEMMA IndexInjective ==
  ASSUME NEW t \in Strips, NEW r \in Rows, NEW k \in Nat,
         NEW u \in Strips, NEW q \in Rows, NEW m \in Nat,
         ImageIndex(t, r, k) = ImageIndex(u, q, m)
  PROVE  t = u /\ r = q /\ k = m
<1>. DEFINE x == r + t * BufferLength
            y == q + u * BufferLength
<1>1. x \in 0..(Length - 1) /\ y \in 0..(Length - 1)
  BY StripFits
<1>2. ImageIndex(t, r, k) = x + k * Length /\ ImageIndex(u, q, m) = y + m * Length
  BY DEF ImageIndex
<1>. HIDE DEF x, y
<1>3. x = y /\ k = m
  <2>1. (x + k * Length) % Length = x /\ (x + k * Length) \div Length = k
    BY <1>1, PageMod
  <2>2. (y + m * Length) % Length = y /\ (y + m * Length) \div Length = m
    BY <1>1, PageMod
  <2>. QED BY <1>2, <2>1, <2>2
<1>4. t = u /\ r = q
  BY <1>3, StripInjective DEF x, y
<1>. QED BY <1>3, <1>4

\* The dark rows that belong to a row of a data page.
LEMMA IndexDark ==
  ASSUME NEW t \in Strips, NEW r \in Rows, NEW k \in Nat
  PROVE  DarkRows(ImageIndex(t, r, k) % Length) = RowsUpTo(t, r, DarkPages)
<1>1. ImageIndex(t, r, k) % Length = r + t * BufferLength
  BY StripFits, PageMod DEF ImageIndex
<1>. QED BY <1>1 DEF DarkRows, RowsUpTo, ImageIndex

LEMMA RowsEmpty == ASSUME NEW t, NEW r PROVE RowsUpTo(t, r, 0) = {}
BY DEF RowsUpTo

LEMMA RowsStep ==
  ASSUME NEW t, NEW r, NEW s \in Nat
  PROVE  RowsUpTo(t, r, s + 1) = RowsUpTo(t, r, s) \union {ImageIndex(t, r, s)}
<1>1. 0..(s + 1 - 1) = 0..(s - 1) \union {s}
  OBVIOUS
<1>. QED BY <1>1 DEF RowsUpTo

LEMMA RowsDark ==
  ASSUME NEW t \in Strips, NEW r \in Rows
  PROVE  /\ RowsUpTo(t, r, DarkPages) # {}
         /\ \A s \in 0..DarkPages : RowsUpTo(t, r, s) \in RowSets
<1>1. DarkPages \in Nat \ {0} /\ Length \in Nat
  BY DataSubAssumption
<1>2. ImageIndex(t, r, 0) \in RowsUpTo(t, r, DarkPages)
  BY <1>1 DEF RowsUpTo
<1>3. \A k \in 0..(DarkPages - 1) : ImageIndex(t, r, k) \in 0..(DarkPages * Length - 1)
  BY <1>1, IndexFits
<1>4. DarkPages * Length \in Nat
  BY <1>1
<1>5. \A k \in 0..(DarkPages - 1) : ImageIndex(t, r, k) \in 0..NoRow
  BY <1>3, <1>4 DEF NoRow
<1>6. ASSUME NEW s \in 0..DarkPages PROVE RowsUpTo(t, r, s) \in RowSets
  BY <1>1, <1>5 DEF RowsUpTo, RowSets
<1>. QED BY <1>2, <1>6

-----------------------------------------------------------------------------
(***************************************************************************)
(* The pool's queue.                                                       *)
(***************************************************************************)
QueuedOnce == \A m, n \in 1..Len(queue) : queue[m] = queue[n] => m = n

LEMMA QueueAppend ==
  ASSUME queue \in Seq(Jobs), NEW j \in Jobs, queue' = Append(queue, j)
  PROVE  /\ Pool!Queued' = Pool!Queued \union {j}
         /\ QueuedOnce /\ j \notin Pool!Queued => QueuedOnce'
<1>1. /\ Len(queue) \in Nat /\ Len(queue') = Len(queue) + 1
      /\ \A n \in 1..Len(queue) : queue'[n] = queue[n]
      /\ queue'[Len(queue) + 1] = j
  OBVIOUS
<1>2. Pool!Queued' = Pool!Queued \union {j}
  <2>1. 1..Len(queue') = 1..Len(queue) \union {Len(queue) + 1}
    BY <1>1
  <2>. QED BY <1>1, <2>1 DEF Pool!Queued
<1>3. ASSUME QueuedOnce, j \notin Pool!Queued PROVE QueuedOnce'
  <2>. SUFFICES ASSUME NEW m \in 1..Len(queue'), NEW n \in 1..Len(queue'), queue'[m] = queue'[n]
                PROVE  m = n
    BY DEF QueuedOnce
  <2>1. \A l \in 1..Len(queue) : queue[l] # j
    BY <1>3 DEF Pool!Queued
  <2>2. /\ m \in 1..Len(queue) \/ m = Len(queue) + 1
        /\ n \in 1..Len(queue) \/ n = Len(queue) + 1
    BY <1>1
  <2>. QED BY <1>1, <1>3, <2>1, <2>2 DEF QueuedOnce
<1>. QED BY <1>2, <1>3

LEMMA QueueTail ==
  ASSUME queue \in Seq(Jobs), queue # <<>>, queue' = Tail(queue), QueuedOnce
  PROVE  /\ Head(queue) \in Pool!Queued /\ Head(queue) \in Jobs
         /\ Pool!Queued' = Pool!Queued \ {Head(queue)}
         /\ QueuedOnce'
<1>1. /\ Len(queue) \in Nat \ {0} /\ Len(queue') = Len(queue) - 1
      /\ \A n \in 1..Len(queue') : queue'[n] = queue[n + 1]
      /\ Head(queue) = queue[1]
      /\ \A n \in 1..Len(queue) : queue[n] \in Jobs
  BY EmptySeq, ElementOfSeq, LenProperties, HeadTailProperties
<1>2. Head(queue) \in Pool!Queued /\ Head(queue) \in Jobs
  BY <1>1 DEF Pool!Queued
<1>3. Pool!Queued' = Pool!Queued \ {Head(queue)}
  <2>1. ASSUME NEW j \in Pool!Queued' PROVE j \in Pool!Queued /\ j # Head(queue)
    <3>1. PICK n \in 1..Len(queue') : queue'[n] = j
      BY <2>1 DEF Pool!Queued
    <3>2. n + 1 \in 1..Len(queue) /\ n + 1 # 1 /\ queue[n + 1] = j /\ 1 \in 1..Len(queue)
      BY <1>1, <3>1
    <3>. QED BY <1>1, <3>2 DEF Pool!Queued, QueuedOnce
  <2>2. ASSUME NEW j \in Pool!Queued, j # Head(queue) PROVE j \in Pool!Queued'
    <3>1. PICK n \in 1..Len(queue) : queue[n] = j
      BY <2>2 DEF Pool!Queued
    <3>2. n - 1 \in 1..Len(queue') /\ n - 1 + 1 = n
      BY <1>1, <2>2, <3>1
    <3>3. queue'[n - 1] = j
      BY <1>1, <3>1, <3>2
    <3>. QED BY <3>2, <3>3 DEF Pool!Queued
  <2>. QED BY <2>1, <2>2
<1>4. QueuedOnce'
  <2>. SUFFICES ASSUME NEW m \in 1..Len(queue'), NEW n \in 1..Len(queue'), queue'[m] = queue'[n]
                PROVE  m = n
    BY DEF QueuedOnce
  <2>1. m + 1 \in 1..Len(queue) /\ n + 1 \in 1..Len(queue)
    BY <1>1
  <2>2. m + 1 = n + 1
    BY <1>1, <2>1 DEF QueuedOnce
  <2>. QED BY <2>2
<1>. QED BY <1>2, <1>3, <1>4

-----------------------------------------------------------------------------
(***************************************************************************)
(* Where the jobs are, at each point of the main thread.                   *)
(***************************************************************************)
RmsJobs == {"rms"} \X Strips
SubJobs == {"sub"} \X Strips
Given == Pool!Queued \union running \union finished
RmsDone == RmsJobs \subseteq finished

\* No job is in two places.
OnePlace ==
  /\ QueuedOnce
  /\ Pool!Queued \intersect (running \union finished) = {}
  /\ running \intersect finished = {}

\* What the main thread knows of the jobs where it is.
DarkPhase ==
  /\ pc = "loadDark" => Given = {}
  /\ pc \in {"queueRms", "waitRms", "create", "join"} =>
       /\ pages = DarkPages \/ (pages = 1 /\ program # "mthread_avg")
       /\ Given \subseteq RmsJobs
  /\ pc = "queueRms" => \A t \in Strips : t < i => <<"rms", t>> \in Given
  /\ pc = "waitRms" => RmsJobs \subseteq owed["main"] \union finished
  /\ pc \in {"create", "join"} => i \in Strips /\ program # "data_sub"
  /\ pc = "create" => \A t \in Strips : t >= i => <<"rms", t>> \notin Given
  /\ pc = "join" => \A t \in Strips : t < i => <<"rms", t>> \in finished
DataPhase ==
  /\ pc = "loadData" => RmsDone /\ Given \subseteq RmsJobs
  /\ pc \in {"queueSub", "waitSub"} => RmsDone /\ pages = DataPages
  /\ pc = "queueSub" => \A t \in Strips : t < i => <<"sub", t>> \in Given
  /\ pc = "waitSub" => SubJobs \subseteq owed["main"] \union finished
  /\ pc \in {"loadData", "queueSub", "waitSub"} => program = "data_sub"
EndPhase ==
  /\ pc = "tifSyn" => /\ RmsDone
                      /\ program = "data_sub" => SubJobs \subseteq finished
                      /\ program # "data_sub" => Given \subseteq RmsJobs
  /\ pc = "destroy" => queue = <<>> /\ running = {}
  /\ phase = "closing" => pc = "destroy"
Control == OnePlace /\ DarkPhase /\ DataPhase /\ EndPhase

LEMMA JobsSplit == Jobs = RmsJobs \union SubJobs /\ RmsJobs \intersect SubJobs = {}
BY DEF Jobs, RmsJobs, SubJobs

\* Running jobs work on the pages of their phase, and sub jobs on statistics
\* that are complete.
LEMMA RunningPhase ==
  ASSUME TypeOK, Control, pc # "exit", NEW j \in running
  PROVE  /\ j \in RmsJobs => pages = DarkPages \/ (pages = 1 /\ program # "mthread_avg")
         /\ j \in SubJobs => pages = DataPages /\ RmsDone
<1>1. j \in Given /\ j \notin finished
  BY DEF Given, Control, OnePlace
<1>2. CASE j \in RmsJobs
  <2>1. ~RmsDone
    BY <1>1, <1>2 DEF RmsDone
  <2>2. pc \notin {"loadDark", "loadData", "queueSub", "waitSub", "tifSyn", "destroy"}
    BY <1>1, <2>1 DEF Control, DarkPhase, DataPhase, EndPhase
  <2>3. pages = DarkPages \/ (pages = 1 /\ program # "mthread_avg")
    BY <2>2 DEF TypeOK, Control, DarkPhase
  <2>. QED BY <1>2, <2>3, JobsSplit
<1>3. CASE j \in SubJobs
  <2>1. j \notin RmsJobs
    BY <1>3, JobsSplit
  <2>2. pc \notin {"loadDark", "queueRms", "waitRms", "create", "join", "loadData", "destroy"}
    BY <1>1, <2>1 DEF Control, DarkPhase, DataPhase, EndPhase
  <2>3. pc # "tifSyn"
    BY <1>1, <1>3, <2>1 DEF Control, EndPhase
  <2>4. pc \in {"queueSub", "waitSub"}
    BY <2>2, <2>3 DEF TypeOK
  <2>. QED BY <2>1, <2>4 DEF Control, DataPhase
<1>. QED BY <1>2, <1>3

\* A job that starts or ends changes nothing the main thread relies on.
JobMoves ==
  /\ UNCHANGED <<program, pc, i, pages, waiters, owed, phase>>
  /\ Given' = Given /\ finished \subseteq finished'
  /\ queue = <<>> /\ running = {} => queue' = <<>> /\ running' = {}

LEMMA PhaseKept ==
  ASSUME Control, JobMoves, OnePlace'
  PROVE  Control'
<1>1. RmsDone => RmsDone'
  BY DEF RmsDone, JobMoves
<1>2. DarkPhase'
  BY DEF JobMoves, Control, DarkPhase
<1>3. DataPhase'
  BY <1>1 DEF JobMoves, Control, DataPhase
<1>4. EndPhase'
  BY <1>1 DEF JobMoves, Control, EndPhase
<1>. QED BY <1>2, <1>3, <1>4 DEF Control

LEMMA StartControl ==
  ASSUME TypeOK, Control, StartJob
  PROVE  Control' /\ running \subseteq running' /\ finished' = finished /\ running' \subseteq Jobs
<1>0. /\ queue \in Seq(Jobs) /\ queue # <<>> /\ queue' = Tail(queue) /\ QueuedOnce
      /\ running' = running \union {Head(queue)} /\ finished' = finished /\ running \subseteq Jobs
      /\ UNCHANGED <<program, pc, i, pages, waiters, owed, phase>>
  BY DEF TypeOK, Control, OnePlace, StartJob, Pool!Start
<1>1. /\ Head(queue) \in Pool!Queued /\ Head(queue) \in Jobs
      /\ Pool!Queued' = Pool!Queued \ {Head(queue)} /\ QueuedOnce'
  BY <1>0, QueueTail
<1>2. OnePlace'
  BY <1>0, <1>1 DEF Control, OnePlace
<1>3. JobMoves
  BY <1>0, <1>1 DEF JobMoves, Given
<1>. QED BY <1>0, <1>1, <1>2, <1>3, PhaseKept

LEMMA EndControl ==
  ASSUME TypeOK, Control, NEW j \in running, Pool!End(j), UNCHANGED <<program, pc, i, pages>>
  PROVE  Control' /\ running' = running \ {j} /\ finished' = finished \union {j}
<1>0. /\ running' = running \ {j} /\ finished' = finished \union {j}
      /\ UNCHANGED <<program, pc, i, pages, queue, waiters, owed, phase>>
  BY DEF Pool!End
<1>1. Pool!Queued' = Pool!Queued /\ (QueuedOnce => QueuedOnce')
  BY <1>0 DEF Pool!Queued, QueuedOnce
<1>2. OnePlace'
  BY <1>0, <1>1 DEF Control, OnePlace
<1>3. JobMoves
  BY <1>0, <1>1 DEF JobMoves, Given
<1>. QED BY <1>0, <1>2, <1>3, PhaseKept

-----------------------------------------------------------------------------
(***************************************************************************)
(* The steps of the main thread.                                           *)
(***************************************************************************)
\* What they leave alone.
Buffers == <<step, stat, final, out, mask, res>>
\* Of the pool they only add to it.
MainStep == /\ UNCHANGED Buffers /\ program' = program
            /\ finished' = finished /\ running \subseteq running'

LEMMA LoadControl ==
  ASSUME TypeOK, Control, program' = program, LoadDark \/ LoadData
  PROVE  TypeOK' /\ Control' /\ MainStep
<1>0. UNCHANGED pool /\ UNCHANGED Buffers
  BY DEF LoadDark, LoadData, Buffers
<1>1. Given' = Given /\ RmsDone' = RmsDone /\ (OnePlace => OnePlace')
  BY <1>0 DEF pool, Given, RmsDone, OnePlace, QueuedOnce, Pool!Queued
<1>2. 0 \in Strips /\ \A t \in Strips : ~(t < 0)
  BY DataSubAssumption DEF Strips
<1>6. 0 \in 0..NumThreads
  BY StripSize
<1>7. MainStep
  BY <1>0 DEF MainStep, pool
<1>3. CASE LoadDark
  <2>1. /\ pc = "loadDark" /\ i' = 0 /\ Given = {}
        /\ pages' = DarkPages \/ (pages' = 1 /\ program # "mthread_avg")
        /\ pc' \in {"queueRms", "create"} /\ (pc' = "create" => program # "data_sub")
    BY <1>3 DEF LoadDark, DarkFiles, HasPool, Control, DarkPhase
  <2>2. TypeOK'
    BY <1>0, <1>6, <2>1 DEF TypeOK, pool, Buffers
  <2>3. DarkPhase'
    BY <1>1, <1>2, <2>1 DEF DarkPhase
  <2>4. DataPhase' /\ EndPhase'
    BY <1>0, <2>1 DEF Control, DataPhase, EndPhase, pool
  <2>. QED BY <1>1, <1>7, <2>2, <2>3, <2>4 DEF Control
<1>4. CASE LoadData
  <2>1. /\ pc = "loadData" /\ pages' = DataPages /\ i' = 0 /\ pc' = "queueSub"
        /\ RmsDone /\ program = "data_sub"
    BY <1>4 DEF LoadData, Control, DataPhase
  <2>2. TypeOK'
    BY <1>0, <1>6, <2>1 DEF TypeOK, pool, Buffers
  <2>3. DataPhase'
    BY <1>1, <1>2, <2>1 DEF DataPhase
  <2>4. DarkPhase' /\ EndPhase'
    BY <1>0, <2>1 DEF Control, DarkPhase, EndPhase, pool
  <2>. QED BY <1>1, <1>7, <2>2, <2>3, <2>4 DEF Control
<1>. QED BY <1>3, <1>4

\* A call that fails ends the process where it is.
ProcessDies == /\ pc' = "exit" /\ pc # "destroy" /\ program' = program
               /\ UNCHANGED <<i, pages, pool>> /\ UNCHANGED Buffers

LEMMA DeathControl ==
  ASSUME TypeOK, Control, ProcessDies
  PROVE  TypeOK' /\ Control' /\ MainStep
<1>1. OnePlace'
  BY DEF ProcessDies, pool, Control, OnePlace, QueuedOnce, Pool!Queued
<1>2. phase # "closing" /\ phase' = phase
  BY DEF ProcessDies, pool, Control, EndPhase
<1>3. DarkPhase' /\ DataPhase' /\ EndPhase'
  BY <1>2 DEF ProcessDies, DarkPhase, DataPhase, EndPhase
<1>4. TypeOK'
  BY DEF ProcessDies, pool, Buffers, TypeOK, RowSets, NoRow
<1>. QED BY <1>1, <1>3, <1>4 DEF Control, ProcessDies, pool, MainStep

LEMMA FailureControl ==
  ASSUME TypeOK, Control, program' = program,
         OpenFails \/ QueueFails \/ WriteFails \/ CreateFails
  PROVE  TypeOK' /\ Control' /\ MainStep
<1>1. ProcessDies
  BY DEF ProcessDies, OpenFails, QueueFails, WriteFails, CreateFails, Buffers
<1>. QED BY <1>1, DeathControl

LEMMA QueueRmsControl ==
  ASSUME TypeOK, Control, program' = program, QueueRms
  PROVE  TypeOK' /\ Control' /\ MainStep
<1>0. /\ pc = "queueRms" /\ UNCHANGED <<pages, running, finished>> /\ UNCHANGED Buffers
      /\ UNCHANGED phase /\ phase = "open" /\ staffed' \in BOOLEAN
  BY DEF QueueRms, QueueLoop, Buffers, Pool!Enqueue, Pool!WaitCall, TypeOK
<1>1. CASE i \in Strips
  <2>1. /\ queue' = Append(queue, <<"rms", i>>) /\ <<"rms", i>> \notin Given
        /\ i' = i + 1 /\ pc' = "queueRms" /\ UNCHANGED <<waiters, owed>>
    BY <1>0, <1>1 DEF QueueRms, QueueLoop, Pool!Enqueue, Given
  <2>2. <<"rms", i>> \in RmsJobs /\ <<"rms", i>> \in Jobs
    BY <1>1, JobsSplit DEF RmsJobs
  <2>3. /\ Pool!Queued' = Pool!Queued \union {<<"rms", i>>} /\ QueuedOnce'
        /\ queue' \in Seq(Jobs)
    BY <2>1, <2>2, QueueAppend DEF TypeOK, Control, OnePlace, Given
  <2>4. Given' = Given \union {<<"rms", i>>}
    BY <1>0, <2>3 DEF Given
  <2>5. OnePlace'
    BY <1>0, <2>1, <2>3 DEF Control, OnePlace, Given
  <2>6. i' \in 0..NumThreads /\ i \in Nat
    BY <1>1, <2>1, DataSubAssumption DEF Strips
  <2>7. \A t \in Strips : t < i + 1 => t < i \/ t = i
    BY <2>6 DEF Strips
  <2>8. DarkPhase'
    BY <1>0, <2>1, <2>2, <2>4, <2>7 DEF Control, DarkPhase
  <2>9. DataPhase' /\ EndPhase'
    BY <1>0, <2>1 DEF Control, DataPhase, EndPhase
  <2>. QED BY <1>0, <2>1, <2>3, <2>5, <2>6, <2>8, <2>9 DEF TypeOK, Control, MainStep, Buffers
<1>2. CASE i \notin Strips
  <2>1. /\ pc' = "waitRms" /\ UNCHANGED <<i, queue>> /\ waiters' = waiters \union {"main"}
        /\ owed' = [owed EXCEPT !["main"] = Pool!Queued \union running]
    BY <1>0, <1>2 DEF QueueRms, QueueLoop, Pool!WaitCall
  <2>2. Pool!Queued' = Pool!Queued /\ Given' = Given /\ OnePlace'
    BY <1>0, <2>1 DEF Given, Control, OnePlace, QueuedOnce, Pool!Queued
  <2>3. \A t \in Strips : t < i
    BY <1>2, DataSubAssumption DEF Strips, TypeOK
  <2>4. RmsJobs \subseteq Given
    BY <1>0, <2>3 DEF Control, DarkPhase, RmsJobs
  <2>5. owed'["main"] = Pool!Queued \union running
    BY <2>1 DEF TypeOK
  <2>6. DarkPhase'
    BY <1>0, <2>1, <2>2, <2>4, <2>5 DEF Control, DarkPhase, Given
  <2>7. DataPhase' /\ EndPhase'
    BY <1>0, <2>1 DEF Control, DataPhase, EndPhase
  <2>8. Pool!Queued \subseteq Jobs
    BY ElementOfSeq DEF TypeOK, Pool!Queued
  <2>. QED BY <1>0, <2>1, <2>2, <2>6, <2>7, <2>8 DEF TypeOK, Control, MainStep, Buffers
<1>. QED BY <1>1, <1>2

LEMMA QueueSubControl ==
  ASSUME TypeOK, Control, program' = program, QueueSub
  PROVE  TypeOK' /\ Control' /\ MainStep
<1>0. /\ pc = "queueSub" /\ UNCHANGED <<pages, running, finished>> /\ UNCHANGED Buffers
      /\ UNCHANGED phase /\ phase = "open" /\ staffed' \in BOOLEAN
  BY DEF QueueSub, QueueLoop, Buffers, Pool!Enqueue, Pool!WaitCall, TypeOK
<1>1. RmsDone' = RmsDone
  BY <1>0 DEF RmsDone
<1>2. CASE i \in Strips
  <2>1. /\ queue' = Append(queue, <<"sub", i>>) /\ <<"sub", i>> \notin Given
        /\ i' = i + 1 /\ pc' = "queueSub" /\ UNCHANGED <<waiters, owed>>
    BY <1>0, <1>2 DEF QueueSub, QueueLoop, Pool!Enqueue, Given
  <2>2. <<"sub", i>> \in SubJobs /\ <<"sub", i>> \in Jobs
    BY <1>2, JobsSplit DEF SubJobs
  <2>3. /\ Pool!Queued' = Pool!Queued \union {<<"sub", i>>} /\ QueuedOnce'
        /\ queue' \in Seq(Jobs)
    BY <2>1, <2>2, QueueAppend DEF TypeOK, Control, OnePlace, Given
  <2>4. Given' = Given \union {<<"sub", i>>}
    BY <1>0, <2>3 DEF Given
  <2>5. OnePlace'
    BY <1>0, <2>1, <2>3 DEF Control, OnePlace, Given
  <2>6. i' \in 0..NumThreads /\ i \in Nat
    BY <1>2, <2>1, DataSubAssumption DEF Strips
  <2>7. \A t \in Strips : t < i + 1 => t < i \/ t = i
    BY <2>6 DEF Strips
  <2>8. DataPhase'
    BY <1>0, <1>1, <2>1, <2>4, <2>7 DEF Control, DataPhase
  <2>9. DarkPhase' /\ EndPhase'
    BY <1>0, <2>1 DEF Control, DarkPhase, EndPhase
  <2>. QED BY <1>0, <2>1, <2>3, <2>5, <2>6, <2>8, <2>9 DEF TypeOK, Control, MainStep, Buffers
<1>3. CASE i \notin Strips
  <2>1. /\ pc' = "waitSub" /\ UNCHANGED <<i, queue>> /\ waiters' = waiters \union {"main"}
        /\ owed' = [owed EXCEPT !["main"] = Pool!Queued \union running]
    BY <1>0, <1>3 DEF QueueSub, QueueLoop, Pool!WaitCall
  <2>2. Pool!Queued' = Pool!Queued /\ Given' = Given /\ OnePlace'
    BY <1>0, <2>1 DEF Given, Control, OnePlace, QueuedOnce, Pool!Queued
  <2>3. \A t \in Strips : t < i
    BY <1>3, DataSubAssumption DEF Strips, TypeOK
  <2>4. SubJobs \subseteq Given
    BY <1>0, <2>3 DEF Control, DataPhase, SubJobs
  <2>5. owed'["main"] = Pool!Queued \union running
    BY <2>1 DEF TypeOK
  <2>6. DataPhase'
    BY <1>0, <1>1, <2>1, <2>2, <2>4, <2>5 DEF Control, DataPhase, Given
  <2>7. DarkPhase' /\ EndPhase'
    BY <1>0, <2>1 DEF Control, DarkPhase, EndPhase
  <2>8. Pool!Queued \subseteq Jobs
    BY ElementOfSeq DEF TypeOK, Pool!Queued
  <2>. QED BY <1>0, <2>1, <2>2, <2>6, <2>7, <2>8 DEF TypeOK, Control, MainStep, Buffers
<1>. QED BY <1>2, <1>3

\* thr_pool_wait returns: the jobs of the phase are over.
LEMMA WaitControl ==
  ASSUME TypeOK, Control, program' = program, WaitRms \/ WaitSub
  PROVE  TypeOK' /\ Control' /\ MainStep
<1>0. /\ UNCHANGED <<i, pages, queue, running, finished, phase, staffed>> /\ UNCHANGED Buffers
      /\ owed["main"] \subseteq finished
      /\ waiters' = waiters \ {"main"} /\ owed' = [owed EXCEPT !["main"] = {}]
  BY DEF WaitRms, WaitSub, WaitReturn, Pool!WaitReturn, Buffers
<1>1. Given' = Given /\ RmsDone' = RmsDone /\ OnePlace'
  BY <1>0 DEF Given, RmsDone, Control, OnePlace, QueuedOnce, Pool!Queued
<1>2. CASE WaitRms
  <2>1. pc = "waitRms" /\ pc' = AfterDark
    BY <1>2 DEF WaitRms, WaitReturn
  <2>2. RmsDone /\ Given \subseteq RmsJobs
    BY <1>0, <2>1 DEF Control, DarkPhase, RmsDone
  <2>. QED BY <1>0, <1>1, <2>1, <2>2
           DEF AfterDark, TypeOK, Control, DarkPhase, DataPhase, EndPhase, MainStep, Buffers
<1>3. CASE WaitSub
  <2>1. pc = "waitSub" /\ pc' = "tifSyn"
    BY <1>3 DEF WaitSub, WaitReturn
  <2>2. RmsDone /\ SubJobs \subseteq finished /\ program = "data_sub"
    BY <1>0, <2>1 DEF Control, DataPhase
  <2>. QED BY <1>0, <1>1, <2>1, <2>2
           DEF TypeOK, Control, DarkPhase, DataPhase, EndPhase, MainStep, Buffers
<1>. QED BY <1>2, <1>3

LEMMA EndingControl ==
  ASSUME TypeOK, Control, program' = program, TifSyn \/ Destroyed
  PROVE  TypeOK' /\ Control' /\ MainStep
<1>0. UNCHANGED <<i, pages, running, finished, waiters, owed, staffed>> /\ UNCHANGED Buffers
  BY DEF TifSyn, Destroyed, Pool!DestroyCall, Pool!DestroyReturn, Buffers, pool
<1>1. CASE TifSyn
  <2>1. pc = "tifSyn" /\ queue' = queue
    BY <1>1 DEF TifSyn, Pool!DestroyCall, pool
  <2>2. Given' = Given /\ OnePlace'
    BY <1>0, <2>1 DEF Given, Control, OnePlace, QueuedOnce, Pool!Queued
  <2>3. \/ pc' = "exit" /\ phase' = phase
        \/ pc' = "destroy" /\ phase' = "closing"
    BY <1>1 DEF TifSyn, Pool!DestroyCall, pool
  <2>4. Given \subseteq finished
    <3>1. Given \subseteq Jobs
      BY ElementOfSeq DEF Given, TypeOK, Pool!Queued
    <3>. QED BY <2>1, <3>1, JobsSplit DEF Control, EndPhase, RmsDone
  <2>5. running = {} /\ Pool!Queued = {}
    BY <2>4 DEF Given, Control, OnePlace
  <2>6. queue = <<>>
    <3>1. \A n \in 1..Len(queue) : FALSE
      BY <2>5 DEF Pool!Queued
    <3>2. Len(queue) = 0
      BY <3>1, LenProperties DEF TypeOK
    <3>. QED BY <3>2, EmptySeq DEF TypeOK
  <2>7. phase # "closing"
    BY <2>1 DEF Control, EndPhase
  <2>. QED BY <1>0, <2>1, <2>2, <2>3, <2>5, <2>6, <2>7
           DEF TypeOK, Control, DarkPhase, DataPhase, EndPhase, MainStep, Buffers
<1>2. CASE Destroyed
  <2>1. pc = "destroy" /\ pc' = "exit" /\ phase' = "closed" /\ queue' = <<>>
    BY <1>2 DEF Destroyed, Pool!DestroyReturn
  <2>2. Len(queue') = 0 /\ queue' \in Seq(Jobs)
    BY <2>1, EmptySeq
  <2>3. OnePlace'
    BY <1>0, <2>2 DEF Control, OnePlace, QueuedOnce, Pool!Queued
  <2>. QED BY <1>0, <2>1, <2>2, <2>3
           DEF TypeOK, Control, DarkPhase, DataPhase, EndPhase, MainStep, Buffers
<1>. QED BY <1>1, <1>2

LEMMA ThreadControl ==
  ASSUME TypeOK, Control, program' = program, CreateThread \/ JoinThread
  PROVE  TypeOK' /\ Control' /\ MainStep
<1>0. UNCHANGED <<pages, queue, finished, waiters, owed, phase, staffed>> /\ UNCHANGED Buffers
  BY DEF CreateThread, JoinThread, pool, Buffers
<1>1. Pool!Queued' = Pool!Queued /\ (QueuedOnce => QueuedOnce') /\ RmsDone' = RmsDone
  BY <1>0 DEF Pool!Queued, QueuedOnce, RmsDone
<1>2. i \in Nat /\ i \in 0..NumThreads
  BY DEF TypeOK
<1>3. CASE CreateThread
  <2>1. pc = "create" /\ i \in Strips /\ running' = running \union {<<"rms", i>>}
    BY <1>3 DEF CreateThread, Control, DarkPhase
  <2>2. <<"rms", i>> \notin Given /\ <<"rms", i>> \in RmsJobs /\ <<"rms", i>> \in Jobs
    BY <1>2, <2>1, JobsSplit DEF Control, DarkPhase, RmsJobs
  <2>3. OnePlace' /\ Given' = Given \union {<<"rms", i>>}
    BY <1>0, <1>1, <2>1, <2>2 DEF Control, OnePlace, Given
  <2>4. \/ i' = i + 1 /\ i' \in Strips /\ pc' = "create"
        \/ i' = 0 /\ i' \in Strips /\ pc' = "join"
    BY <1>3, <2>1, DataSubAssumption DEF CreateThread, Strips
  <2>5. pc' = "create" => \A t \in Strips : t >= i' => t >= i /\ t # i
    BY <2>1, <2>4 DEF Strips
  <2>6. \A t \in Strips : ~(t < 0)
    BY DEF Strips
  <2>7. DarkPhase'
    BY <1>0, <2>1, <2>2, <2>3, <2>4, <2>5, <2>6 DEF Control, DarkPhase
  <2>8. DataPhase' /\ EndPhase'
    BY <1>0, <1>1, <2>1, <2>4 DEF Control, DataPhase, EndPhase
  <2>9. i' \in 0..NumThreads
    BY <2>4, DataSubAssumption DEF Strips
  <2>. QED BY <1>0, <2>1, <2>2, <2>3, <2>4, <2>7, <2>8, <2>9 DEF TypeOK, Control, MainStep, Buffers
<1>4. CASE JoinThread
  <2>1. /\ pc = "join" /\ i \in Strips /\ <<"rms", i>> \in finished /\ running' = running
        /\ pages = DarkPages \/ (pages = 1 /\ program # "mthread_avg")
        /\ Given \subseteq RmsJobs
        /\ \A t \in Strips : t < i => <<"rms", t>> \in finished
    BY <1>4 DEF JoinThread, Control, DarkPhase, pool
  <2>2. OnePlace' /\ Given' = Given
    BY <1>0, <1>1, <2>1 DEF Control, OnePlace, Given
  <2>3. CASE i + 1 \in Strips
    <3>1. i' = i + 1 /\ pc' = "join"
      BY <1>4, <2>1, <2>3 DEF JoinThread
    <3>2. \A t \in Strips : t < i + 1 => t < i \/ t = i
      BY <1>2 DEF Strips
    <3>3. DarkPhase'
      BY <1>0, <2>1, <2>2, <2>3, <3>1, <3>2 DEF Control, DarkPhase
    <3>4. DataPhase' /\ EndPhase'
      BY <1>0, <1>1, <2>1, <3>1 DEF Control, DataPhase, EndPhase
    <3>5. i' \in 0..NumThreads
      BY <2>3, <3>1, DataSubAssumption DEF Strips
    <3>. QED BY <1>0, <2>1, <2>2, <3>1, <3>3, <3>4, <3>5 DEF TypeOK, Control, MainStep, Buffers
  <2>4. CASE i + 1 \notin Strips
    <3>1. i' = i /\ pc' = "tifSyn"
      BY <1>4, <2>4 DEF JoinThread
    <3>2. \A t \in Strips : t < i \/ t = i
      BY <1>2, <2>1, <2>4, DataSubAssumption DEF Strips
    <3>3. RmsDone
      BY <2>1, <3>2 DEF RmsDone, RmsJobs
    <3>4. program # "data_sub"
      BY <2>1 DEF Control, DarkPhase
    <3>. QED BY <1>0, <1>1, <2>1, <2>2, <3>1, <3>3, <3>4
             DEF TypeOK, Control, DarkPhase, DataPhase, EndPhase, MainStep, Buffers
  <2>. QED BY <2>3, <2>4
<1>. QED BY <1>3, <1>4

-----------------------------------------------------------------------------
(***************************************************************************)
(* What the jobs have computed.                                            *)
(***************************************************************************)
StepDark(t) == step[<<"rms", t>>]
StepData(t) == step[<<"sub", t>>]

\* The statistics of a strip, before, while and after its rms job runs.
StatsNew ==
  \A t \in Strips : <<"rms", t>> \notin running \union finished => StepDark(t) = 0 /\ t \notin final
StatsRunning ==
  \A t \in Strips : <<"rms", t>> \in running =>
    /\ t \notin final /\ StepDark(t) \in 0..(DarkPages + 1)
    /\ StepDark(t) # 0 => \A r \in Rows : stat[t][r] = RowsUpTo(t, r, StepDark(t) - 1)
StatsDone ==
  \A t \in Strips : <<"rms", t>> \in finished =>
    t \in final /\ \A r \in Rows : stat[t][r] = RowsUpTo(t, r, DarkPages)
Statistics == StatsNew /\ StatsRunning /\ StatsDone

\* The output images: what has been written, and by whom.
OutFrom ==
  \A n \in 0..(Length - 1) : out[n] # {} => \E t \in final : \E r \in Rows : n = ImageIndex(t, r, 0)
OutFull ==
  \A t \in final : \A r \in Rows : out[ImageIndex(t, r, 0)] = RowsUpTo(t, r, DarkPages)
Outputs == OutFrom /\ OutFull

\* The result images likewise.
SubSteps ==
  \A t \in Strips : /\ <<"sub", t>> \notin running \union finished => StepData(t) = 0
                    /\ StepData(t) \in 0..(DataPages + 1)
                    /\ <<"sub", t>> \in finished => StepData(t) = DataPages + 1
ResFrom ==
  \A n \in 0..(DataPages * Length - 1) : res[n] # Garbage =>
    \E t \in Strips : \E r \in Rows : \E k \in Nat :
      n = ImageIndex(t, r, k) /\ k + 1 < StepData(t)
RightResult(n, t, r) == res[n].data = n /\ res[n].final /\ res[n].dark = RowsUpTo(t, r, DarkPages)
ResFull ==
  \A t \in Strips : \A r \in Rows : \A k \in Nat :
    k + 1 < StepData(t) => RightResult(ImageIndex(t, r, k), t, r)
Results == SubSteps /\ ResFrom /\ ResFull

Computed == Statistics /\ Outputs /\ Results

LEMMA ComputedKept ==
  ASSUME TypeOK, Computed, UNCHANGED Buffers, OnePlace',
         finished' = finished, running \subseteq running'
  PROVE  Computed'
<1>0. UNCHANGED <<step, stat, final, out, res>>
  BY DEF Buffers
<1>1. \A t \in Strips : StepDark(t)' = StepDark(t) /\ StepData(t)' = StepData(t)
  BY <1>0 DEF StepDark, StepData
<1>2. \A j : j \in running' => j \notin finished
  BY DEF OnePlace
<1>3. StatsNew'
  BY <1>0, <1>1 DEF Computed, Statistics, StatsNew
<1>4. StatsRunning'
  <2>. SUFFICES ASSUME NEW t \in Strips, <<"rms", t>> \in running'
                PROVE  /\ t \notin final' /\ StepDark(t)' \in 0..(DarkPages + 1)
                       /\ StepDark(t)' # 0 =>
                            \A r \in Rows : stat'[t][r] = RowsUpTo(t, r, StepDark(t)' - 1)
    BY <1>0 DEF StatsRunning, RowsUpTo
  <2>1. CASE <<"rms", t>> \in running
    BY <1>0, <1>1, <2>1 DEF Computed, Statistics, StatsRunning
  <2>2. CASE <<"rms", t>> \notin running
    <3>1. StepDark(t) = 0 /\ t \notin final
      BY <1>2, <2>2 DEF Computed, Statistics, StatsNew
    <3>. QED BY <1>0, <1>1, <3>1, DataSubAssumption
  <2>. QED BY <2>1, <2>2
<1>5. StatsDone'
  BY <1>0 DEF Computed, Statistics, StatsDone
<1>6. Outputs'
  BY <1>0 DEF Computed, Outputs, OutFrom, OutFull
<1>7. SubSteps'
  BY <1>0, <1>1 DEF Computed, Results, SubSteps
<1>8. ResFrom' /\ ResFull'
  BY <1>0, <1>1 DEF Computed, Results, ResFrom, ResFull, RightResult
<1>. QED BY <1>3, <1>4, <1>5, <1>6, <1>7, <1>8 DEF Computed, Statistics, Results

LEMMA InitComputed == Init => TypeOK /\ Control /\ Computed
<1>. SUFFICES ASSUME Init PROVE TypeOK /\ Control /\ Computed
  OBVIOUS
<1>1. /\ queue = <<>> /\ running = {} /\ finished = {} /\ waiters = {} /\ phase = "open"
      /\ owed = [c \in {"main"} |-> {}]
  BY DEF Init, Pool!Init
<1>2. Len(queue) = 0 /\ queue \in Seq(Jobs)
  BY <1>1, EmptySeq
<1>3. Given = {} /\ OnePlace
  BY <1>1, <1>2 DEF Given, OnePlace, QueuedOnce, Pool!Queued
<1>4. TypeOK
  <2>1. NoRow \in Nat /\ {NoRow} \in RowSets /\ {} \in RowSets
    BY DataSubAssumption DEF NoRow, RowSets
  <2>2. step \in [Jobs -> 0..(DarkPages + DataPages + 1)]
    BY DataSubAssumption DEF Init
  <2>3. stat \in [Strips -> [Rows -> RowSets]] /\ out \in [0..(Length - 1) -> RowSets]
    BY <2>1 DEF Init
  <2>4. res \in [0..(DataPages * Length - 1) ->
                   [data : Nat, dark : RowSets, final : BOOLEAN, kept : BOOLEAN]]
    BY <2>1 DEF Init, Garbage
  <2>5. 0 \in 0..NumThreads
    BY StripSize
  <2>. QED BY <1>1, <1>2, <2>2, <2>3, <2>4, <2>5 DEF Init, TypeOK
<1>5. Control
  BY <1>1, <1>3 DEF Init, Control, DarkPhase, DataPhase, EndPhase
<1>6. \A t \in Strips : StepDark(t) = 0 /\ StepData(t) = 0 /\ t \notin final
  BY DEF Init, StepDark, StepData, Jobs
<1>7. Statistics
  BY <1>1, <1>6 DEF Statistics, StatsNew, StatsRunning, StatsDone
<1>8. Outputs
  BY DEF Init, Outputs, OutFrom, OutFull
<1>9. Results
  <2>1. \A n \in 0..(DataPages * Length - 1) : res[n] = Garbage
    BY DEF Init
  <2>2. SubSteps
    BY <1>1, <1>6, DataSubAssumption DEF SubSteps
  <2>. QED BY <1>6, <2>1, <2>2 DEF Results, ResFrom, ResFull
<1>. QED BY <1>4, <1>5, <1>7, <1>8, <1>9 DEF Computed

-----------------------------------------------------------------------------
(***************************************************************************)
(* The steps of the jobs.                                                  *)
(***************************************************************************)
LEMMA JobParts ==
  ASSUME TypeOK, NEW j \in running
  PROVE  /\ Strip(j) \in Strips /\ j \in Jobs
         /\ j[1] = "rms" => j = <<"rms", Strip(j)>> /\ j \in RmsJobs
         /\ j[1] = "sub" => j = <<"sub", Strip(j)>> /\ j \in SubJobs
BY DEF TypeOK, Jobs, Strip, RmsJobs, SubJobs

\* A step of one job leaves the others where they are.
LEMMA StepSet ==
  ASSUME TypeOK, NEW j \in Jobs, NEW s, step' = [step EXCEPT ![j] = s]
  PROVE  /\ \A t \in Strips : StepDark(t)' = IF j = <<"rms", t>> THEN s ELSE StepDark(t)
         /\ \A t \in Strips : StepData(t)' = IF j = <<"sub", t>> THEN s ELSE StepData(t)
         /\ s \in 0..(DarkPages + DataPages + 1) =>
              step' \in [Jobs -> 0..(DarkPages + DataPages + 1)]
<1>1. \A t \in Strips : <<"rms", t>> \in Jobs /\ <<"sub", t>> \in Jobs
  BY DEF Jobs
<1>. QED BY <1>1 DEF TypeOK, StepDark, StepData

LEMMA ControlSame ==
  ASSUME Control, UNCHANGED <<program, pc, i, pages, pool>>
  PROVE  Control'
<1>1. /\ Given' = Given /\ RmsDone' = RmsDone /\ (QueuedOnce => QueuedOnce')
      /\ Pool!Queued' = Pool!Queued
  BY DEF pool, Given, RmsDone, QueuedOnce, Pool!Queued
<1>. QED BY <1>1 DEF pool, Control, OnePlace, DarkPhase, DataPhase, EndPhase

\* Jobs of one phase do not disturb what the other phase has computed.
LEMMA DarkKept ==
  ASSUME Statistics, Outputs, UNCHANGED <<stat, final, out>>,
         \A t \in Strips : /\ StepDark(t)' = StepDark(t)
                           /\ <<"rms", t>> \in running' <=> <<"rms", t>> \in running
                           /\ <<"rms", t>> \in finished' <=> <<"rms", t>> \in finished
  PROVE  Statistics' /\ Outputs'
<1>1. Statistics'
  BY DEF Statistics, StatsNew, StatsRunning, StatsDone, RowsUpTo, ImageIndex
<1>2. Outputs'
  BY DEF Outputs, OutFrom, OutFull
<1>. QED BY <1>1, <1>2

LEMMA DataKept ==
  ASSUME Results, res' = res,
         \A t \in Strips : /\ StepData(t)' = StepData(t)
                           /\ <<"sub", t>> \in running' <=> <<"sub", t>> \in running
                           /\ <<"sub", t>> \in finished' <=> <<"sub", t>> \in finished
  PROVE  Results'
<1>1. SubSteps'
  BY DEF Results, SubSteps
<1>2. \A t \in Strips : StepData(t)' = StepData(t)
  OBVIOUS
<1>3. ResFrom'
  <2>1. \A n \in 0..(DataPages * Length - 1) : res'[n] # Garbage =>
          \E t \in Strips : \E r \in Rows : \E k \in Nat :
            n = ImageIndex(t, r, k) /\ k + 1 < StepData(t)'
    BY <1>2 DEF Results, ResFrom
  <2>. QED BY <2>1 DEF ResFrom
<1>4. ResFull'
  BY <1>2 DEF Results, ResFull, RightResult
<1>. QED BY <1>1, <1>3, <1>4 DEF Results

LEMMA RmsInitKeeps ==
  ASSUME TypeOK, Control, Computed, pc # "exit", program' = program,
         NEW j \in running, j[1] = "rms", RmsInit(j)
  PROVE  TypeOK' /\ Control' /\ Computed'
<1>. DEFINE t == Strip(j)
<1>1. t \in Strips /\ j \in Jobs /\ j = <<"rms", t>>
  BY JobParts
<1>2. /\ step[j] = 0 /\ UNCHANGED <<pc, i, pages, pool, final, out, mask, res>>
      /\ stat' = [stat EXCEPT ![t] = [r \in Rows |-> {}]]
      /\ step' = [step EXCEPT ![j] = 1]
  BY DEF RmsInit
<1>. HIDE DEF t
<1>3. Control' /\ UNCHANGED <<running, finished>>
  BY <1>2, ControlSame DEF pool
<1>4. 1 \in 0..(DarkPages + DataPages + 1) /\ 1 \in 0..(DarkPages + 1) /\ 1 - 1 = 0
  BY DataSubAssumption
<1>5. /\ \A u \in Strips : StepDark(u)' = IF u = t THEN 1 ELSE StepDark(u)
      /\ \A u \in Strips : StepData(u)' = StepData(u)
      /\ step' \in [Jobs -> 0..(DarkPages + DataPages + 1)]
  BY <1>1, <1>2, <1>4, StepSet
<1>6. \A u \in Strips : \A r \in Rows : stat'[u][r] = IF u = t THEN {} ELSE stat[u][r]
  BY <1>1, <1>2 DEF TypeOK
<1>7. TypeOK'
  <2>1. stat' \in [Strips -> [Rows -> RowSets]]
    BY <1>1, <1>2 DEF TypeOK, RowSets
  <2>. QED BY <1>2, <1>5, <2>1 DEF TypeOK, pool
<1>8. Results'
  BY <1>2, <1>3, <1>5, DataKept DEF Computed
<1>9. Outputs'
  BY <1>2 DEF Computed, Outputs, OutFrom, OutFull
<1>10. t \notin final /\ <<"rms", t>> \notin finished
  BY <1>1 DEF Computed, Statistics, StatsRunning, Control, OnePlace
<1>11. Statistics'
  <2>1. StatsNew'
    BY <1>1, <1>2, <1>3, <1>5 DEF Computed, Statistics, StatsNew
  <2>2. StatsDone'
    BY <1>2, <1>3, <1>6, <1>10 DEF Computed, Statistics, StatsDone
  <2>3. StatsRunning'
    <3>. SUFFICES ASSUME NEW u \in Strips, <<"rms", u>> \in running
                  PROVE  /\ u \notin final /\ StepDark(u)' \in 0..(DarkPages + 1)
                         /\ StepDark(u)' # 0 =>
                              \A r \in Rows : stat'[u][r] = RowsUpTo(u, r, StepDark(u)' - 1)
      BY <1>2, <1>3 DEF StatsRunning, RowsUpTo
    <3>1. CASE u = t
      BY <1>1, <1>4, <1>5, <1>6, <1>10, <3>1, RowsEmpty
    <3>2. CASE u # t
      BY <1>5, <1>6, <3>2 DEF Computed, Statistics, StatsRunning
    <3>. QED BY <3>1, <3>2
  <2>. QED BY <2>1, <2>2, <2>3 DEF Statistics
<1>. QED BY <1>3, <1>7, <1>8, <1>9, <1>11 DEF Computed

LEMMA RmsOpKeeps ==
  ASSUME TypeOK, Control, Computed, pc # "exit", program' = program,
         NEW j \in running, j[1] = "rms", RmsOp(j)
  PROVE  TypeOK' /\ Control' /\ Computed'
<1>. DEFINE t == Strip(j)
            s == step[j]
<1>1. t \in Strips /\ j \in Jobs /\ j = <<"rms", t>> /\ j \in RmsJobs
  BY JobParts
<1>2. /\ s \in 1..pages /\ UNCHANGED <<pc, i, pages, pool, final, out, mask, res>>
      /\ stat' = [stat EXCEPT ![t] =
                    [r \in Rows |-> stat[t][r] \union {ImageIndex(t, r, s - 1)}]]
      /\ step' = [step EXCEPT ![j] = s + 1]
  BY DEF RmsOp, PageLeft
<1>3. Control' /\ UNCHANGED <<running, finished>>
  BY <1>2, ControlSame DEF pool
<1>4. /\ s \in 1..DarkPages /\ s \in Nat /\ s - 1 \in Nat /\ s - 1 + 1 = s /\ s + 1 - 1 = s
      /\ s + 1 \in 0..(DarkPages + DataPages + 1) /\ s + 1 \in 0..(DarkPages + 1) /\ s # 0
  BY <1>1, <1>2, RunningPhase, DataSubAssumption
<1>5. StepDark(t) = s
  BY <1>1 DEF StepDark
<1>. HIDE DEF t, s
<1>6. /\ \A u \in Strips : StepDark(u)' = IF u = t THEN s + 1 ELSE StepDark(u)
      /\ \A u \in Strips : StepData(u)' = StepData(u)
      /\ step' \in [Jobs -> 0..(DarkPages + DataPages + 1)]
  BY <1>1, <1>2, <1>4, StepSet
<1>7. t \notin final /\ <<"rms", t>> \notin finished
      /\ \A r \in Rows : stat[t][r] = RowsUpTo(t, r, s - 1)
  BY <1>1, <1>4, <1>5 DEF Computed, Statistics, StatsRunning, Control, OnePlace
<1>8. \A r \in Rows : stat[t][r] \union {ImageIndex(t, r, s - 1)} = RowsUpTo(t, r, s)
  BY <1>4, <1>7, RowsStep
<1>9. \A u \in Strips : \A r \in Rows :
        stat'[u][r] = IF u = t THEN RowsUpTo(t, r, s) ELSE stat[u][r]
  BY <1>1, <1>2, <1>8 DEF TypeOK
<1>10. TypeOK'
  <2>1. \A r \in Rows : RowsUpTo(t, r, s) \in RowSets
    BY <1>1, <1>4, RowsDark
  <2>2. [r \in Rows |-> stat[t][r] \union {ImageIndex(t, r, s - 1)}] \in [Rows -> RowSets]
    BY <1>8, <2>1
  <2>3. stat' \in [Strips -> [Rows -> RowSets]]
    BY <1>2, <2>2 DEF TypeOK
  <2>4. RowSets' = RowSets
    BY DEF RowSets, NoRow
  <2>. QED BY <1>2, <1>6, <2>3, <2>4 DEF TypeOK, pool
<1>11. Results'
  BY <1>2, <1>3, <1>6, DataKept DEF Computed
<1>12. Outputs'
  BY <1>2 DEF Computed, Outputs, OutFrom, OutFull
<1>13. Statistics'
  <2>1. StatsNew'
    BY <1>1, <1>2, <1>3, <1>6 DEF Computed, Statistics, StatsNew
  <2>2. StatsDone'
    BY <1>2, <1>3, <1>7, <1>9 DEF Computed, Statistics, StatsDone
  <2>3. StatsRunning'
    <3>. SUFFICES ASSUME NEW u \in Strips, <<"rms", u>> \in running
                  PROVE  /\ u \notin final /\ StepDark(u)' \in 0..(DarkPages + 1)
                         /\ StepDark(u)' # 0 =>
                              \A r \in Rows : stat'[u][r] = RowsUpTo(u, r, StepDark(u)' - 1)
      BY <1>2, <1>3 DEF StatsRunning, RowsUpTo
    <3>1. CASE u = t
      BY <1>4, <1>6, <1>7, <1>9, <3>1
    <3>2. CASE u # t
      BY <1>6, <1>9, <3>2 DEF Computed, Statistics, StatsRunning
    <3>. QED BY <3>1, <3>2
  <2>. QED BY <2>1, <2>2, <2>3 DEF Statistics
<1>. QED BY <1>3, <1>10, <1>11, <1>12, <1>13 DEF Computed

\* A strip's statistics are copied to its own rows of the output images, once.
LEMMA ImageSynKeeps ==
  ASSUME TypeOK, Control, Computed, pc # "exit", program' = program,
         NEW j \in running, j[1] = "rms", ImageSyn(j)
  PROVE  /\ TypeOK' /\ Control' /\ Computed'
         /\ \A n \in DOMAIN out : out[n] # {} => out'[n] = out[n]
         /\ res' = res
<1>. DEFINE t == Strip(j)
            at == {ImageIndex(t, r, 0) : r \in Rows}
<1>1. t \in Strips /\ j \in Jobs /\ j = <<"rms", t>> /\ j \in RmsJobs
  BY JobParts
<1>2. /\ step[j] = pages + 1 /\ UNCHANGED <<staffed, pc, i, pages, step, stat, mask, res>>
      /\ Pool!End(j) /\ final' = final \union {t}
      /\ out' = [n \in DOMAIN out |->
                   IF n \in at THEN stat[t][CHOOSE r \in Rows : ImageIndex(t, r, 0) = n]
                              ELSE out[n]]
      /\ ~(pages = 1 /\ program # "mthread_avg")
  BY DEF ImageSyn, PagesDone, DividesByZero
<1>3. Control' /\ running' = running \ {j} /\ finished' = finished \union {j}
  BY <1>2, EndControl
<1>4. StepDark(t) = DarkPages + 1 /\ DarkPages + 1 # 0 /\ DarkPages + 1 - 1 = DarkPages
  BY <1>1, <1>2, RunningPhase, DataSubAssumption DEF StepDark
<1>5. t \notin final /\ \A r \in Rows : stat[t][r] = RowsUpTo(t, r, DarkPages)
  <2>1. StepDark(t) # 0 /\ StepDark(t) - 1 = DarkPages
    BY <1>4, DataSubAssumption
  <2>2. <<"rms", t>> \in running
    BY <1>1
  <2>3. t \notin final /\ \A r \in Rows : stat[t][r] = RowsUpTo(t, r, StepDark(t) - 1)
    BY <1>1, <2>1, <2>2 DEF Computed, Statistics, StatsRunning
  <2>. QED BY <2>1, <2>3
<1>6. DOMAIN out = 0..(Length - 1)
  BY DEF TypeOK
<1>7. \A r \in Rows : out'[ImageIndex(t, r, 0)] = RowsUpTo(t, r, DarkPages)
  <2>. SUFFICES ASSUME NEW r \in Rows
                PROVE  out'[ImageIndex(t, r, 0)] = RowsUpTo(t, r, DarkPages)
    OBVIOUS
  <2>. DEFINE n == ImageIndex(t, r, 0)
              q == CHOOSE x \in Rows : ImageIndex(t, x, 0) = n
  <2>1. n \in DOMAIN out /\ n \in at
    BY <1>1, <1>6, IndexFirst
  <2>2. q \in Rows /\ ImageIndex(t, q, 0) = n
    OBVIOUS
  <2>3. q = r
    BY <1>1, <2>2, IndexInjective
  <2>4. out'[n] = stat[t][q]
    BY <1>2, <2>1
  <2>. QED BY <1>5, <2>3, <2>4
<1>8. \A u \in Strips : \A r \in Rows : u # t => ImageIndex(u, r, 0) \notin at
  BY <1>1, IndexInjective
<1>9. \A n \in DOMAIN out : n \notin at => out'[n] = out[n]
  BY <1>2
<1>10. \A n \in DOMAIN out : out[n] # {} => n \notin at
  <2>1. \A u \in final : u \in Strips /\ u # t
    BY <1>5 DEF TypeOK
  <2>. QED BY <1>6, <1>8, <2>1 DEF Computed, Outputs, OutFrom
<1>. HIDE DEF t, at
<1>11. OutFull'
  <2>. SUFFICES ASSUME NEW u \in final', NEW r \in Rows
                PROVE  out'[ImageIndex(u, r, 0)] = RowsUpTo(u, r, DarkPages)
    BY DEF OutFull, RowsUpTo, ImageIndex
  <2>1. CASE u = t
    BY <1>7, <2>1
  <2>2. CASE u # t
    <3>1. u \in final /\ u \in Strips
      BY <1>2, <2>2 DEF TypeOK
    <3>2. ImageIndex(u, r, 0) \in DOMAIN out
      BY <1>6, <3>1, IndexFirst
    <3>. QED BY <1>8, <1>9, <2>2, <3>1, <3>2 DEF Computed, Outputs, OutFull
  <2>. QED BY <2>1, <2>2
<1>12. OutFrom'
  <2>. SUFFICES ASSUME NEW n \in 0..(Length - 1), out'[n] # {}
                PROVE  \E u \in final' : \E r \in Rows : n = ImageIndex(u, r, 0)
    BY DEF OutFrom, ImageIndex
  <2>1. CASE n \in at
    BY <1>2, <2>1 DEF at
  <2>2. CASE n \notin at
    BY <1>2, <1>6, <1>9, <2>2 DEF Computed, Outputs, OutFrom
  <2>. QED BY <2>1, <2>2
<1>13. Results'
  <2>1. \A u \in Strips : StepData(u)' = StepData(u)
    BY <1>2 DEF StepData
  <2>2. \A u \in Strips : <<"sub", u>> # j
    BY <1>1
  <2>. QED BY <1>2, <1>3, <2>1, <2>2, DataKept DEF Computed
<1>14. Statistics'
  <2>1. \A u \in Strips : StepDark(u)' = StepDark(u) /\ (<<"rms", u>> = j <=> u = t)
    BY <1>1, <1>2 DEF StepDark
  <2>2. StatsNew'
    BY <1>2, <1>3, <2>1 DEF Computed, Statistics, StatsNew
  <2>3. StatsRunning'
    <3>. SUFFICES ASSUME NEW u \in Strips, <<"rms", u>> \in running'
                  PROVE  /\ u \notin final' /\ StepDark(u) \in 0..(DarkPages + 1)
                         /\ StepDark(u) # 0 =>
                              \A r \in Rows : stat[u][r] = RowsUpTo(u, r, StepDark(u) - 1)
      BY <1>2, <2>1 DEF StatsRunning, RowsUpTo, ImageIndex
    <3>. QED BY <1>2, <1>3, <2>1 DEF Computed, Statistics, StatsRunning
  <2>4. StatsDone'
    <3>. SUFFICES ASSUME NEW u \in Strips, <<"rms", u>> \in finished'
                  PROVE  u \in final' /\ \A r \in Rows : stat[u][r] = RowsUpTo(u, r, DarkPages)
      BY <1>2 DEF StatsDone, RowsUpTo, ImageIndex
    <3>. QED BY <1>2, <1>3, <1>5, <2>1 DEF Computed, Statistics, StatsDone
  <2>. QED BY <2>2, <2>3, <2>4 DEF Statistics
<1>15. TypeOK'
  <2>1. out' \in [0..(Length - 1) -> RowSets]
    <3>1. \A n \in DOMAIN out : out'[n] \in RowSets
      <4>. SUFFICES ASSUME NEW n \in DOMAIN out PROVE out'[n] \in RowSets
        OBVIOUS
      <4>1. CASE n \in at
        <5>1. PICK r \in Rows : n = ImageIndex(t, r, 0)
          BY <4>1 DEF at
        <5>2. DarkPages \in 0..DarkPages
          BY DataSubAssumption
        <5>. QED BY <1>1, <1>7, <5>1, <5>2, RowsDark
      <4>2. CASE n \notin at
        BY <1>6, <1>9, <4>2 DEF TypeOK
      <4>. QED BY <4>1, <4>2
    <3>. QED BY <1>2, <1>6, <3>1
  <2>2. /\ final' \subseteq Strips /\ running' \subseteq Jobs /\ finished' \subseteq Jobs
    BY <1>1, <1>2, <1>3 DEF TypeOK
  <2>3. UNCHANGED <<queue, waiters, owed, phase>>
    BY <1>2 DEF Pool!End
  <2>4. RowSets' = RowSets
    BY DEF RowSets, NoRow
  <2>. QED BY <1>2, <2>1, <2>2, <2>3, <2>4 DEF TypeOK
<1>16. \A n \in DOMAIN out : out[n] # {} => out'[n] = out[n]
  BY <1>9, <1>10
<1>. QED BY <1>2, <1>3, <1>11, <1>12, <1>13, <1>14, <1>15, <1>16 DEF Computed, Outputs

LEMMA MaskInitKeeps ==
  ASSUME TypeOK, Control, Computed, pc # "exit", program' = program,
         NEW j \in running, j[1] = "sub", MaskInit(j)
  PROVE  TypeOK' /\ Control' /\ Computed'
<1>. DEFINE t == Strip(j)
<1>1. t \in Strips /\ j \in Jobs /\ j = <<"sub", t>>
  BY JobParts
<1>2. /\ step[j] = 0 /\ UNCHANGED <<pc, i, pages, pool, stat, final, out, res>>
      /\ mask' = [mask EXCEPT ![t] = [r \in Rows |-> ~(r >= BadFirst /\ r <= BadLast)]]
      /\ step' = [step EXCEPT ![j] = 1]
  BY DEF MaskInit
<1>. HIDE DEF t
<1>3. Control' /\ UNCHANGED <<running, finished>>
  BY <1>2, ControlSame DEF pool
<1>4. 1 \in 0..(DarkPages + DataPages + 1) /\ 1 \in 0..(DataPages + 1)
  BY DataSubAssumption
<1>5. /\ \A u \in Strips : StepDark(u)' = StepDark(u)
      /\ \A u \in Strips : StepData(u)' = IF u = t THEN 1 ELSE StepData(u)
      /\ step' \in [Jobs -> 0..(DarkPages + DataPages + 1)]
  BY <1>1, <1>2, <1>4, StepSet
<1>6. TypeOK'
  <2>1. mask' \in [Strips -> [Rows -> BOOLEAN]]
    BY <1>1, <1>2 DEF TypeOK
  <2>. QED BY <1>2, <1>5, <2>1 DEF TypeOK, pool, RowSets, NoRow
<1>7. Statistics' /\ Outputs'
  BY <1>2, <1>3, <1>5, DarkKept DEF Computed
<1>8. <<"sub", t>> \in running /\ <<"sub", t>> \notin finished /\ StepData(t) = 0
  BY <1>1, <1>2 DEF Control, OnePlace, StepData
<1>9. SubSteps'
  BY <1>3, <1>4, <1>5, <1>8 DEF Computed, Results, SubSteps
<1>10. \A u \in Strips : \A k \in Nat : k + 1 < StepData(u)' <=> k + 1 < StepData(u)
  BY <1>5, <1>8
<1>11. ResFrom'
  <2>1. \A n \in 0..(DataPages * Length - 1) : res'[n] # Garbage =>
          \E u \in Strips : \E r \in Rows : \E k \in Nat :
            n = ImageIndex(u, r, k) /\ k + 1 < StepData(u)'
    BY <1>2, <1>10 DEF Computed, Results, ResFrom
  <2>. QED BY <2>1 DEF ResFrom
<1>12. ResFull'
  BY <1>2, <1>10 DEF Computed, Results, ResFull, RightResult
<1>. QED BY <1>3, <1>6, <1>7, <1>9, <1>11, <1>12 DEF Computed, Results

\* A page of a strip is reduced with complete statistics of its own rows, once.
LEMMA SubOpKeeps ==
  ASSUME TypeOK, Control, Computed, pc # "exit", program' = program,
         NEW j \in running, j[1] = "sub", SubOp(j)
  PROVE  /\ TypeOK' /\ Control' /\ Computed'
         /\ out' = out
         /\ \A n \in DOMAIN res : res[n] # Garbage => res'[n] = res[n]
<1>. DEFINE t == Strip(j)
            s == step[j]
            k == s - 1
            at == {ImageIndex(t, r, k) : r \in Rows}
            Row(n) == CHOOSE r \in Rows : ImageIndex(t, r, k) = n
            New(n) == [data |-> n, dark |-> stat[t][Row(n)],
                       final |-> t \in final, kept |-> mask[t][Row(n)]]
<1>1. t \in Strips /\ j \in Jobs /\ j = <<"sub", t>> /\ j \in SubJobs
  BY JobParts
<1>2. /\ s \in 1..pages /\ UNCHANGED <<pc, i, pages, pool, stat, final, out, mask>>
      /\ res' = [n \in DOMAIN res |-> IF n \in at THEN New(n) ELSE res[n]]
      /\ step' = [step EXCEPT ![j] = s + 1]
  BY DEF SubOp, PageLeft
<1>3. Control' /\ UNCHANGED <<running, finished>>
  BY <1>2, ControlSame DEF pool
<1>4. s \in 1..DataPages /\ RmsDone
  BY <1>1, <1>2, RunningPhase
<1>5. /\ s \in Nat /\ k \in Nat /\ k \in 0..(DataPages - 1) /\ k + 1 = s /\ DataPages \in Nat
      /\ s + 1 \in 0..(DarkPages + DataPages + 1) /\ s + 1 \in 0..(DataPages + 1)
  BY <1>4, DataSubAssumption
<1>6. t \in final /\ \A r \in Rows : stat[t][r] = RowsUpTo(t, r, DarkPages)
  BY <1>1, <1>4 DEF RmsDone, RmsJobs, Computed, Statistics, StatsDone
<1>7. StepData(t) = s
  BY <1>1 DEF StepData
<1>8. DOMAIN res = 0..(DataPages * Length - 1)
  BY DEF TypeOK
<1>9. \A r \in Rows : /\ ImageIndex(t, r, k) \in DOMAIN res /\ ImageIndex(t, r, k) \in at
                      /\ Row(ImageIndex(t, r, k)) = r
  <2>. SUFFICES ASSUME NEW r \in Rows
                PROVE  /\ ImageIndex(t, r, k) \in DOMAIN res /\ ImageIndex(t, r, k) \in at
                       /\ Row(ImageIndex(t, r, k)) = r
    OBVIOUS
  <2>1. ImageIndex(t, r, k) \in DOMAIN res
    BY <1>1, <1>5, <1>8, IndexFits
  <2>2. Row(ImageIndex(t, r, k)) \in Rows
        /\ ImageIndex(t, Row(ImageIndex(t, r, k)), k) = ImageIndex(t, r, k)
    OBVIOUS
  <2>3. Row(ImageIndex(t, r, k)) = r
    BY <1>1, <1>5, <2>2, IndexInjective
  <2>. QED BY <2>1, <2>3
<1>. HIDE DEF Row
<1>10. \A r \in Rows : res'[ImageIndex(t, r, k)] =
                [data |-> ImageIndex(t, r, k), dark |-> RowsUpTo(t, r, DarkPages),
                 final |-> TRUE, kept |-> mask[t][r]]
  BY <1>2, <1>6, <1>9
<1>11. \A n \in DOMAIN res : n \notin at => res'[n] = res[n]
  BY <1>2
<1>12. \A u \in Strips : \A r \in Rows : \A m \in Nat :
         u # t \/ m # k => ImageIndex(u, r, m) \notin at
  BY <1>1, <1>5, IndexInjective
<1>. HIDE DEF t, s, k, at, New
<1>13. \A n \in DOMAIN res : res[n] # Garbage => n \notin at
  <2>. SUFFICES ASSUME NEW n \in DOMAIN res, res[n] # Garbage PROVE n \notin at
    OBVIOUS
  <2>1. PICK u \in Strips, r \in Rows, m \in Nat :
          n = ImageIndex(u, r, m) /\ m + 1 < StepData(u)
    BY <1>8 DEF Computed, Results, ResFrom
  <2>2. u # t \/ m # k
    BY <1>5, <1>7, <2>1
  <2>. QED BY <1>12, <2>1, <2>2
<1>14. /\ \A u \in Strips : StepDark(u)' = StepDark(u)
       /\ \A u \in Strips : StepData(u)' = IF u = t THEN s + 1 ELSE StepData(u)
       /\ step' \in [Jobs -> 0..(DarkPages + DataPages + 1)]
  BY <1>1, <1>2, <1>5, StepSet
<1>15. Statistics' /\ Outputs'
  BY <1>2, <1>3, <1>14, DarkKept DEF Computed
<1>16. SubSteps'
  <2>1. <<"sub", t>> \in running /\ <<"sub", t>> \notin finished
    BY <1>1 DEF Control, OnePlace
  <2>. QED BY <1>3, <1>5, <1>14, <2>1 DEF Computed, Results, SubSteps
<1>17. ResFrom'
  <2>. SUFFICES ASSUME NEW n \in 0..(DataPages * Length - 1), res'[n] # Garbage
                PROVE  \E u \in Strips : \E r \in Rows : \E m \in Nat :
                         n = ImageIndex(u, r, m) /\ m + 1 < StepData(u)'
    BY DEF ResFrom
  <2>1. CASE n \in at
    <3>1. PICK r \in Rows : n = ImageIndex(t, r, k)
      BY <2>1 DEF at
    <3>2. k + 1 < StepData(t)'
      BY <1>1, <1>5, <1>14
    <3>. QED BY <1>1, <1>5, <3>1, <3>2
  <2>2. CASE n \notin at
    <3>1. PICK u \in Strips, r \in Rows, m \in Nat :
            n = ImageIndex(u, r, m) /\ m + 1 < StepData(u)
      BY <1>8, <1>11, <2>2 DEF Computed, Results, ResFrom
    <3>2. m + 1 < StepData(u)'
      BY <1>5, <1>7, <1>14, <3>1
    <3>. QED BY <3>1, <3>2
  <2>. QED BY <2>1, <2>2
<1>18. ResFull'
  <2>. SUFFICES ASSUME NEW u \in Strips, NEW r \in Rows, NEW m \in Nat, m + 1 < StepData(u)'
                PROVE  LET n == ImageIndex(u, r, m)
                       IN  res'[n].data = n /\ res'[n].final
                           /\ res'[n].dark = RowsUpTo(u, r, DarkPages)
    BY DEF ResFull, RightResult, ImageIndex, RowsUpTo
  <2>1. CASE u = t /\ m = k
    <3>1. res'[ImageIndex(u, r, m)] =
            [data |-> ImageIndex(u, r, m), dark |-> RowsUpTo(u, r, DarkPages),
             final |-> TRUE, kept |-> mask[t][r]]
      BY <1>10, <2>1, Zenon
    <3>. QED BY <3>1
  <2>2. CASE u # t \/ m # k
    <3>1. m + 1 < StepData(u)
      BY <1>5, <1>7, <1>14, <2>2
    <3>2. m \in 0..(DataPages - 1)
      <4>1. StepData(u) \in 0..(DataPages + 1)
        BY DEF Computed, Results, SubSteps
      <4>. QED BY <1>5, <3>1, <4>1
    <3>3. ImageIndex(u, r, m) \in DOMAIN res /\ ImageIndex(u, r, m) \notin at
      BY <1>5, <1>8, <1>12, <2>2, <3>2, IndexFits
    <3>4. RightResult(ImageIndex(u, r, m), u, r)
      BY <3>1 DEF Computed, Results, ResFull
    <3>. QED BY <1>11, <3>3, <3>4 DEF RightResult
  <2>. QED BY <2>1, <2>2
<1>19. TypeOK'
  <2>1. \A n \in DOMAIN res :
          res'[n] \in [data : Nat, dark : RowSets, final : BOOLEAN, kept : BOOLEAN]
    <3>. SUFFICES ASSUME NEW n \in DOMAIN res
                  PROVE  res'[n] \in [data : Nat, dark : RowSets, final : BOOLEAN, kept : BOOLEAN]
      OBVIOUS
    <3>1. CASE n \in at
      <4>1. PICK r \in Rows : n = ImageIndex(t, r, k)
        BY <3>1 DEF at
      <4>2. RowsUpTo(t, r, DarkPages) \in RowSets /\ mask[t][r] \in BOOLEAN
        BY <1>1, RowsDark, DataSubAssumption DEF TypeOK
      <4>3. n \in Nat
        BY <1>8
      <4>4. res'[n] = [data |-> n, dark |-> RowsUpTo(t, r, DarkPages),
                       final |-> TRUE, kept |-> mask[t][r]]
        BY <1>10, <4>1, Zenon
      <4>. QED BY <4>2, <4>3, <4>4
    <3>2. CASE n \notin at
      BY <1>8, <1>11, <3>2 DEF TypeOK
    <3>. QED BY <3>1, <3>2
  <2>2. res' \in [0..(DataPages * Length - 1) ->
                    [data : Nat, dark : RowSets, final : BOOLEAN, kept : BOOLEAN]]
    BY <1>2, <1>8, <2>1
  <2>3. RowSets' = RowSets
    BY DEF RowSets, NoRow
  <2>. QED BY <1>2, <1>14, <2>2, <2>3 DEF TypeOK, pool
<1>20. \A n \in DOMAIN res : res[n] # Garbage => res'[n] = res[n]
  BY <1>11, <1>13
<1>. QED BY <1>2, <1>3, <1>15, <1>16, <1>17, <1>18, <1>19, <1>20 DEF Computed, Results

LEMMA SubEndsKeeps ==
  ASSUME TypeOK, Control, Computed, pc # "exit", program' = program,
         NEW j \in running, j[1] = "sub", SubEnds(j)
  PROVE  TypeOK' /\ Control' /\ Computed'
<1>. DEFINE t == Strip(j)
<1>1. t \in Strips /\ j \in Jobs /\ j = <<"sub", t>> /\ j \in SubJobs
  BY JobParts
<1>2. /\ step[j] = pages + 1
      /\ UNCHANGED <<staffed, pc, i, pages, step, stat, final, out, mask, res>>
      /\ Pool!End(j)
  BY DEF SubEnds, PagesDone
<1>3. Control' /\ running' = running \ {j} /\ finished' = finished \union {j}
  BY <1>2, EndControl
<1>4. StepData(t) = DataPages + 1
  BY <1>1, <1>2, RunningPhase DEF StepData
<1>. HIDE DEF t
<1>5. \A u \in Strips : /\ StepDark(u)' = StepDark(u) /\ StepData(u)' = StepData(u)
                        /\ <<"rms", u>> # j /\ (<<"sub", u>> = j <=> u = t)
  BY <1>1, <1>2 DEF StepDark, StepData
<1>6. Statistics' /\ Outputs'
  BY <1>2, <1>3, <1>5, DarkKept DEF Computed
<1>7. SubSteps'
  BY <1>3, <1>4, <1>5 DEF Computed, Results, SubSteps
<1>8. ResFrom'
  <2>1. \A n \in 0..(DataPages * Length - 1) : res'[n] # Garbage =>
          \E u \in Strips : \E r \in Rows : \E k \in Nat :
            n = ImageIndex(u, r, k) /\ k + 1 < StepData(u)'
    BY <1>2, <1>5 DEF Computed, Results, ResFrom
  <2>. QED BY <2>1 DEF ResFrom
<1>9. ResFull'
  BY <1>2, <1>5 DEF Computed, Results, ResFull, RightResult
<1>10. TypeOK'
  <2>1. running' \subseteq Jobs /\ finished' \subseteq Jobs
    BY <1>1, <1>3 DEF TypeOK
  <2>. QED BY <1>2, <2>1 DEF TypeOK, Pool!End, RowSets, NoRow
<1>. QED BY <1>3, <1>6, <1>7, <1>8, <1>9, <1>10 DEF Computed, Results

-----------------------------------------------------------------------------
(***************************************************************************)
(* The inductive invariant.                                                *)
(***************************************************************************)
IInv == TypeOK /\ Control /\ Computed

LEMMA MainKeeps ==
  ASSUME IInv, Main \/ Failure
  PROVE  IInv' /\ UNCHANGED <<out, res>>
<1>1. TypeOK' /\ Control' /\ MainStep
  <2>1. CASE LoadDark \/ LoadData
    BY <2>1, LoadControl DEF IInv, Main, Failure
  <2>2. CASE QueueRms
    BY <2>2, QueueRmsControl DEF IInv, Main, Failure
  <2>3. CASE QueueSub
    BY <2>3, QueueSubControl DEF IInv, Main, Failure
  <2>4. CASE WaitRms \/ WaitSub
    BY <2>4, WaitControl DEF IInv, Main, Failure
  <2>5. CASE TifSyn \/ Destroyed
    BY <2>5, EndingControl DEF IInv, Main, Failure
  <2>6. CASE CreateThread \/ JoinThread
    BY <2>6, ThreadControl DEF IInv, Main, Failure
  <2>7. CASE OpenFails \/ QueueFails \/ WriteFails \/ CreateFails
    BY <2>7, FailureControl DEF IInv, Main, Failure
  <2>. QED BY <2>1, <2>2, <2>3, <2>4, <2>5, <2>6, <2>7 DEF Main, Failure
<1>2. Computed'
  BY <1>1, ComputedKept DEF IInv, MainStep, Control
<1>. QED BY <1>1, <1>2 DEF IInv, MainStep, Buffers

LEMMA StartKeeps ==
  ASSUME IInv, StartJob
  PROVE  IInv' /\ UNCHANGED <<out, res>>
<1>1. Control' /\ running \subseteq running' /\ finished' = finished /\ running' \subseteq Jobs
  BY StartControl DEF IInv
<1>2. /\ UNCHANGED <<program, pc, i, pages, finished, waiters, owed, phase, staffed>>
      /\ UNCHANGED Buffers
      /\ queue # <<>> /\ queue' = Tail(queue)
  BY DEF StartJob, Pool!Start, Buffers
<1>3. queue' \in Seq(Jobs)
  BY <1>2, HeadTailProperties DEF IInv, TypeOK
<1>4. TypeOK'
  BY <1>1, <1>2, <1>3 DEF IInv, TypeOK, Buffers, RowSets, NoRow
<1>5. Computed'
  BY <1>1, <1>2, ComputedKept DEF IInv, Control
<1>. QED BY <1>1, <1>2, <1>4, <1>5 DEF IInv, Buffers

\* What has been written to the images is not written again.
Kept == /\ \A r \in DOMAIN out : out[r] # {} => out'[r] = out[r]
        /\ \A n \in DOMAIN res : res[n] # Garbage => res'[n] = res[n]

LEMMA JobKeeps ==
  ASSUME IInv, NEW j \in Jobs, JobStep(j)
  PROVE  IInv' /\ Kept
<1>. USE DEF JobStep, IInv
<1>1. CASE j[1] = "rms" /\ RmsInit(j)
  BY <1>1, RmsInitKeeps DEF RmsInit, Kept
<1>2. CASE j[1] = "rms" /\ RmsOp(j)
  BY <1>2, RmsOpKeeps DEF RmsOp, Kept
<1>3. CASE j[1] = "rms" /\ ImageSyn(j)
  BY <1>3, ImageSynKeeps DEF Kept
<1>4. CASE j[1] = "sub" /\ MaskInit(j)
  BY <1>4, MaskInitKeeps DEF MaskInit, Kept
<1>5. CASE j[1] = "sub" /\ SubOp(j)
  BY <1>5, SubOpKeeps DEF Kept
<1>6. CASE j[1] = "sub" /\ SubEnds(j)
  BY <1>6, SubEndsKeeps DEF SubEnds, Kept
<1>7. CASE j[1] = "rms" /\ ImageSynKills(j)
  <2>1. ProcessDies
    BY <1>7 DEF ImageSynKills, ProcessDies, Buffers, Control, EndPhase
  <2>2. TypeOK' /\ Control' /\ MainStep
    BY <2>1, DeathControl
  <2>3. Computed'
    BY <2>2, ComputedKept DEF MainStep, Control
  <2>. QED BY <2>2, <2>3 DEF Kept, MainStep, Buffers
<1>. QED BY <1>1, <1>2, <1>3, <1>4, <1>5, <1>6, <1>7

LEMMA StepKeeps ==
  ASSUME IInv, [Next]_vars
  PROVE  IInv' /\ Kept
<1>1. CASE Main \/ Failure
  BY <1>1, MainKeeps DEF Kept
<1>2. CASE StartJob
  BY <1>2, StartKeeps DEF Kept
<1>3. CASE \E j \in Jobs : JobStep(j)
  BY <1>3, JobKeeps
<1>4. CASE UNCHANGED vars
  <2>1. Control'
    BY <1>4, ControlSame DEF vars, IInv
  <2>2. UNCHANGED Buffers /\ UNCHANGED <<finished, running>>
    BY <1>4 DEF vars, pool, Buffers
  <2>3. Computed'
    BY <2>1, <2>2, ComputedKept DEF IInv, Control
  <2>4. TypeOK'
    BY <1>4 DEF vars, pool, IInv, TypeOK, RowSets, NoRow
  <2>. QED BY <2>1, <2>2, <2>3, <2>4 DEF IInv, Kept, Buffers
<1>. QED BY <1>1, <1>2, <1>3, <1>4 DEF Next, Terminated

LEMMA Inductive == Spec => []IInv
<1>1. Init => IInv
  BY InitComputed DEF IInv
<1>2. IInv /\ [Next]_vars => IInv'
  BY StepKeeps
<1>. QED BY <1>1, <1>2, PTL DEF Spec

-----------------------------------------------------------------------------
\* The globals, the pool and the buffers of the reduction keep their types.
THEOREM TypeCorrect == Spec => []TypeOK
<1>1. IInv => TypeOK
  BY DEF IInv
<1>. QED BY <1>1, Inductive, PTL

\* sub_op only ever computes from complete dark statistics of the row it is
\* reducing: the wait between the phases is enough, whatever the pool's schedule.
THEOREM ResultsFromSameRow == Spec => []ResultsUseSameRow
<1>1. IInv => ResultsUseSameRow
  <2>. SUFFICES ASSUME IInv, NEW n \in DOMAIN res, res[n] # Garbage
                PROVE  res[n].data = n /\ res[n].final /\ res[n].dark = DarkRows(n % Length)
    BY DEF ResultsUseSameRow
  <2>1. n \in 0..(DataPages * Length - 1)
    BY DEF IInv, TypeOK
  <2>2. PICK t \in Strips, r \in Rows, k \in Nat :
          n = ImageIndex(t, r, k) /\ k + 1 < StepData(t)
    BY <2>1 DEF IInv, Computed, Results, ResFrom
  <2>3. RightResult(n, t, r)
    BY <2>2 DEF IInv, Computed, Results, ResFull
  <2>4. DarkRows(n % Length) = RowsUpTo(t, r, DarkPages)
    BY <2>2, IndexDark
  <2>. QED BY <2>3, <2>4 DEF RightResult
<1>. QED BY <1>1, Inductive, PTL

\* No row of the images is written by two jobs, or twice by one: the strips that
\* image_index gives to the jobs are disjoint, page by page.
THEOREM WritesDisjoint == Spec => WrittenOnce
<1>1. IInv /\ [Next]_vars => [Kept]_vars
  BY StepKeeps
<1>. QED BY <1>1, Inductive, PTL DEF Spec, WrittenOnce, Kept

\* The pool is destroyed only when it has nothing left to do.
THEOREM DestroyedWhenIdle == Spec => []DestroyedIdle
<1>1. IInv => DestroyedIdle
  BY DEF IInv, Control, EndPhase, DestroyedIdle
<1>. QED BY <1>1, Inductive, PTL

\* If the strips cover the image, every row of the files has been computed when
\* they are written.
THEOREM FilesWhole == ASSUME Length % NumThreads = 0 PROVE Spec => []FilesComplete
<1>1. \A x \in 0..(Length - 1) : \E t \in Strips, r \in Rows : x = r + t * BufferLength
  <2>. SUFFICES ASSUME NEW x \in 0..(Length - 1)
                PROVE  \E t \in Strips, r \in Rows : x = r + t * BufferLength
    OBVIOUS
  <2>. DEFINE b == BufferLength
              t == x \div b
              r == x % b
  <2>1. b \in Nat \ {0} /\ NumThreads \in Nat \ {0} /\ Length \in Nat
    BY StripSize, DataSubAssumption
  <2>2. Length = NumThreads * b
    <3>. DEFINE q == Length \div NumThreads
                m == Length % NumThreads
    <3>1. q \in Int /\ m \in 0..(NumThreads - 1) /\ Length = NumThreads * q + m
      BY <2>1
    <3>2. m = 0 /\ b = q
      BY DEF BufferLength
    <3>. HIDE DEF q, m, b
    <3>. QED BY <2>1, <3>1, <3>2
  <2>. HIDE DEF b
  <2>3. x \in Nat /\ t \in Int /\ r \in 0..(b - 1) /\ x = b * t + r
    BY <2>1
  <2>. HIDE DEF t, r
  <2>4. t >= NumThreads => b * (t - NumThreads) >= 0
    BY <2>1, <2>3
  <2>5. t < 0 => b * (0 - t - 1) >= 0
    BY <2>1, <2>3
  <2>6. b * (t - NumThreads) = b * t - NumThreads * b /\ b * (0 - t - 1) = 0 - b * t - b
    BY <2>1, <2>3
  <2>7. t \in Strips
    BY <2>1, <2>2, <2>3, <2>4, <2>5, <2>6 DEF Strips
  <2>8. r \in Rows /\ x = r + t * b
    BY <2>1, <2>3 DEF Rows, b
  <2>. QED BY <2>7, <2>8 DEF b
<1>2. IInv => FilesComplete
  <2>. SUFFICES ASSUME IInv, pc = "tifSyn"
                PROVE  /\ \A n \in DOMAIN out : out[n] # {}
                       /\ program = "data_sub" => \A n \in DOMAIN res : res[n] # Garbage
    BY DEF FilesComplete
  <2>1. \A t \in Strips : t \in final
    <3>1. \A t \in Strips : <<"rms", t>> \in finished
      BY DEF IInv, Control, EndPhase, RmsDone, RmsJobs
    <3>. QED BY <3>1 DEF IInv, Computed, Statistics, StatsDone
  <2>2. ASSUME NEW n \in DOMAIN out PROVE out[n] # {}
    <3>1. n \in 0..(Length - 1)
      BY DEF IInv, TypeOK
    <3>2. PICK t \in Strips, r \in Rows : n = r + t * BufferLength
      BY <1>1, <3>1
    <3>3. n = ImageIndex(t, r, 0)
      BY <3>2, IndexFirst
    <3>4. out[ImageIndex(t, r, 0)] = RowsUpTo(t, r, DarkPages)
      BY <2>1 DEF IInv, Computed, Outputs, OutFull
    <3>. QED BY <3>3, <3>4, RowsDark
  <2>3. ASSUME program = "data_sub", NEW n \in DOMAIN res PROVE res[n] # Garbage
    <3>. DEFINE k == n \div Length
                x == n % Length
    <3>1. n \in 0..(DataPages * Length - 1) /\ DataPages \in Nat /\ Length \in Nat \ {0}
      BY DataSubAssumption DEF IInv, TypeOK
    <3>2. n \in Nat /\ k \in Int /\ x \in 0..(Length - 1) /\ n = Length * k + x
          /\ n < DataPages * Length
      BY <3>1
    <3>. HIDE DEF k, x
    <3>3. k >= DataPages => Length * (k - DataPages) >= 0
      BY <3>1, <3>2
    <3>4. k < 0 => Length * (0 - k - 1) >= 0
      BY <3>1, <3>2
    <3>5. /\ Length * (k - DataPages) = Length * k - DataPages * Length
          /\ Length * (0 - k - 1) = 0 - Length * k - Length
      BY <3>1, <3>2
    <3>6. k \in 0..(DataPages - 1)
      BY <3>1, <3>2, <3>3, <3>4, <3>5
    <3>7. PICK t \in Strips, r \in Rows : x = r + t * BufferLength
      BY <1>1, <3>2
    <3>8. n = ImageIndex(t, r, k)
      BY <3>1, <3>2, <3>6, <3>7 DEF ImageIndex
    <3>9. StepData(t) = DataPages + 1
      BY <2>3 DEF IInv, Control, EndPhase, SubJobs, Computed, Results, SubSteps
    <3>10. k \in Nat /\ k + 1 < StepData(t)
      BY <3>1, <3>6, <3>9
    <3>11. RightResult(n, t, r)
      BY <3>8, <3>10 DEF IInv, Computed, Results, ResFull
    <3>12. Garbage.final = FALSE
      BY DEF Garbage
    <3>. QED BY <3>11, <3>12 DEF RightResult
  <2>. QED BY <2>2, <2>3
<1>. QED BY <1>2, Inductive, PTL
=============================================================================
