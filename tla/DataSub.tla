------------------------------- MODULE DataSub ------------------------------
(***************************************************************************)
(* The reduction programs.  ctest/data_sub works on top of the job pool: a *)
(* main thread loads a sequence of dark images, queues one rms job per     *)
(* strip of rows, waits, loads the data images, queues one sub job per     *)
(* strip, waits, writes the result files and destroys the pool.            *)
(* ctest/dark_rms stops after the dark images.  ctest/mthread_dark_rms and *)
(* mthread_dark_avg do the same with a thread per strip instead of a pool; *)
(* the latter computes averages only.                                      *)
(*                                                                         *)
(* The pool is the abstract one of JobPool, which ThrPool implements, and  *)
(* a bit that says whether it has got a worker: thr_pool_queue succeeds    *)
(* even if its pthread_create fails.  A row of pixels is one unit of data: *)
(* images are arrays of rows, page after page, as in memory, and instead   *)
(* of pixel values the buffers hold which rows a value was computed from.  *)
(* Dark and data images have the same size; the program does not check it. *)
(***************************************************************************)
EXTENDS Naturals, Sequences, FiniteSets

CONSTANTS
  Programs,    \* the programs considered
  NumThreads,  \* NUM_PROCESS_THREADS: strips, and jobs of a phase
  MaxThread,   \* MAX_THREAD: the pool's maximum
  Length,      \* rows of an image (info->length)
  DarkPages, DataPages,  \* images in each file; the dark one may also have one only
  BadFirst, BadLast      \* y_low_bound, y_high_bound: rows of the bad strip

ASSUME DataSubAssumption ==
  /\ Programs \subseteq {"data_sub", "dark_rms", "mthread_rms", "mthread_avg"}
  /\ NumThreads \in 1..MaxThread /\ MaxThread \in Nat
  /\ Length \in Nat \ {0} /\ NumThreads <= Length
  /\ DarkPages \in Nat \ {0} /\ DataPages \in Nat \ {0}
  /\ BadFirst \in Nat /\ BadLast \in Nat

VARIABLES
  program,     \* the program that runs, never changed
  pc,          \* where the main thread is
  i,           \* the next strip to queue, or the thread to create or join
  pages,       \* set by tif_info for the file being read
  queue, running, finished, waiters, owed, phase,  \* the pool; without a pool,
               \* running and finished are the threads that exist and have exited
  staffed,     \* has the pool a worker?  The last one never leaves (pool_minimum 1)
  step,        \* how far each job has come
  stat,        \* avg_buffer and rms_buffer: the dark rows in each strip's rows
  final,       \* strips whose sums image_syn has turned into statistics
  out,         \* output_image_avg and output_image_std
  mask,        \* mask_buffer: is the pixel kept?
  res          \* res_image

pool == <<queue, running, finished, waiters, owed, phase, staffed>>
vars == <<program, pc, i, pages, pool, step, stat, final, out, mask, res>>

Strips == 0..(NumThreads - 1)
Jobs == {"rms", "sub"} \X Strips
Strip(j) == j[2]
HasPool == program \in {"data_sub", "dark_rms"}

Pool == INSTANCE JobPool WITH Clients <- {"main"}, Maximum <- MaxThread

\* tif_info: buffer_length, the rows of a strip
BufferLength == Length \div NumThreads
Rows == 0..(BufferLength - 1)

\* image_index: row r of strip t of page k, counted in rows
Bug_ImageIndex(t, r, k) == r + t * (BufferLength - 1) + k * Length
ImageIndex(t, r, k) == r + t * BufferLength + k * Length

\* What malloc leaves in the statistics and in res_image.
NoRow == DarkPages * Length
Garbage == [data |-> 0, dark |-> {}, final |-> FALSE, kept |-> FALSE]

Init ==
  /\ program \in Programs
  /\ pc = "loadDark" /\ i = 0 /\ pages = 0
  /\ Pool!Init /\ staffed = FALSE
  /\ step = [j \in Jobs |-> 0]
  /\ stat = [t \in Strips |-> [r \in Rows |-> {NoRow}]]
  /\ final = {}
  /\ out = [r \in 0..(Length - 1) |-> {}]
  /\ mask = [t \in Strips |-> [r \in Rows |-> TRUE]]
  /\ res = [n \in 0..(DataPages * Length - 1) |-> Garbage]

(***************************************************************************)
(* The main thread.                                                        *)
(***************************************************************************)
\* A dark file of a single image is a case of its own, save for mthread_dark_avg,
\* which treats it as any other.
DarkFiles == {DarkPages} \union (IF program = "mthread_avg" THEN {} ELSE {1})

LoadDark ==
  /\ pc = "loadDark"
  /\ pages' \in DarkFiles /\ i' = 0
  /\ pc' = IF HasPool THEN "queueRms" ELSE "create"
  /\ UNCHANGED <<pool, step, stat, final, out, mask, res>>

\* The data image replaces the globals that describe the dark one.
LoadData ==
  /\ pc = "loadData"
  /\ pages' = DataPages /\ i' = 0 /\ pc' = "queueSub"
  /\ UNCHANGED <<pool, step, stat, final, out, mask, res>>

\* tif_info: a file that cannot be opened ends the process.
OpenFails ==
  /\ pc \in {"loadDark", "loadData"}
  /\ pc' = "exit"
  /\ UNCHANGED <<i, pages, pool, step, stat, final, out, mask, res>>

\* One turn of a loop of thr_pool_queue, or the call of thr_pool_wait after it.
\* The job is queued whether or not a worker can be created for it.
QueueLoop(here, func, next) ==
  /\ pc = here
  /\ \/ /\ i \in Strips
        /\ Pool!Enqueue(<<func, i>>) /\ staffed' \in {TRUE, staffed}
        /\ i' = i + 1 /\ UNCHANGED pc
     \/ /\ i \notin Strips
        /\ Pool!WaitCall("main") /\ UNCHANGED staffed
        /\ pc' = next /\ UNCHANGED i
  /\ UNCHANGED <<pages, step, stat, final, out, mask, res>>

QueueRms == QueueLoop("queueRms", "rms", "waitRms")
QueueSub == QueueLoop("queueSub", "sub", "waitSub")

\* thr_pool_queue returns -1, having no memory for the job: the process ends.
QueueFails ==
  /\ pc \in {"queueRms", "queueSub"} /\ i \in Strips
  /\ pc' = "exit"
  /\ UNCHANGED <<i, pages, pool, step, stat, final, out, mask, res>>

WaitReturn(here, next) ==
  /\ pc = here
  /\ Pool!WaitReturn("main")
  /\ pc' = next
  /\ UNCHANGED <<staffed, i, pages, step, stat, final, out, mask, res>>

Bug_NoWait(here, next) ==
  /\ pc = here
  /\ pc' = next
  /\ waiters' = {} /\ UNCHANGED <<queue, running, finished, owed, phase, staffed>>
  /\ UNCHANGED <<i, pages, step, stat, final, out, mask, res>>
AfterDark == IF program = "data_sub" THEN "loadData" ELSE "tifSyn"
Bug_WaitRms == Bug_NoWait("waitRms", AfterDark)
WaitRms == WaitReturn("waitRms", AfterDark)
Bug_WaitSub == Bug_NoWait("waitSub", "tifSyn")
WaitSub == WaitReturn("waitSub", "tifSyn")

\* tif_syn writes the files; then the pool is destroyed, if there is one.
TifSyn ==
  /\ pc = "tifSyn"
  /\ \/ HasPool /\ Pool!DestroyCall /\ UNCHANGED staffed /\ pc' = "destroy"
     \/ ~HasPool /\ UNCHANGED pool /\ pc' = "exit"
  /\ UNCHANGED <<i, pages, step, stat, final, out, mask, res>>

\* A file that cannot be opened for writing ends the process.
WriteFails ==
  /\ pc = "tifSyn"
  /\ pc' = "exit"
  /\ UNCHANGED <<i, pages, pool, step, stat, final, out, mask, res>>

Destroyed ==
  /\ pc = "destroy"
  /\ Pool!DestroyReturn
  /\ pc' = "exit"
  /\ UNCHANGED <<staffed, i, pages, step, stat, final, out, mask, res>>

(***************************************************************************)
(* The main thread of the programs without a pool.                         *)
(***************************************************************************)

\* One turn of the pthread_create loop.
CreateThread ==
  /\ pc = "create"
  /\ running' = running \union {<<"rms", i>>}
  /\ IF i + 1 \in Strips THEN i' = i + 1 /\ UNCHANGED pc
                        ELSE i' = 0 /\ pc' = "join"
  /\ UNCHANGED <<pages, queue, finished, waiters, owed, phase, staffed, step, stat, final, out, mask, res>>

\* A failure ends the process, and the threads it has with it.
Bug_CreateFails ==
  /\ pc = "create"
  /\ IF i + 1 \in Strips THEN i' = i + 1 /\ UNCHANGED pc
                        ELSE i' = 0 /\ pc' = "join"
  /\ UNCHANGED <<pages, pool, step, stat, final, out, mask, res>>
CreateFails ==
  /\ pc = "create"
  /\ pc' = "exit"
  /\ UNCHANGED <<i, pages, pool, step, stat, final, out, mask, res>>

\* One turn of the pthread_join loop.
JoinThread ==
  /\ pc = "join" /\ <<"rms", i>> \in finished
  /\ IF i + 1 \in Strips THEN i' = i + 1 /\ UNCHANGED pc
                        ELSE pc' = "tifSyn" /\ UNCHANGED i
  /\ UNCHANGED <<pages, pool, step, stat, final, out, mask, res>>

(***************************************************************************)
(* Jobs.  A step of a job is one pass of a loop nest over the strip.       *)
(***************************************************************************)
\* A worker takes a job, if there is one.
StartJob ==
  /\ pc # "exit" /\ staffed
  /\ Pool!Start
  /\ UNCHANGED <<staffed, program, pc, i, pages, step, stat, final, out, mask, res>>

\* rms_init
RmsInit(j) ==
  /\ step[j] = 0
  /\ stat' = [stat EXCEPT ![Strip(j)] = [r \in Rows |-> {}]]
  /\ step' = [step EXCEPT ![j] = 1]
  /\ UNCHANGED <<pc, i, pages, pool, final, out, mask, res>>

\* rms_op: page 0 goes to dk0, the others into the sums.
PageLeft(j) == step[j] \in 1..pages
RmsOp(j) ==
  /\ PageLeft(j)
  /\ LET t == Strip(j)
         k == step[j] - 1
     IN  stat' = [stat EXCEPT ![t] =
                    [r \in Rows |-> stat[t][r] \union {ImageIndex(t, r, k)}]]
  /\ step' = [step EXCEPT ![j] = @ + 1]
  /\ UNCHANGED <<pc, i, pages, pool, final, out, mask, res>>

\* The loop over the pages is over.
PagesDone(j) == step[j] = pages + 1

\* image_syn divides by pages - 1, except in mthread_dark_avg: with one dark page
\* the first job to get there kills the process.
DividesByZero == pages = 1 /\ program # "mthread_avg"
ImageSynKills(j) ==
  /\ PagesDone(j) /\ DividesByZero
  /\ pc' = "exit"
  /\ UNCHANGED <<i, pages, pool, step, stat, final, out, mask, res>>

\* image_syn: the sums become statistics and are copied to the output images.
ImageSyn(j) ==
  /\ PagesDone(j) /\ ~DividesByZero
  /\ LET t == Strip(j)
         at == {ImageIndex(t, r, 0) : r \in Rows}
     IN  /\ final' = final \union {t}
         /\ out' = [n \in DOMAIN out |->
                      IF n \in at
                      THEN stat[t][CHOOSE r \in Rows : ImageIndex(t, r, 0) = n]
                      ELSE out[n]]
  /\ Pool!End(j)
  /\ UNCHANGED <<staffed, pc, i, pages, step, stat, mask, res>>

\* mask_init: the bounds are compared with the row within the strip.
MaskInit(j) ==
  /\ step[j] = 0
  /\ mask' = [mask EXCEPT ![Strip(j)] = [r \in Rows |-> ~(r >= BadFirst /\ r <= BadLast)]]
  /\ step' = [step EXCEPT ![j] = 1]
  /\ UNCHANGED <<pc, i, pages, pool, stat, final, out, res>>

\* sub_op: one page reduced with the strip's dark statistics and its mask.
SubOp(j) ==
  /\ PageLeft(j)
  /\ LET t == Strip(j)
         k == step[j] - 1
         at == {ImageIndex(t, r, k) : r \in Rows}
         Row(n) == CHOOSE r \in Rows : ImageIndex(t, r, k) = n
     IN  res' = [n \in DOMAIN res |->
                   IF n \in at
                   THEN [data |-> n, dark |-> stat[t][Row(n)],
                         final |-> t \in final, kept |-> mask[t][Row(n)]]
                   ELSE res[n]]
  /\ step' = [step EXCEPT ![j] = @ + 1]
  /\ UNCHANGED <<pc, i, pages, pool, stat, final, out, mask>>

SubEnds(j) ==
  /\ PagesDone(j)
  /\ Pool!End(j)
  /\ UNCHANGED <<staffed, pc, i, pages, step, stat, final, out, mask, res>>

JobStep(j) ==
  /\ pc # "exit" /\ j \in running
  /\ \/ j[1] = "rms" /\ (RmsInit(j) \/ RmsOp(j) \/ ImageSyn(j) \/ ImageSynKills(j))
     \/ j[1] = "sub" /\ (MaskInit(j) \/ SubOp(j) \/ SubEnds(j))
  /\ UNCHANGED program

\* The main thread waits for jobs that nobody will perform: pthread_create has
\* failed for every job queued.
Unserved == pc \in {"waitRms", "waitSub"} /\ queue # <<>> /\ ~staffed

Terminated == (pc = "exit" \/ Unserved) /\ UNCHANGED vars

-----------------------------------------------------------------------------
Main == /\ \/ LoadDark \/ LoadData \/ QueueRms \/ QueueSub \/ WaitRms \/ WaitSub
           \/ TifSyn \/ Destroyed \/ CreateThread \/ JoinThread
        /\ UNCHANGED program

Failure == /\ OpenFails \/ QueueFails \/ WriteFails \/ CreateFails
           /\ UNCHANGED program

Next == Main \/ Failure \/ StartJob \/ (\E j \in Jobs : JobStep(j)) \/ Terminated

Spec == Init /\ [][Next]_vars

\* The main thread and the workers run; a pool with a worker starts its jobs
\* (JobPool's FairSpec, which ThrPool implements).
FairSpec == /\ Spec
            /\ WF_vars(Main) /\ WF_vars(StartJob)
            /\ \A j \in Jobs : WF_vars(JobStep(j))

-----------------------------------------------------------------------------
(***************************************************************************)
(* Correctness.                                                            *)
(***************************************************************************)
DarkRows(r) == {r + k * Length : k \in 0..(DarkPages - 1)}

\* The type of every variable.
RowSets == SUBSET (0..NoRow)
TypeOK ==
  /\ program \in Programs
  /\ pc \in {"loadDark", "create", "join", "queueRms", "waitRms", "loadData", "queueSub",
             "waitSub", "tifSyn", "destroy", "exit"}
  /\ i \in 0..NumThreads /\ pages \in {0, 1, DarkPages, DataPages}
  /\ queue \in Seq(Jobs) /\ running \subseteq Jobs /\ finished \subseteq Jobs
  /\ waiters \subseteq {"main"} /\ owed \in [{"main"} -> SUBSET Jobs]
  /\ phase \in {"open", "closing", "closed"} /\ staffed \in BOOLEAN
  /\ step \in [Jobs -> 0..(DarkPages + DataPages + 1)]
  /\ stat \in [Strips -> [Rows -> RowSets]]
  /\ final \subseteq Strips
  /\ out \in [0..(Length - 1) -> RowSets]
  /\ mask \in [Strips -> [Rows -> BOOLEAN]]
  /\ res \in [0..(DataPages * Length - 1) ->
               [data : Nat, dark : RowSets, final : BOOLEAN, kept : BOOLEAN]]

\* The strips are disjoint: what one job has written to the shared output images
\* no other job writes again.
WrittenOnce ==
  [][/\ \A r \in DOMAIN out : out[r] # {} => out'[r] = out[r]
     /\ \A n \in DOMAIN res : res[n] # Garbage => res'[n] = res[n]]_vars

\* thr_pool_wait separates the phases: whatever sub_op has computed comes from
\* the data row itself and from the completed statistics of the same row, over
\* all pages, although another thread may have computed them.
ResultsUseSameRow ==
  \A n \in DOMAIN res :
    res[n] # Garbage =>
      res[n].data = n /\ res[n].final /\ res[n].dark = DarkRows(n % Length)

\* When tif_syn writes the files every row of them has been computed.
FilesComplete ==
  pc = "tifSyn" => /\ \A r \in DOMAIN out : out[r] # {}
                   /\ program = "data_sub" => \A n \in DOMAIN res : res[n] # Garbage

\* The pool is destroyed with nothing queued or active: the use of it under
\* which thr_pool_destroy returns.
DestroyedIdle == phase = "closing" => queue = <<>> /\ running = {}

\* The program ends, whatever fails on the way, unless the pool has not got a
\* single worker: thr_pool_queue hides that from it, and thr_pool_wait never returns.
PipelineEnds == <>(pc = "exit" \/ Unserved)

\* "image bad strip ... y: 0 ~ 961" (sub.c:34-37): the rows of the image that
\* are blanked are those of the bad strip.
MaskIsBadStrip ==
  \A n \in DOMAIN res :
    res[n] # Garbage => (res[n].kept <=> n % Length \notin BadFirst..BadLast)

=============================================================================
