-------------------------- MODULE TThreadPoolProofs --------------------------
(***************************************************************************)
(* Theorems about TThreadPool for any numbers of threads, executables,     *)
(* frames and spurious wakeups, and for threads that pthread_create        *)
(* refuses: how far the busy semaphore can be from the number of busy      *)
(* threads.                                                                *)
(***************************************************************************)
EXTENDS TThreadPool, FiniteSetTheorems, TLAPS

-----------------------------------------------------------------------------
(***************************************************************************)
(* Types.                                                                  *)
(***************************************************************************)
Typed == setup \in Setups /\ TypeOK

LEMMA SetupTypes ==
  ASSUME setup \in Setups
  PROVE  /\ setup.exes \in Nat \ {0} /\ setup.extra \in Nat /\ setup.frames \in Nat \ {0}
         /\ setup.spurious \in Nat
         /\ Exes \subseteq Threads /\ 1 \in Exes /\ 1 \in Threads
         /\ IsFiniteSet(Threads)
<1>0. setup \in [exes : Nat \ {0}, extra : Nat, frames : Nat \ {0},
                  spurious : Nat, refusals : BOOLEAN]
  BY TPoolAssumption
<1>1. /\ setup.exes \in Nat \ {0} /\ setup.extra \in Nat /\ setup.frames \in Nat \ {0}
      /\ setup.spurious \in Nat
  <2>1. setup.exes \in Nat \ {0}
    BY <1>0
  <2>2. setup.extra \in Nat
    BY <1>0
  <2>3. setup.frames \in Nat \ {0}
    BY <1>0
  <2>4. setup.spurious \in Nat
    BY <1>0
  <2>. QED BY <2>1, <2>2, <2>3, <2>4
<1>2. Exes \subseteq Threads /\ 1 \in Exes /\ 1 \in Threads
  BY <1>1 DEF Exes, Threads
<1>3. IsFiniteSet(Threads)
  <2>1. setup.exes + setup.extra \in Int
    BY <1>1
  <2>2. IsFiniteSet(1..(setup.exes + setup.extra))
    BY <2>1, FS_Interval
  <2>. QED BY <2>2 DEF Threads
<1>. QED BY <1>1, <1>2, <1>3

\* The sets that depend on the program stay what they are.
LEMMA SetupKept ==
  ASSUME [Next]_vars
  PROVE  /\ setup' = setup /\ Threads' = Threads /\ Exes' = Exes /\ Jobs' = Jobs
<1>1. setup' = setup
  BY DEF Next, vars, AppSteps, ThreadSteps, Construct, PollEnds, Scan, Assign, ReadCount, Signal,
         WaitBusySignal, Synchronize, SpuriousApp, DummyParks, Terminated, Park, Wake, Dispatch,
         JobEnds, SpuriousThread
<1>. QED BY <1>1 DEF Threads, Exes, Jobs

LEMMA NotifyApp ==
  ASSUME app \in AppStates, Notify
  PROVE  app' \in AppStates /\ signalled' = TRUE
BY DEF Notify, AppStates

LEMMA AppTyped ==
  ASSUME Typed, AppSteps, setup' = setup, Threads' = Threads, Exes' = Exes, Jobs' = Jobs
  PROVE  Typed'
<1>. USE SetupTypes DEF Typed, TypeOK
<1>1. ThisJob \in Jobs /\ frame + 1 \in Nat
  BY DEF ThisJob, Jobs
<1>2. CASE Construct
  BY <1>2 DEF Construct, AppStates, ThreadStates
<1>3. CASE PollEnds
  BY <1>3 DEF PollEnds, AppStates
<1>4. CASE Scan
  <2>1. /\ UNCHANGED <<frame, signalled, busy_count, thread, is_busy, myexe, doing, dummy, spurious, early>>
        /\ app' \in AppStates /\ exe' \in Exes /\ k' \in Threads
    BY <1>4 DEF Scan, NextJob, AppStates
  <2>2. jstate' \in [Jobs -> JobStates]
    BY <1>1, <1>4 DEF Scan, JobStates
  <2>. QED BY <2>1, <2>2
<1>5. CASE Assign
  BY <1>1, <1>5 DEF Assign, AppStates, JobStates
<1>6. CASE ReadCount
  BY <1>6 DEF ReadCount, AppStates
<1>7. CASE Signal
  BY <1>7 DEF Signal, AppStates, ThreadStates
<1>8. CASE WaitBusySignal
  BY <1>8 DEF WaitBusySignal, NextJob, AppStates
<1>9. CASE Synchronize
  BY <1>1, <1>9 DEF Synchronize, AppStates
<1>. QED BY <1>2, <1>3, <1>4, <1>5, <1>6, <1>7, <1>8, <1>9 DEF AppSteps

LEMMA ThreadTyped ==
  ASSUME Typed, NEW t \in Threads, ThreadSteps(t) \/ SpuriousThread(t),
         setup' = setup, Threads' = Threads, Exes' = Exes, Jobs' = Jobs
  PROVE  Typed'
<1>. USE SetupTypes DEF Typed, TypeOK
<1>1. CASE Park(t)
  BY <1>1, NotifyApp DEF Park, DecBusySemaphore, ThreadStates
<1>2. CASE Wake(t)
  BY <1>2, NotifyApp DEF Wake, IncBusySemaphore, ThreadStates
<1>3. CASE Dispatch(t)
  BY <1>3 DEF Dispatch, ThreadStates, JobStates
<1>4. CASE JobEnds(t)
  BY <1>4 DEF JobEnds, ThreadStates, JobStates
<1>5. CASE SpuriousThread(t)
  BY <1>5 DEF SpuriousThread, ThreadStates
<1>. QED BY <1>1, <1>2, <1>3, <1>4, <1>5 DEF ThreadSteps

LEMMA StepTyped == Typed /\ [Next]_vars => Typed'
<1>. SUFFICES ASSUME Typed, [Next]_vars PROVE Typed'
  OBVIOUS
<1>0. setup' = setup /\ Threads' = Threads /\ Exes' = Exes /\ Jobs' = Jobs
  BY SetupKept
<1>1. CASE AppSteps
  BY <1>0, <1>1, AppTyped
<1>2. CASE \E t \in Threads : ThreadSteps(t) \/ SpuriousThread(t)
  BY <1>0, <1>2, ThreadTyped
<1>3. CASE SpuriousApp
  BY <1>0, <1>3, SetupTypes DEF SpuriousApp, Typed, TypeOK, AppStates
<1>4. CASE DummyParks
  BY <1>0, <1>4, NotifyApp DEF DummyParks, DecBusySemaphore, Typed, TypeOK, DummyStates
<1>5. CASE UNCHANGED vars
  BY <1>0, <1>5 DEF vars, Typed, TypeOK
<1>. QED BY <1>1, <1>2, <1>3, <1>4, <1>5 DEF Next, Terminated

LEMMA InitTyped == Init => Typed
<1>. SUFFICES ASSUME Init PROVE Typed
  OBVIOUS
<1>1. setup \in Setups /\ setup.frames \in Nat \ {0} /\ dummy \in DummyStates
  BY SetupTypes DEF Init, DummyStates
<1>2. 1 \in 1..setup.frames /\ 0 \in 0..setup.spurious
  BY <1>1, SetupTypes
<1>. QED BY <1>1, <1>2, SetupTypes DEF Init, Typed, TypeOK, AppStates, ThreadStates, JobStates

-----------------------------------------------------------------------------
\* Counting a subset of the threads.
LEMMA CountAdd ==
  ASSUME setup \in Setups, NEW S \in SUBSET Threads, NEW t
  PROVE  /\ IsFiniteSet(S) /\ Cardinality(S) \in Nat
         /\ t \notin S => Cardinality(S \union {t}) = Cardinality(S) + 1
         /\ t \in S => Cardinality(S \ {t}) = Cardinality(S) - 1
         /\ Cardinality(S) = 0 <=> S = {}
<1>1. IsFiniteSet(S)
  BY SetupTypes, FS_Subset
<1>2. Cardinality(S) \in Nat /\ (Cardinality(S) = 0 <=> S = {})
  BY <1>1, FS_CardinalityType, FS_EmptySet
<1>3. t \notin S => Cardinality(S \union {t}) = Cardinality(S) + 1
  BY <1>1, FS_AddElement
<1>4. t \in S => Cardinality(S \ {t}) = Cardinality(S) - 1
  BY <1>1, FS_RemoveElement
<1>. QED BY <1>1, <1>2, <1>3, <1>4

-----------------------------------------------------------------------------
\* How many threads f puts in one of the states of S, and the counts of interest:
\* threads not yet parked, threads signalled, and threads between wakeup and parking.
Tally(f, S) == Cardinality({u \in Threads : f[u] \in S})
AtWork == {"dispatch", "run", "top"}
NumNew == Tally(thread, {"new"})
NumWoken == Tally(thread, {"woken"})
NumBusy == Tally(thread, AtWork)

LEMMA TallyMoves ==
  ASSUME setup \in Setups, NEW f, NEW g, NEW t \in Threads,
         \A u \in Threads \ {t} : g[u] = f[u]
  PROVE  \A S : /\ Tally(f, S) \in Nat /\ Tally(g, S) \in Nat
                /\ Tally(g, S)
                     = IF f[t] \in S THEN IF g[t] \in S THEN Tally(f, S) ELSE Tally(f, S) - 1
                                    ELSE IF g[t] \in S THEN Tally(f, S) + 1 ELSE Tally(f, S)
<1>. TAKE S
<1>. DEFINE A == {u \in Threads : f[u] \in S}
            B == {u \in Threads : g[u] \in S}
<1>1. A \in SUBSET Threads /\ B \in SUBSET Threads
  OBVIOUS
<1>2. /\ Tally(f, S) = Cardinality(A) /\ Tally(g, S) = Cardinality(B)
      /\ (t \in A <=> f[t] \in S) /\ (t \in B <=> g[t] \in S) /\ A \ {t} = B \ {t}
  BY DEF Tally
<1>3. /\ Cardinality(A) \in Nat /\ Cardinality(B) \in Nat
      /\ t \notin A => Cardinality(A \union {t}) = Cardinality(A) + 1
      /\ t \in A => Cardinality(A \ {t}) = Cardinality(A) - 1
  BY <1>1, CountAdd
<1>4. /\ t \in A /\ t \in B => A = B
      /\ t \in A /\ t \notin B => B = A \ {t}
      /\ t \notin A /\ t \in B => B = A \union {t}
      /\ t \notin A /\ t \notin B => A = B
  BY <1>2
<1>5. /\ Tally(f, S) \in Nat /\ Tally(g, S) \in Nat
      /\ Tally(g, S) = IF t \in A THEN IF t \in B THEN Tally(f, S) ELSE Tally(f, S) - 1
                                  ELSE IF t \in B THEN Tally(f, S) + 1 ELSE Tally(f, S)
  <2>. HIDE DEF A, B
  <2>. QED BY <1>2, <1>3, <1>4
<1>. QED BY <1>2, <1>5

\* The thread t goes from one state to another.
MovesTo(t, v) == t \in Threads /\ thread' = [thread EXCEPT ![t] = v]

LEMMA Moves ==
  ASSUME Typed, NEW t, NEW v, MovesTo(t, v), Threads' = Threads
  PROVE  /\ NumNew' = IF thread[t] = "new" THEN IF v = "new" THEN NumNew ELSE NumNew - 1
                                           ELSE IF v = "new" THEN NumNew + 1 ELSE NumNew
         /\ NumWoken' = IF thread[t] = "woken"
                        THEN IF v = "woken" THEN NumWoken ELSE NumWoken - 1
                        ELSE IF v = "woken" THEN NumWoken + 1 ELSE NumWoken
         /\ NumBusy' = IF thread[t] \in AtWork
                       THEN IF v \in AtWork THEN NumBusy ELSE NumBusy - 1
                       ELSE IF v \in AtWork THEN NumBusy + 1 ELSE NumBusy
         /\ NumBusy' \in Nat
<1>1. setup \in Setups /\ thread \in [Threads -> ThreadStates] /\ t \in Threads
      /\ thread' = [thread EXCEPT ![t] = v]
  BY DEF Typed, TypeOK, MovesTo
<1>2. thread'[t] = v /\ \A u \in Threads \ {t} : thread'[u] = thread[u]
  BY <1>1
<1>3. \A S : Tally(thread', S)
              = IF thread[t] \in S
                THEN IF thread'[t] \in S THEN Tally(thread, S) ELSE Tally(thread, S) - 1
                ELSE IF thread'[t] \in S THEN Tally(thread, S) + 1 ELSE Tally(thread, S)
  BY <1>1, <1>2, TallyMoves
<1>4. /\ NumNew' = Tally(thread', {"new"}) /\ NumWoken' = Tally(thread', {"woken"})
      /\ NumBusy' = Tally(thread', AtWork)
  BY DEF NumNew, NumWoken, NumBusy, Tally
<1>5. /\ thread[t] \in {"new"} <=> thread[t] = "new"
      /\ thread[t] \in {"woken"} <=> thread[t] = "woken"
      /\ thread'[t] \in {"new"} <=> v = "new"
      /\ thread'[t] \in {"woken"} <=> v = "woken"
      /\ thread'[t] \in AtWork <=> v \in AtWork
  BY <1>2
<1>6. NumNew' = IF thread[t] = "new" THEN IF v = "new" THEN NumNew ELSE NumNew - 1
                                    ELSE IF v = "new" THEN NumNew + 1 ELSE NumNew
  BY <1>3, <1>4, <1>5 DEF NumNew
<1>7. NumWoken' = IF thread[t] = "woken"
                  THEN IF v = "woken" THEN NumWoken ELSE NumWoken - 1
                  ELSE IF v = "woken" THEN NumWoken + 1 ELSE NumWoken
  BY <1>3, <1>4, <1>5 DEF NumWoken
<1>8. NumBusy' = IF thread[t] \in AtWork
                 THEN IF v \in AtWork THEN NumBusy ELSE NumBusy - 1
                 ELSE IF v \in AtWork THEN NumBusy + 1 ELSE NumBusy
  BY <1>3, <1>4, <1>5 DEF NumBusy
<1>9. NumBusy' \in Nat
  BY <1>1, <1>2, <1>4, TallyMoves
<1>. QED BY <1>6, <1>7, <1>8, <1>9

LEMMA NumKept ==
  ASSUME UNCHANGED thread, Threads' = Threads
  PROVE  NumNew' = NumNew /\ NumWoken' = NumWoken /\ NumBusy' = NumBusy
BY DEF NumNew, NumWoken, NumBusy, Tally

LEMMA BusyNum == Cardinality(Busy) = NumBusy /\ Cardinality(Busy)' = NumBusy'
BY DEF Busy, NumBusy, Tally, AtWork

-----------------------------------------------------------------------------
(***************************************************************************)
(* The busy semaphore, for any jobs.                                       *)
(***************************************************************************)
Filling == app \in {"fill", "poll"}
Late == IF dummy = "late" THEN 1 ELSE 0
\* The polling under way has not had its signal yet.
Polling == IF app = "poll" /\ ~signalled THEN 1 ELSE 0

\* Each polling of fillPool takes a signal, and a new thread, the late dummy and
\* a spurious wakeup (twice) send the only ones there are meanwhile.  Afterwards
\* the threads that have not parked yet may take decrements from the others.
Lag ==
  /\ Filling => /\ NumNew + NumBusy + 2 * NumWoken
                     <= Late + Polling + 2 * spurious
                /\ NumBusy + NumWoken <= spurious
  /\ ~Filling => NumNew + NumBusy <= busy_count + Late + 2 * spurious
\* The threads that fillPool has still to construct.
Unbuilt == \A t \in Threads :
  (app = "fill" /\ t >= k) \/ (app = "poll" /\ t > k) => thread[t] = "none"
Counting == Typed /\ Unbuilt /\ NoPhantomBusy /\ Lag

LEMMA CountTypes ==
  ASSUME Typed
  PROVE  /\ busy_count \in Nat /\ spurious \in Nat /\ Late \in 0..1 /\ Polling \in 0..1
         /\ NumNew \in Nat /\ NumBusy \in Nat /\ NumWoken \in Nat
<1>1. busy_count \in Nat /\ spurious \in Nat
  BY SetupTypes DEF Typed, TypeOK
<1>2. Late \in 0..1 /\ Polling \in 0..1
  BY DEF Late, Polling
<1>3. NumNew \in Nat /\ NumBusy \in Nat /\ NumWoken \in Nat
  <2>1. ASSUME NEW S PROVE Tally(thread, S) \in Nat
    <3>1. {u \in Threads : thread[u] \in S} \in SUBSET Threads /\ setup \in Setups
      BY DEF Typed
    <3>. QED BY <3>1, CountAdd DEF Tally
  <2>. QED BY <2>1 DEF NumNew, NumBusy, NumWoken
<1>. QED BY <1>1, <1>2, <1>3

LEMMA AppCounting ==
  ASSUME Counting, AppSteps, setup' = setup, Threads' = Threads, Typed'
  PROVE  NoPhantomBusy' /\ Lag'
<1>0. /\ Typed /\ thread \in [Threads -> ThreadStates] /\ k \in Threads /\ Unbuilt /\ Lag
      /\ busy_count <= NumBusy
  BY BusyNum DEF Counting, Typed, TypeOK, NoPhantomBusy
<1>1. UNCHANGED <<busy_count, dummy, spurious>>
  BY DEF AppSteps, Construct, PollEnds, Scan, Assign, ReadCount, Signal, WaitBusySignal, Synchronize
<1>2. Late' = Late
  BY <1>1 DEF Late
<1>3. CASE Construct
  <2>1. app = "fill" /\ app' = "poll" /\ signalled' = FALSE
    BY <1>3 DEF Construct
  <2>2. Filling /\ Filling' /\ Polling = 0 /\ Polling' = 1
    BY <2>1 DEF Filling, Polling
  <2>3. /\ NumNew' <= NumNew + 1 /\ NumBusy' <= NumBusy
        /\ NumWoken' <= NumWoken
        /\ busy_count <= NumBusy'
        /\ NumNew' \in Int /\ NumBusy' \in Int /\ NumWoken' \in Int
    <3>1. CASE UNCHANGED thread
      BY <1>0, <3>1, NumKept, CountTypes
    <3>2. CASE MovesTo(k, "new")
      <4>0. thread[k] \notin AtWork
        BY <1>0, <2>1, SetupTypes DEF Unbuilt, Typed, TypeOK, Threads, AtWork
      <4>1. NumNew' <= NumNew + 1 /\ NumNew' \in Int
        BY <1>0, <3>2, Moves, CountTypes
      <4>2. NumBusy' = NumBusy
        BY <1>0, <3>2, <4>0, Moves, CountTypes DEF AtWork
      <4>3. NumWoken' <= NumWoken /\ NumWoken' \in Int
        BY <1>0, <3>2, Moves, CountTypes
      <4>. QED BY <1>0, <4>1, <4>2, <4>3, CountTypes
    <3>. QED BY <1>0, <1>3, <3>1, <3>2 DEF Construct, MovesTo
  <2>4. /\ NumNew + NumBusy + 2 * NumWoken <= Late + 2 * spurious
        /\ NumBusy + NumWoken <= spurious
    BY <1>0, <2>2, CountTypes DEF Lag
  <2>5. Lag'
    BY <1>0, <1>1, <1>2, <2>2, <2>3, <2>4, CountTypes DEF Lag
  <2>. QED BY <1>0, <1>1, <2>3, <2>5, BusyNum DEF NoPhantomBusy
<1>4. CASE PollEnds
  <2>1. app = "poll" /\ signalled /\ signalled' /\ thread' = thread
    BY <1>4 DEF PollEnds
  <2>2. Filling /\ Polling = 0 /\ Polling' = 0
    BY <2>1 DEF Filling, Polling
  <2>3. /\ NumNew' = NumNew /\ NumBusy' = NumBusy
        /\ NumWoken' = NumWoken
    BY <2>1, NumKept
  <2>4. Lag'
    BY <1>0, <1>1, <1>2, <2>2, <2>3, CountTypes DEF Lag
  <2>. QED BY <1>0, <1>1, <2>3, <2>4, BusyNum DEF NoPhantomBusy
<1>5. CASE Scan \/ Assign \/ ReadCount \/ Signal \/ WaitBusySignal \/ Synchronize
  <2>1. ~Filling /\ ~Filling'
    BY <1>5 DEF Scan, Assign, ReadCount, Signal, WaitBusySignal, Synchronize, NextJob, Filling
  <2>2. UNCHANGED thread \/ (thread[k] = "parked" /\ MovesTo(k, "woken"))
    BY <1>0, <1>5 DEF Scan, Assign, ReadCount, Signal, WaitBusySignal, Synchronize, MovesTo
  <2>3. NumNew' = NumNew /\ NumBusy' = NumBusy
    <3>1. CASE UNCHANGED thread
      BY <3>1, NumKept
    <3>2. CASE thread[k] = "parked" /\ MovesTo(k, "woken")
      <4>1. NumNew' = NumNew
        BY <1>0, <3>2, Moves
      <4>2. NumBusy' = NumBusy
        BY <1>0, <3>2, Moves DEF AtWork
      <4>. QED BY <4>1, <4>2
    <3>. QED BY <2>2, <3>1, <3>2
  <2>4. Lag'
    BY <1>0, <1>1, <1>2, <2>1, <2>3 DEF Lag
  <2>. QED BY <1>0, <1>1, <2>3, <2>4, BusyNum DEF NoPhantomBusy
<1>. QED BY <1>3, <1>4, <1>5 DEF AppSteps

\* A signal on busycond moves the application, but neither into nor out of fillPool.
LEMMA NotifyFilling ==
  ASSUME Typed, Notify
  PROVE  (Filling' <=> Filling) /\ Polling' = 0
BY DEF Notify, Filling, Polling

LEMMA ThreadCounting ==
  ASSUME Counting, NEW t \in Threads, ThreadSteps(t) \/ SpuriousThread(t), setup' = setup,
         Threads' = Threads, Typed'
  PROVE  NoPhantomBusy' /\ Lag'
<1>0. /\ Typed /\ thread \in [Threads -> ThreadStates] /\ Lag
      /\ busy_count <= NumBusy
  BY BusyNum DEF Counting, Typed, TypeOK, NoPhantomBusy
<1>1. dummy' = dummy /\ Late' = Late
  BY DEF ThreadSteps, Park, Wake, Dispatch, JobEnds, SpuriousThread, Late
<1>2. CASE Park(t)
  <2>1. /\ busy_count' = IF busy_count > 0 THEN busy_count - 1 ELSE busy_count
        /\ thread[t] \in {"new", "top"} /\ MovesTo(t, "parked")
        /\ spurious' = spurious /\ (Filling' <=> Filling) /\ Polling' = 0
    BY <1>0, <1>2, NotifyFilling DEF Park, DecBusySemaphore, MovesTo
  <2>2. NumNew' = IF thread[t] = "new" THEN NumNew - 1 ELSE NumNew
    BY <1>0, <2>1, Moves
  <2>3. NumBusy' = (IF thread[t] = "new" THEN NumBusy ELSE NumBusy - 1) /\ NumBusy' \in Nat
    BY <1>0, <2>1, Moves DEF AtWork
  <2>4. NumWoken' = NumWoken
    BY <1>0, <2>1, Moves
  <2>5. Lag'
    BY <1>0, <1>1, <2>1, <2>2, <2>3, <2>4, CountTypes DEF Lag
  <2>6. busy_count' <= NumBusy'
    BY <1>0, <2>1, <2>3, CountTypes
  <2>. QED BY <2>5, <2>6, BusyNum DEF NoPhantomBusy
<1>3. CASE Wake(t)
  <2>1. /\ busy_count' = busy_count + 1
        /\ thread[t] = "woken" /\ MovesTo(t, "dispatch")
        /\ spurious' = spurious /\ (Filling' <=> Filling) /\ Polling' = 0
    BY <1>0, <1>3, NotifyFilling DEF Wake, IncBusySemaphore, MovesTo
  <2>2. NumNew' = NumNew
    BY <1>0, <2>1, Moves
  <2>3. NumBusy' = NumBusy + 1
    BY <1>0, <2>1, Moves DEF AtWork
  <2>4. NumWoken' = NumWoken - 1
    BY <1>0, <2>1, Moves
  <2>5. Lag'
    BY <1>0, <1>1, <2>1, <2>2, <2>3, <2>4, CountTypes DEF Lag
  <2>6. busy_count' <= NumBusy'
    BY <1>0, <2>1, <2>3, CountTypes
  <2>. QED BY <2>5, <2>6, BusyNum DEF NoPhantomBusy
<1>4. CASE Dispatch(t) \/ JobEnds(t)
  <2>1. /\ UNCHANGED <<app, signalled, busy_count, spurious>>
        /\ \/ thread[t] = "dispatch" /\ MovesTo(t, "run")
           \/ thread[t] = "run" /\ MovesTo(t, "top")
    BY <1>4 DEF Dispatch, JobEnds, MovesTo
  <2>2. NumNew' = NumNew
    BY <1>0, <2>1, Moves
  <2>3. NumBusy' = NumBusy
    BY <1>0, <2>1, Moves DEF AtWork
  <2>4. NumWoken' = NumWoken
    BY <1>0, <2>1, Moves
  <2>5. (Filling' <=> Filling) /\ Polling' = Polling
    BY <2>1 DEF Filling, Polling
  <2>6. Lag'
    BY <1>0, <1>1, <2>1, <2>2, <2>3, <2>4, <2>5 DEF Lag
  <2>. QED BY <1>0, <2>1, <2>3, <2>6, BusyNum DEF NoPhantomBusy
<1>5. CASE SpuriousThread(t)
  <2>1. /\ UNCHANGED <<app, signalled, busy_count>> /\ spurious' = spurious + 1
        /\ thread[t] = "parked" /\ MovesTo(t, "woken")
    BY <1>5 DEF SpuriousThread, MovesTo
  <2>2. NumNew' = NumNew
    BY <1>0, <2>1, Moves
  <2>3. NumBusy' = NumBusy
    BY <1>0, <2>1, Moves DEF AtWork
  <2>4. NumWoken' = NumWoken + 1
    BY <1>0, <2>1, Moves
  <2>5. (Filling' <=> Filling) /\ Polling' = Polling
    BY <2>1 DEF Filling, Polling
  <2>6. Lag'
    BY <1>0, <1>1, <2>1, <2>2, <2>3, <2>4, <2>5, CountTypes DEF Lag
  <2>. QED BY <1>0, <2>1, <2>3, <2>6, BusyNum DEF NoPhantomBusy
<1>. QED BY <1>2, <1>3, <1>4, <1>5 DEF ThreadSteps

LEMMA StepUnbuilt == Typed /\ Unbuilt /\ [Next]_vars => Unbuilt'
<1>. SUFFICES ASSUME Typed, Unbuilt, [Next]_vars, NEW t \in Threads,
                     (app' = "fill" /\ t >= k') \/ (app' = "poll" /\ t > k')
              PROVE  thread'[t] = "none"
  BY SetupKept DEF Unbuilt
<1>0. /\ thread \in [Threads -> ThreadStates] /\ k \in Threads /\ Threads \subseteq Nat
  BY SetupTypes DEF Typed, TypeOK, Threads
<1>1. CASE Construct
  <2>1. app = "fill" /\ app' = "poll" /\ k' = k /\ t > k
    BY <1>1 DEF Construct
  <2>2. thread[t] = "none" /\ t # k
    BY <1>0, <2>1 DEF Unbuilt
  <2>. QED BY <1>0, <1>1, <2>2 DEF Construct
<1>2. CASE PollEnds
  <2>1. app = "poll" /\ k' = k + 1 /\ app' = "fill" /\ thread' = thread /\ t >= k + 1
    BY <1>2 DEF PollEnds
  <2>. QED BY <1>0, <2>1 DEF Unbuilt
<1>3. CASE Scan \/ Assign \/ ReadCount \/ Signal \/ WaitBusySignal \/ Synchronize \/ SpuriousApp
  BY <1>3 DEF Scan, Assign, ReadCount, Signal, WaitBusySignal, Synchronize, NextJob, SpuriousApp
<1>4. CASE DummyParks \/ UNCHANGED vars
  <2>1. thread' = thread /\ k' = k /\ (app' \in {"fill", "poll"} => app' = app)
    BY <1>4 DEF DummyParks, DecBusySemaphore, Notify, vars
  <2>. QED BY <2>1 DEF Unbuilt
<1>5. ASSUME NEW u \in Threads, ThreadSteps(u) \/ SpuriousThread(u)
      PROVE  thread'[t] = "none"
  <2>1. k' = k /\ (app' \in {"fill", "poll"} => app' = app)
    BY <1>5 DEF ThreadSteps, Park, Wake, Dispatch, JobEnds, SpuriousThread, DecBusySemaphore,
                IncBusySemaphore, Notify
  <2>2. thread[u] # "none" /\ \A v \in Threads \ {u} : thread'[v] = thread[v]
    BY <1>0, <1>5 DEF ThreadSteps, Park, Wake, Dispatch, JobEnds, SpuriousThread
  <2>3. thread[t] = "none"
    BY <2>1 DEF Unbuilt
  <2>. QED BY <2>2, <2>3
<1>. QED BY <1>1, <1>2, <1>3, <1>4, <1>5 DEF Next, AppSteps, Terminated

LEMMA StepCounting == Counting /\ [Next]_vars => Counting'
<1>. SUFFICES ASSUME Counting, [Next]_vars PROVE NoPhantomBusy' /\ Lag' /\ Typed'
  BY StepUnbuilt DEF Counting
<1>0. setup' = setup /\ Threads' = Threads /\ Typed /\ Typed' /\ Lag
      /\ busy_count <= NumBusy
  BY SetupKept, StepTyped, BusyNum DEF Counting, NoPhantomBusy
<1>1. CASE AppSteps
  BY <1>0, <1>1, AppCounting
<1>2. CASE \E t \in Threads : ThreadSteps(t) \/ SpuriousThread(t)
  BY <1>0, <1>2, ThreadCounting
<1>3. CASE DummyParks
  <2>1. /\ busy_count' = IF busy_count > 0 THEN busy_count - 1 ELSE busy_count
        /\ UNCHANGED <<thread, spurious>> /\ (Filling' <=> Filling) /\ Polling' = 0
        /\ dummy = "starting"
        /\ dummy' = IF app = "fill" /\ k = 1 THEN "first" ELSE "late"
    BY <1>0, <1>3, NotifyFilling DEF DummyParks, DecBusySemaphore
  <2>2. /\ NumNew' = NumNew /\ NumBusy' = NumBusy
        /\ NumWoken' = NumWoken
    BY <1>0, <2>1, NumKept
  <2>3. Late = 0 /\ Late' = (IF app = "fill" /\ k = 1 THEN 0 ELSE 1)
    BY <2>1 DEF Late
  <2>4. app = "fill" => Filling /\ Polling = 0
    BY DEF Filling, Polling
  <2>5. Lag'
    BY <1>0, <2>1, <2>2, <2>3, <2>4, CountTypes DEF Lag
  <2>6. busy_count' <= NumBusy'
    BY <1>0, <2>1, <2>2, CountTypes
  <2>. QED BY <1>0, <2>5, <2>6, BusyNum DEF NoPhantomBusy
<1>4. CASE SpuriousApp
  <2>1. /\ spurious' = spurious + 1 /\ UNCHANGED <<busy_count, dummy, thread>>
        /\ ~Filling /\ ~Filling'
    BY <1>4 DEF SpuriousApp, Filling
  <2>2. NumNew' = NumNew /\ NumBusy' = NumBusy /\ Late' = Late
    BY <1>0, <2>1, NumKept DEF Late
  <2>3. Lag'
    BY <1>0, <2>1, <2>2, CountTypes DEF Lag
  <2>. QED BY <1>0, <2>1, <2>2, <2>3, BusyNum DEF NoPhantomBusy
<1>5. CASE UNCHANGED vars
  <2>1. UNCHANGED <<app, signalled, busy_count, dummy, spurious, thread>>
    BY <1>5 DEF vars
  <2>2. /\ NumNew' = NumNew /\ NumBusy' = NumBusy
        /\ NumWoken' = NumWoken
        /\ Late' = Late /\ Polling' = Polling /\ (Filling' <=> Filling)
    BY <1>0, <2>1, NumKept DEF Late, Polling, Filling
  <2>. QED BY <1>0, <2>1, <2>2, BusyNum DEF NoPhantomBusy, Lag
<1>. QED BY <1>1, <1>2, <1>3, <1>4, <1>5 DEF Next, Terminated

LEMMA CountingInductive == Spec => []Counting
<1>1. Init => Counting
  <2>. SUFFICES ASSUME Init, Typed PROVE Unbuilt /\ NoPhantomBusy /\ Lag
    BY InitTyped DEF Counting
  <2>1. /\ busy_count = 0 /\ spurious = 0 /\ app = "fill"
        /\ \A t \in Threads : thread[t] = "none"
    BY DEF Init
  <2>2. ASSUME NEW S, "none" \notin S PROVE Tally(thread, S) = 0
    <3>1. {t \in Threads : thread[t] \in S} = {}
      BY <2>1, <2>2
    <3>. QED BY <3>1, FS_EmptySet DEF Tally
  <2>3. NumNew = 0 /\ NumBusy = 0 /\ NumWoken = 0
    BY <2>2 DEF NumNew, NumBusy, NumWoken, AtWork
  <2>. QED BY <2>1, <2>3, BusyNum, CountTypes DEF Unbuilt, NoPhantomBusy, Lag, Filling
<1>. QED BY <1>1, StepCounting, PTL DEF Spec

\* The application, the threads and the jobs keep their types.
THEOREM TypeCorrect == Spec => []TypeOK
<1>1. Counting => TypeOK
  BY DEF Counting, Typed
<1>. QED BY <1>1, CountingInductive, PTL

\* busy_count never exceeds the number of threads between their wakeup and their
\* parking, whatever is signalled, missed, woken for nothing, or decremented for
\* the dummy thread.
THEOREM NoPhantom == Spec => []NoPhantomBusy
<1>1. Counting => NoPhantomBusy
  BY DEF Counting
<1>. QED BY <1>1, CountingInductive, PTL

\* busy_count falls short of that number by at most one for a late dummy thread and
\* two for each spurious wakeup.
THEOREM LagBounded == Spec => []BusyCountLag
<1>1. Counting => BusyCountLag
  <2>. SUFFICES ASSUME Counting PROVE NumBusy <= busy_count + 2 * spurious + Late
    BY BusyNum DEF BusyCountLag, Late
  <2>1. Typed /\ Lag
    BY DEF Counting
  <2>2. CASE Filling
    BY <2>1, <2>2, CountTypes DEF Lag
  <2>3. CASE ~Filling
    BY <2>1, <2>3, CountTypes DEF Lag
  <2>. QED BY <2>2, <2>3
<1>. QED BY <1>1, CountingInductive, PTL
=============================================================================
