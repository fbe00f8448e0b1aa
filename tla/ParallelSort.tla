---------------------------- MODULE ParallelSort ----------------------------
(***************************************************************************)
(* HW3: merge sort with a thread pool.  The main thread cuts the array     *)
(* into NSections sections and queues one bubble-sort job per section; pd  *)
(* worker threads take jobs from job_que and report them in                *)
(* completed_jobs; the dispatcher thread is woken once per completion and  *)
(* queues a merge job for every pair of buddy sections it finds completed. *)
(* When one job covers the array it queues an "exit" job, which every      *)
(* worker passes on.  The whole is repeated for FirstDegree..LastDegree    *)
(* workers.                                                                *)
(*                                                                         *)
(* Granularity.  A semaphore operation, a critical section of              *)
(* job_que_mutex and a worker's critical section of completed_jobs_mutex   *)
(* are one step each.  The dispatcher holds completed_jobs_mutex over many *)
(* steps (its scan pushes jobs one by one), so that lock is derived from   *)
(* its program counter.                                                    *)
(***************************************************************************)
EXTENDS SortOps

CONSTANTS
  N,            \* total_nums, the number of elements of the array
  NSections,    \* number of bottom-level sections (8 in the code)
  FirstDegree,  \* first and last number of worker threads
  LastDegree,   \*   (1 and 8 in the code)
  Inputs        \* the contents input.txt may have

ASSUME SizeAssumption ==
  /\ N \in Nat
  /\ NSections \in Nat \ {0}
ASSUME DegreeAssumption ==
  /\ FirstDegree \in Nat \ {0}
  /\ LastDegree \in Nat \ {0}
  /\ FirstDegree <= LastDegree
ASSUME InputAssumption == Inputs \subseteq [0..(N - 1) -> Int]

VARIABLES
  input,           \* the contents of input.txt
  pd,              \* the parallel degree of this round
  main,            \* control state of the main thread
  next,            \* the loop index of the pushing loop
  vec,             \* the shared array
  job_que,         \* the shared queue of jobs
  job_sem,         \* semaphore: a job is available
  completed_jobs,  \* the shared vector of completed jobs
  completion_sem,  \* semaphore: a job was completed
  disp,            \* control state of the dispatcher
  unscanned,       \* the part of completed_jobs its scan has not passed yet
  done,            \* the jobs whose done flag the scan has set
  wpc,             \* control state of every worker
  held,            \* the job a worker has taken
  outputs          \* the contents of the output files written so far

mainVars   == <<input, pd, main, next, outputs>>
queueVars  == <<job_que, job_sem>>
compVars   == <<completed_jobs, completion_sem>>
dispVars   == <<disp, unscanned, done>>
workerVars == <<wpc, held>>
vars == <<mainVars, vec, queueVars, compVars, dispVars, workerVars>>

Workers == 1..LastDegree
Index   == 0..(N - 1)

---------------------------------------------------------------------------
(* Jobs.  sec, the first section a job covers, tells apart two entries of  *)
(* the vector whose fields agree (sections are empty when N < NSections).  *)

SectionL(i) == i * (N \div NSections)

\* Mutant: every section takes the remainder.
SectionRAlways(i) == (i + 1) * (N \div NSections) + (N % NSections)

\* section_bound[i].S: the last section also takes the remainder.
SectionR(i) == (i + 1) * (N \div NSections)
                 + (IF i = NSections - 1 THEN N % NSections ELSE 0)

Bubble(i)     == [type |-> "bubble", l |-> SectionL(i), r |-> SectionR(i),
                  mid |-> -1, sec |-> i]
Merge(a, b)   == [type |-> "merge", l |-> a.l, r |-> b.r, mid |-> a.r,
                  sec |-> a.sec]
ExitJob       == [type |-> "exit", l |-> 0, r |-> 0, mid |-> -1, sec |-> 0]
NoJob         == [type |-> "none", l |-> 0, r |-> 0, mid |-> -1, sec |-> 0]

Len2(a) == 2 * (a.r - a.l)

\* The dispatcher's test evaluates a.l % Len2(a): adjacent, and either of
\* equal length or b the last section.
TestsBuddy(a, b) ==
  a.r = b.l /\ (a.r - a.l = b.r - b.l \/ b.r = N)

\* Division by zero when the left section is empty.
DividesByZero(a, b) == TestsBuddy(a, b) /\ Len2(a) = 0

\* Mutant: no special case for the last, longer section.
MergeableEqualOnly(a, b) ==
  a.r = b.l /\ a.r - a.l = b.r - b.l /\ a.l % Len2(a) = 0

\* Conditions 2 to 4 of the dispatcher: a and b are the halves of one node
\* of the merge tree.
Mergeable(a, b) == TestsBuddy(a, b) /\ a.l % Len2(a) = 0

---------------------------------------------------------------------------
(* The main thread.                                                        *)

\* The worker threads of a round exist, the others are not created.
Created(degree) == [w \in Workers |-> IF w <= degree THEN "idle" ELSE "absent"]

\* init_per_pd, reading the file and creating the threads of the first round.
Init ==
  /\ input \in Inputs
  /\ pd = FirstDegree /\ main = "push" /\ next = 0 /\ outputs = <<>>
  /\ vec = input
  /\ job_que = <<>> /\ job_sem = 0
  /\ completed_jobs = {} /\ completion_sem = 0
  /\ disp = "check" /\ unscanned = {} /\ done = {}
  /\ wpc = Created(pd)
  /\ held = [w \in Workers |-> NoJob]

\* push_job_safe(bubble job): the locked push, then sem_post.
MainPush ==
  /\ main = "push"
  /\ job_que' = Append(job_que, Bubble(next))
  /\ next' = next + 1
  /\ main' = "post"
  /\ UNCHANGED <<input, pd, outputs, vec, job_sem, compVars, dispVars, workerVars>>

\* Mutant: the pushing loop runs once too often.
MainPostOneMore ==
  /\ main = "post"
  /\ job_sem' = job_sem + 1
  /\ main' = IF next > NSections THEN "join" ELSE "push"
  /\ UNCHANGED <<input, pd, next, outputs, vec, job_que, compVars, dispVars, workerVars>>

MainPost ==
  /\ main = "post"
  /\ job_sem' = job_sem + 1
  /\ main' = IF next = NSections THEN "join" ELSE "push"
  /\ UNCHANGED <<input, pd, next, outputs, vec, job_que, compVars, dispVars, workerVars>>

\* All threads joined: the output file is written.
MainJoin ==
  /\ main = "join"
  /\ \A w \in 1..pd : wpc[w] = "exited"
  /\ disp = "exited"
  /\ outputs' = Append(outputs, vec)
  /\ main' = IF pd = LastDegree THEN "finished" ELSE "next"
  /\ UNCHANGED <<input, pd, next, vec, queueVars, compVars, dispVars, workerVars>>

\* Mutant: the file is read only once.
MainNextRoundKeepsArray ==
  /\ main = "next"
  /\ pd' = pd + 1 /\ main' = "push" /\ next' = 0
  /\ job_que' = <<>> /\ job_sem' = 0
  /\ completed_jobs' = {} /\ completion_sem' = 0
  /\ disp' = "check" /\ unscanned' = {} /\ done' = {}
  /\ wpc' = Created(pd + 1)
  /\ held' = [w \in Workers |-> NoJob]
  /\ UNCHANGED <<input, vec, outputs>>

\* The next parallel degree: init_per_pd sets everything shared up anew,
\* the file is read again and new threads are created.
MainNextRound ==
  /\ main = "next"
  /\ pd' = pd + 1 /\ main' = "push" /\ next' = 0
  /\ vec' = input
  /\ job_que' = <<>> /\ job_sem' = 0
  /\ completed_jobs' = {} /\ completion_sem' = 0
  /\ disp' = "check" /\ unscanned' = {} /\ done' = {}
  /\ wpc' = Created(pd + 1)
  /\ held' = [w \in Workers |-> NoJob]
  /\ UNCHANGED <<input, outputs>>

Main == MainPush \/ MainPost \/ MainJoin \/ MainNextRound

---------------------------------------------------------------------------
(* The dispatcher thread.                                                  *)

\* Mutant: the end of the completed job is not tested.
DispatchCheckJobsAnyEnd ==
  /\ disp = "check"
  /\ disp' = IF \E j \in completed_jobs : completed_jobs = {j} /\ j.l = 0
             THEN "check_que" ELSE "wait"
  /\ UNCHANGED <<mainVars, vec, queueVars, compVars, unscanned, done, workerVars>>

\* The loop's test, without any lock: one completed job that covers the
\* array.  Workers only append, so once the size was 1 the entry stays put.
DispatchCheckJobs ==
  /\ disp = "check"
  /\ disp' = IF \E j \in completed_jobs :
                   completed_jobs = {j} /\ j.l = 0 /\ j.r = N
             THEN "check_que" ELSE "wait"
  /\ UNCHANGED <<mainVars, vec, queueVars, compVars, unscanned, done, workerVars>>

\* Its last conjunct, read later and without a lock too: job_que is empty.
DispatchCheckQue ==
  /\ disp = "check_que"
  /\ disp' = IF job_que = <<>> THEN "exit" ELSE "wait"
  /\ UNCHANGED <<mainVars, vec, queueVars, compVars, unscanned, done, workerVars>>

DispatchPushExit ==
  /\ disp = "exit"
  /\ job_que' = Append(job_que, ExitJob)
  /\ disp' = "exit_post"
  /\ UNCHANGED <<mainVars, vec, job_sem, compVars, unscanned, done, workerVars>>

DispatchPostExit ==
  /\ disp = "exit_post"
  /\ job_sem' = job_sem + 1
  /\ disp' = "exited"
  /\ UNCHANGED <<mainVars, vec, job_que, compVars, unscanned, done, workerVars>>

\* sem_wait(&completion_sem)
DispatchWait ==
  /\ disp = "wait"
  /\ completion_sem > 0
  /\ completion_sem' = completion_sem - 1
  /\ disp' = "lock"
  /\ UNCHANGED <<mainVars, vec, queueVars, completed_jobs, unscanned, done, workerVars>>

\* Takes completed_jobs_mutex and sorts the vector by l: the scan below
\* visits unscanned in that order.  (Equal l's, which std::sort may leave in
\* any order, occur among empty sections only.)
DispatchLock ==
  /\ disp = "lock"
  /\ unscanned' = completed_jobs
  /\ disp' = "scan"
  /\ UNCHANGED <<mainVars, vec, queueVars, compVars, done, workerVars>>

\* a is in front of the rest of S.
IsFirst(a, S) == a \in S /\ \A c \in S : a.l <= c.l

\* Mutant: only the left buddy is flagged done.
ScanMergeOneFlag(a, b) ==
  /\ Mergeable(a, b)
  /\ done' = done \cup {a}
  /\ unscanned' = unscanned \ {a, b}
  /\ job_que' = Append(job_que, Merge(a, b))
  /\ disp' = "scan_post"

\* a and its neighbour b are buddies: both are flagged done, their merge job
\* is pushed and the scan skips both.
ScanMerge(a, b) ==
  /\ Mergeable(a, b)
  /\ done' = done \cup {a, b}
  /\ unscanned' = unscanned \ {a, b}
  /\ job_que' = Append(job_que, Merge(a, b))
  /\ disp' = "scan_post"

\* No merge at a: the scan goes on behind it.
ScanPass(a) ==
  /\ unscanned' = unscanned \ {a}
  /\ UNCHANGED <<disp, done, job_que>>

DispatchScan ==
  /\ disp = "scan"
  /\ \E a \in unscanned :
       /\ IsFirst(a, unscanned)
       /\ \/ \E b \in unscanned \ {a} :
               /\ IsFirst(b, unscanned \ {a})
               /\ IF DividesByZero(a, b)
                  THEN /\ disp' = "crashed"
                       /\ UNCHANGED <<unscanned, done, job_que>>
                  ELSE \/ ScanMerge(a, b)
                       \/ ~Mergeable(a, b) /\ ScanPass(a)
          \/ unscanned = {a} /\ ScanPass(a)
  /\ UNCHANGED <<mainVars, vec, job_sem, compVars, workerVars>>

DispatchPostMerge ==
  /\ disp = "scan_post"
  /\ job_sem' = job_sem + 1
  /\ disp' = "scan"
  /\ UNCHANGED <<mainVars, vec, job_que, compVars, unscanned, done, workerVars>>

\* The end of the scan: the flagged jobs are erased and the mutex released.
DispatchErase ==
  /\ disp = "scan"
  /\ unscanned = {}
  /\ completed_jobs' = completed_jobs \ done
  /\ done' = {}
  /\ disp' = "check"
  /\ UNCHANGED <<mainVars, vec, queueVars, completion_sem, unscanned, workerVars>>

Dispatcher ==
  \/ DispatchCheckJobs \/ DispatchCheckQue
  \/ DispatchPushExit \/ DispatchPostExit
  \/ DispatchWait \/ DispatchLock
  \/ DispatchScan \/ DispatchPostMerge \/ DispatchErase

\* The dispatcher holds completed_jobs_mutex.
MutexHeld == disp \in {"scan", "scan_post"}

---------------------------------------------------------------------------
(* A worker thread.                                                        *)

\* sem_wait(&job_sem)
WorkerWait(w) ==
  /\ wpc[w] = "idle"
  /\ job_sem > 0
  /\ job_sem' = job_sem - 1
  /\ wpc' = [wpc EXCEPT ![w] = "fetch"]
  /\ UNCHANGED <<mainVars, vec, job_que, compVars, dispVars, held>>

\* Mutant: the job is popped before its type is tested.
WorkerFetchTakesExit(w) ==
  /\ wpc[w] = "fetch"
  /\ job_que # <<>>
  /\ job_que' = Tail(job_que)
  /\ IF Head(job_que).type = "exit"
     THEN /\ wpc' = [wpc EXCEPT ![w] = "repost"]
          /\ UNCHANGED held
     ELSE /\ wpc' = [wpc EXCEPT ![w] = "run"]
          /\ held' = [held EXCEPT ![w] = Head(job_que)]
  /\ UNCHANGED <<mainVars, vec, job_sem, compVars, dispVars>>

\* Takes the front job; the exit job stays in the queue for the others.
WorkerFetch(w) ==
  /\ wpc[w] = "fetch"
  /\ job_que # <<>>
  /\ IF Head(job_que).type = "exit"
     THEN /\ wpc' = [wpc EXCEPT ![w] = "repost"]
          /\ UNCHANGED <<job_que, held>>
     ELSE /\ wpc' = [wpc EXCEPT ![w] = "run"]
          /\ held' = [held EXCEPT ![w] = Head(job_que)]
          /\ job_que' = Tail(job_que)
  /\ UNCHANGED <<mainVars, vec, job_sem, compVars, dispVars>>

\* Sorts or merges the held section in place.  The step is the end of the
\* work: NoOverlap is what makes one step per job enough.
WorkerRun(w) ==
  /\ wpc[w] = "run"
  /\ LET j == held[w]
     IN vec' = IF j.type = "bubble" THEN BubbleSort(vec, j.l, j.r)
                                    ELSE MergeSeg(vec, j.l, j.mid, j.r)
  /\ wpc' = [wpc EXCEPT ![w] = "complete"]
  /\ UNCHANGED <<mainVars, queueVars, compVars, dispVars, held>>

\* Mutant: the completion is not announced.
WorkerCompleteSilent(w) ==
  /\ wpc[w] = "complete"
  /\ ~MutexHeld
  /\ completed_jobs' = completed_jobs \cup {held[w]}
  /\ held' = [held EXCEPT ![w] = NoJob]
  /\ wpc' = [wpc EXCEPT ![w] = "idle"]
  /\ UNCHANGED <<mainVars, vec, queueVars, completion_sem, dispVars>>

\* push_completion_job_safe: the locked push, then sem_post.
WorkerComplete(w) ==
  /\ wpc[w] = "complete"
  /\ ~MutexHeld
  /\ completed_jobs' = completed_jobs \cup {held[w]}
  /\ held' = [held EXCEPT ![w] = NoJob]
  /\ wpc' = [wpc EXCEPT ![w] = "post"]
  /\ UNCHANGED <<mainVars, vec, queueVars, completion_sem, dispVars>>

WorkerPost(w) ==
  /\ wpc[w] = "post"
  /\ completion_sem' = completion_sem + 1
  /\ wpc' = [wpc EXCEPT ![w] = "idle"]
  /\ UNCHANGED <<mainVars, vec, queueVars, completed_jobs, dispVars, held>>

\* Mutant: the exit job is not passed on.
WorkerRepostSilent(w) ==
  /\ wpc[w] = "repost"
  /\ wpc' = [wpc EXCEPT ![w] = "exited"]
  /\ UNCHANGED <<mainVars, vec, queueVars, compVars, dispVars, held>>

\* The worker that met the exit job lets the others see it.
WorkerRepost(w) ==
  /\ wpc[w] = "repost"
  /\ job_sem' = job_sem + 1
  /\ wpc' = [wpc EXCEPT ![w] = "exited"]
  /\ UNCHANGED <<mainVars, vec, job_que, compVars, dispVars, held>>

Worker(w) ==
  \/ WorkerWait(w) \/ WorkerFetch(w) \/ WorkerRun(w)
  \/ WorkerComplete(w) \/ WorkerPost(w) \/ WorkerRepost(w)

---------------------------------------------------------------------------
\* The process has exited, or was killed by the arithmetic exception.
Ended == main = "finished" \/ disp = "crashed"

Next ==
  \/ /\ ~Ended
     /\ Main \/ Dispatcher \/ \E w \in Workers : Worker(w)
  \/ Ended /\ UNCHANGED vars

Spec == Init /\ [][Next]_vars

\* Every thread that can take a step eventually does.
FairSpec ==
  /\ Spec
  /\ WF_vars(~Ended /\ Main)
  /\ WF_vars(~Ended /\ Dispatcher)
  /\ \A w \in Workers : WF_vars(~Ended /\ Worker(w))

---------------------------------------------------------------------------
(* What the program promises.                                              *)

Job == [type : {"bubble", "merge", "exit", "none"},
        l : Nat, r : Nat, mid : Int, sec : Nat]

\* Every control state and counter stays in its range and the shared
\* containers hold jobs.  (What vec holds is SectionsSorted's subject.)
TypeOK ==
  /\ pd \in FirstDegree..LastDegree
  /\ main \in {"push", "post", "join", "next", "finished"}
  /\ next \in 0..NSections
  /\ job_que \in Seq(Job) /\ job_sem \in Nat
  /\ completed_jobs \in SUBSET Job /\ completion_sem \in Nat
  /\ disp \in {"check", "check_que", "exit", "exit_post", "exited",
               "wait", "lock", "scan", "scan_post", "crashed"}
  /\ unscanned \in SUBSET Job /\ done \in SUBSET Job
  /\ wpc \in [Workers -> {"absent", "idle", "fetch", "run", "complete",
                          "post", "repost", "exited"}]
  /\ held \in [Workers -> Job]

\* No index of the array belongs to both jobs.
Apart(a, b) ==
  ~ \E x \in Index : a.l <= x /\ x < a.r /\ b.l <= x /\ x < b.r

\* The completed jobs that have not gone into a merge job.
Unmerged == completed_jobs \ done

\* Race freedom: the workers write vec without any lock (vec_mutex is never
\* taken), so no section a worker works on may overlap one that another
\* worker has, that is queued, or that is completed and up for merging.
NoOverlap ==
  \A w \in Workers :
    /\ \A v \in Workers \ {w} : Apart(held[w], held[v])
    /\ \A k \in DOMAIN job_que : Apart(held[w], job_que[k])
    /\ \A c \in Unmerged : Apart(held[w], c)

\* A worker that got past sem_wait(&job_sem) finds a job at the front of
\* job_que: front() is never called on an empty queue, although the jobs
\* and the semaphore are updated one after the other by three threads.
NoEmptyFetch ==
  (\E w \in Workers : wpc[w] = "fetch") => job_que # <<>>

\* Once the exit job is queued it is alone in the queue, nothing is left to
\* push and no worker works on the array any more.
ExitIsLast ==
  disp \in {"exit_post", "exited"} =>
    /\ job_que = <<ExitJob>>
    /\ next = NSections
    /\ \A w \in Workers : held[w] = NoJob

\* No lost wakeup: with no completion left to announce, a waiting
\* dispatcher has neither a pair of buddies to merge nor the end to notice.
NoMissedMerge ==
  (/\ disp = "wait" /\ completion_sem = 0
   /\ \A w \in Workers : wpc[w] # "post")
  => /\ \A a, b \in completed_jobs : ~Mergeable(a, b)
     /\ ~ \E j \in completed_jobs : j.l = 0 /\ j.r = N

\* The jobs that are queued or being worked on.
Open == {job_que[k] : k \in DOMAIN job_que}
          \cup {held[w] : w \in {v \in Workers : wpc[v] = "run"}}

\* A completed section is sorted and stays so until it is merged; a merge
\* job meets two sorted halves; the array always holds the numbers read.
SectionsSorted ==
  /\ SameContents(input, vec)
  /\ \A c \in Unmerged : SectionSorted(vec, c.l, c.r)
  /\ \A j \in Open : j.type = "merge" =>
       SectionSorted(vec, j.l, j.mid) /\ SectionSorted(vec, j.mid, j.r)

\* The dispatcher never evaluates % with a zero divisor.
NeverDividesByZero == disp # "crashed"

\* Every round ends: all threads see the exit job and are joined, so the
\* program gets through all degrees of parallelism and finishes.
Terminates == <>(main = "finished")

\* The program implements the sorting service: whatever the interleaving,
\* every change of the array sorts one section of it, each output file holds
\* the sorted array and every degree of parallelism gets its file ("All the 8
\* output files must be identical").
Service == INSTANCE SortService
             WITH Rounds <- LastDegree - FirstDegree + 1,
                  open <- main \in {"push", "post", "join"}

ImplementsService == Service!Spec
=============================================================================
