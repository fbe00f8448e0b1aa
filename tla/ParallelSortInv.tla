-------------------------- MODULE ParallelSortInv --------------------------
(***************************************************************************)
(* The inductive invariants behind the theorems of ParallelSortProofs.     *)
(* TLC checks them on the instances before they are proved.                *)
(***************************************************************************)
EXTENDS ParallelSort

\* How the control states go with the data they guard.
ControlInv ==
  /\ main = "push" => next < NSections
  /\ main = "next" => pd < LastDegree
  /\ main \in {"join", "next", "finished"} => next = NSections
  /\ \A w \in Workers : wpc[w] \notin {"run", "complete"} => held[w] = NoJob
  /\ disp \notin {"scan", "scan_post", "crashed"} =>
       unscanned = {} /\ done = {}
  /\ unscanned \subseteq Unmerged

\* The sections still to be pushed by the main thread.
ToPush == next..(NSections - 1)

\* A job is in exactly one place (to push, queued, held, completed), and the
\* sections of jobs in different places or entries share no index.
SeparateInv ==
  /\ \A k, m \in DOMAIN job_que : k # m => Apart(job_que[k], job_que[m])
  /\ \A k \in DOMAIN job_que, w \in Workers : Apart(job_que[k], held[w])
  /\ \A k \in DOMAIN job_que, c \in Unmerged : Apart(job_que[k], c)
  /\ \A k \in DOMAIN job_que, i \in ToPush : Apart(job_que[k], Bubble(i))
  /\ \A w, v \in Workers : w # v => Apart(held[w], held[v])
  /\ \A w \in Workers, c \in Unmerged : Apart(held[w], c)
  /\ \A w \in Workers, i \in ToPush : Apart(held[w], Bubble(i))
  /\ \A c, d \in Unmerged : c # d => Apart(c, d)
  /\ \A c \in Unmerged, i \in ToPush : Apart(c, Bubble(i))

\* The workers that took a unit of job_sem and have not used it up or given
\* it back.
Between == {w \in Workers : wpc[w] \in {"fetch", "repost"}}

\* A job pushed whose sem_post is still to come.
Unposted == (IF main = "post" THEN 1 ELSE 0)
              + (IF disp \in {"scan_post", "exit_post"} THEN 1 ELSE 0)

\* Every job in the queue is accounted for: announced by a unit of job_sem,
\* about to be fetched, or about to be announced.
QueueCount == Len(job_que) = job_sem + Cardinality(Between) + Unposted

\* A section of the array with at least one element.
Proper(j) == j.l < j.r /\ j.r <= N

\* With at least one element per section: every live job has work to do, and
\* the dispatcher leaves its loop only with one job that covers the array.
WholeInv ==
  /\ \A k \in DOMAIN job_que :
       \/ Proper(job_que[k]) /\ job_que[k].type # "exit"
       \/ job_que[k] = ExitJob /\ disp \in {"exit_post", "exited"}
  /\ \A w \in Workers : wpc[w] \in {"run", "complete"} => Proper(held[w])
  /\ \A c \in completed_jobs : Proper(c)
  /\ disp \in {"check_que", "exit", "exit_post", "exited"} =>
       \E j \in completed_jobs : completed_jobs = {j} /\ j.l = 0 /\ j.r = N
  /\ disp \in {"exit_post", "exited"} => job_que = <<ExitJob>>
  /\ disp # "crashed"

\* A completion the dispatcher will still be woken for.
Announced == completion_sem > 0 \/ \E w \in Workers : wpc[w] = "post"

\* The scan goes up the array and leaves no pair behind it, so that whatever
\* the dispatcher has not noticed is announced.
NoticedInv ==
  /\ MutexHeld =>
       /\ \A a \in completed_jobs \ unscanned, b \in unscanned : a.l <= b.l
       /\ \A a \in Unmerged \ unscanned, b \in Unmerged : ~Mergeable(a, b)
  /\ (disp \in {"check", "check_que", "wait"} /\ ~Announced) =>
       \A a, b \in completed_jobs : ~Mergeable(a, b)
  /\ (disp = "wait" /\ ~Announced) =>
       ~ \E j \in completed_jobs : j.l = 0 /\ j.r = N

\* The section a job names is one of the array, and a merge job's halves are
\* its two parts.
WithinArray(j) ==
  /\ 0 <= j.l /\ j.l <= j.r /\ j.r <= N
  /\ j.type = "merge" => j.l <= j.mid /\ j.mid <= j.r

\* A merge job that is yet to be run finds its two halves sorted.
Ready(j) ==
  j.type = "merge" =>
    SectionSorted(vec, j.l, j.mid) /\ SectionSorted(vec, j.mid, j.r)

\* Every job, wherever it is, finds or has left its section as it should be,
\* and the array holds the numbers that were read.
SortedInv ==
  /\ input \in [Index -> Int] /\ vec \in [Index -> Int]
  /\ SameContents(input, vec)
  /\ \A k \in DOMAIN job_que :
       /\ job_que[k].type \in {"bubble", "merge", "exit"}
       /\ WithinArray(job_que[k]) /\ Ready(job_que[k])
  /\ \A w \in Workers :
       /\ wpc[w] = "run" => /\ held[w].type \in {"bubble", "merge"}
                            /\ WithinArray(held[w]) /\ Ready(held[w])
       /\ wpc[w] = "complete" => /\ WithinArray(held[w])
                                 /\ SectionSorted(vec, held[w].l, held[w].r)
  /\ \A c \in Unmerged : WithinArray(c) /\ SectionSorted(vec, c.l, c.r)

\* The main thread takes part in a round as long as it has threads to join.
InRound == main \in {"push", "post", "join"}

\* A round has written its file exactly when its threads are gone; and the
\* dispatcher leaves its loop only over a completed job for the whole array
\* (however the array is cut: this needs no element per section).
RoundInv ==
  /\ outputs \in Seq([Index -> Int])
  /\ Len(outputs) = pd - FirstDegree + (IF InRound THEN 0 ELSE 1)
  /\ \A w \in Workers : w > pd => wpc[w] = "absent"
  /\ ~InRound => disp = "exited" /\ \A w \in 1..pd : wpc[w] = "exited"
  /\ disp \in {"check_que", "exit", "exit_post", "exited"} =>
       \E j \in completed_jobs : j.l = 0 /\ j.r = N

=============================================================================
