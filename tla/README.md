# TLA+ models of NYCU-OS

The repository holds six independent programs, one per assignment of an
operating-systems course (HW1 to HW6), each with the PDF of its assignment.
This directory models each of them in TLA+, checks the models with TLC on small
instances and proves their central safety properties, with four refinements, in TLAPS
for every value of the parameters.

Contents: 1 the programs, 2 modules and how they correspond to the code, 3 runs,
4 fairness, 5 proofs, 6 findings, 7 what is not modelled, 8 plan.

## 1. The programs

### HW1, a shell (`src/HW1/112550069.cpp`)

* State: the command being run (`programs`, `is_pipeline`), the pids still to be
  waited for, the descriptors of the current pipe, the shell's descriptor table;
  outside of the program the children, their descriptor tables, and a pending
  SIGCHLD.
* Operations: `tokenize`, `Parser::parse`, `run_program`,
  `run_pipeline_programs`, `redirect_handler`, `sigchld_handler`, the main loop.
* Interaction: `fork` copies memory and descriptors; pipes connect neighbours; a
  child's end raises SIGCHLD, whose handler interrupts the main thread anywhere,
  also between `fork` and the `waitpid` for that child.
* Hard: signals that merge, two parts of the shell reaping the same child, end of
  file that depends on *all* write ends being closed, `pipe()` failing in
  the middle of a pipeline.
* Correct when: no zombie stays, the prompt comes back only after the foreground
  programs have ended, and does come back; no descriptor leaks; neighbours are
  connected; the parser runs what was typed.

### HW2, matrix product with processes (`src/HW2/112550069.cpp`)

* State: a System V segment with C, the number of processes of the round,
  every process's band of rows.
* Operations: creating and removing the segment, fork, `multiply_rows`, the waits,
  the checksum; 16 rounds with 1 to 16 processes.
* Interaction: processes write C without locks; the parent reads it after it has
  waited for all; the segment is never cleared between rounds.
* Hard: whether bands are disjoint and complete when N is not a multiple; what an
  earlier round, or a killed process, leaves behind; 32-bit arithmetic.
* Correct when: every round prints the checksum of the product.

### HW3, parallel sort with a thread pool (`src/HW3/112550069.cpp`)

* State: the array `vec`; `job_que` with `job_que_mutex` and the semaphore
  `job_sem`; `completed_jobs` with its mutex and `completion_sem`; three kinds of
  threads. `output_check.py` hashes the output files.
* Operations: main pushes 8 bubble-sort jobs, the dispatcher turns completed pairs
  into merge jobs and finally an exit job, workers execute jobs; all of it for 1
  to 8 workers.
* Interaction: a job is pushed under a mutex and announced by `sem_post` after it;
  the exit job stays in the queue and is passed from worker to worker; the
  dispatcher's exit test takes no lock; `vec` is never locked.
* Hard: races on `vec`, lost wakeups, fetching from an empty queue, ending too
  early or never, state left over from the round before.
* Correct when: every output is the sorted input, all rounds end.

### HW4, a best-fit allocator (`src/HW4/hw4_112550069.c`, `multilevelBF.c`, `main.c`)

The two allocator files have the same contents. `main.c` replays a trace.

* State: a pool of 20000 bytes, headers of 32 bytes in it, 11 doubly linked free
  lists by powers of two threaded through the headers.
* Operations: `malloc` (with the special sizes 0 and -1), `free`, and their
  helpers (levels, list insertion and removal, split, coalesce).
* Hard: a long sequence of splits and joins that goes wrong only later; headers
  that joins leave behind in memory; stale levels; limits of `size_t`.
* The driver keeps an array of pointers by id and two locals, `id` and `size`, that
  outlive a line; it writes all of every block it gets and ends with `malloc(0)`.
* Correct when: chunks tile the pool, lists are exact, callers' data is left
  alone, best fit is found, free neighbours are joined; a replay leaves allocated
  what its lines ask for, and reports the largest gap between them.

### HW5, page replacement simulator (`src/HW5/hw5_112550069.cpp`)

* State: per cache a pool of `PageMeta` nodes, a chained hash table, a free list,
  one (LRU) or three (CFLRU) linked lists, counters.
* Operations: `access_page` of both caches, list and table helpers; the driver
  loads a trace and runs it for several numbers of frames.
* Hard: nodes in three chains at once, reuse of the evicted node, whether three
  lists really give the promised order.
* Correct when: hits, misses and write-backs are those of the policies.

### HW6, tar file system (`src/HW6/112550069.cpp`)

* State: a tree of `FileNode`s built once from `test.tar`, offsets of contents.
* Operations: `parse_tar_file`, `get_parent_node`, `find_node`; the handlers
  `my_getattr`, `my_readdir`, `my_readlink`, `my_read`. `demo.sh`, `tar/`,
  `testcase/` and `answer/` are a demonstration with expected outputs.
* Hard: entries in any order (children before parents, names repeated), positions
  that depend on every size before, clipping of reads.
* Correct when: what is served is what the archive holds.

## 2. Modules

| Program | Models | Abstract specification | Instance for TLC | Proofs |
|---|---|---|---|---|
| HW1 | `ShellParser`, `Shell` | | `MCShell` | `ShellProofs` |
| HW2 | `Matrix` | | | `MatrixProofs` |
| HW3 | `SortOps`, `ParallelSort`, `ParallelSortInv` | `SortService` | `MCParallelSort` | `ParallelSortProofs` |
| HW4 | `MultilevelBF`, `TraceReplay` | `BestFit` | | `MultilevelBFProofs`, `TraceReplayProofs` |
| HW5 | `PageTable`, `LRUPageCache`, `CFLRUPageCache`, `PageSim` | `Recency`, `PageReplacement` | | `PageSimProofs` |
| HW6 | `TarFS` | | `MCTarFS` | `TarFSProofs` |

`Iteration` holds no model: its lemmas, about what a loop computes, are shared by
`MatrixProofs`, `ParallelSortProofs`, `MultilevelBFProofs`, `PageSimProofs` and `TarFSProofs`.

Operators whose comment begins with "Mutant" are deliberately wrong variants of
the definition that follows. Nothing uses them: replacing the definition by its
variant must make the property they are listed with fail, which shows that the
property is about the code.

### HW3: SortOps, ParallelSort, ParallelSortInv, SortService

`ParallelSort` has one program counter per thread (`main`, `disp`, `wpc[w]`) and
one action per semaphore operation and critical section. `push_job_safe` is two
actions (`MainPush`/`MainPost`, `DispatchScan`/`DispatchPostMerge`, ...), so that
a worker may run between a push and its `sem_post`.

* `completed_jobs_mutex` is held by the dispatcher while `disp` is `scan` or
  `scan_post`; `WorkerComplete` waits for that to end.
* The dispatcher's exit test (line 104) reads `completed_jobs` and `job_que`
  without a lock. It is two actions, one per container, and a worker may push
  between them. Formally these are data races; a reader of a `std::vector` that is
  being appended to sees the old or the new size and storage, of which the old
  keeps the entry that is looked at, so either outcome is one of the model's. That
  the race is harmless is part of what `ExitIsLast` says: when the first conjuncts
  are true nobody is left who could push.
* `completed_jobs` is a set, of which the scan takes the smallest `l` first: the
  code sorts the vector by `l` at the start of the scan. `sec` tells
  entries apart whose fields agree. With fewer numbers than sections, the order
  among empty sections is any, as `std::sort` leaves it.
* A worker's whole sort or merge is one step at its end. Two threads working on
  disjoint indices commute, so this loses nothing as long as `NoOverlap` holds, and
  `NoOverlap` is checked and proved on control states that do not depend on what
  `vec` holds.
* `BubbleSort` and `MergeSeg` are the two algorithms. A loop is a recursive function of
  its counter, which gives the array (or the position) after each round.
* `SortService` is the abstract specification: an array that is changed only by
  sorting one section in place, written out when sorted, once per round.
  `ImplementsService` is the refinement.
* `ParallelSortInv` holds the inductive invariants of section 5.

### HW1: ShellParser, Shell

`ShellParser` folds over characters and tokens just as the two loops do. A line of
`Shell` is a sequence of characters that `ReadCommand` puts through both, so that what
the processes do is what the parser made of the line. `Shell`
models the main thread (`shell`), its loop over the programs, the handler as an
interrupt of the main thread (`Next` lets the main thread go on only when
`handler` is false) and every child.

* A process's descriptor table is a function from small numbers to what they are
  open on; `pipe`, `dup2`, `close` and `fork` act on it as the kernel does,
  the lowest free descriptors first. A pipe is named after the child forked next.
* When `pipe()` fails `pipe_file_descriptors` keeps what it held; before the first
  pipe that is uninitialised memory, so it is chosen from `Garbage`, which has an
  invalid number, 0 and 3. Properties about pipes are stated under
  `PipesWork` (no call of `pipe()` has failed yet). `ForegroundDone`,
  `NoForgottenZombie` and `ZombiesReaped` are stated without it. That the shell may close its own
  standard input after such a failure is a step of the model, and no property speaks of it.
* `Finishes` is what the shell may expect of programs: they end once they saw the
  end of file and their output has a reader or none at all. `EndsEarly`
  and `CtrlC` may end them before.
* SIGCHLD is a flag: signals do not queue.

### HW2: Matrix

A row is one step of its process, `Killed` ends a process anywhere inside a row.
Bands are computed in words (`% WordMod`). `shm_id` is unsigned in the code, so a
failing `shmget` goes unnoticed; `shmat` is reported only. Both lead to
`shm = "failed"`, on which every later access is fatal. `WordAssumption` says that
A and B, allocated row by row before anything is computed, can exist.

### HW4: MultilevelBF, BestFit

An address is a unit of 32 bytes and `mem` says what was written to every unit:
headers, zeros or a caller's data. `sizeof(ChunkHeader)` is more than
`HEADER_SIZE` in a 64-bit build (40), but the bytes from 32 on are padding, which no
assignment to a field writes. Callers of the model write *all* the data they
own with bytes that look like a free chunk's header, which is the worst they may
do. Headers that a join swallows stay in `mem`. `BestFit` is the same allocator
without levels, links or headers: a set of free chunks and, among chunks of one size,
which became free first (`older`). The mapping takes the free chunks from all lists
(`Listed`) and their order from the order within a list (`OlderPeers`), for chunks of one
size are in one list. `ImplementsBestFit` shows that lists of levels,
searched in the order the code has, choose the first come among the smallest
sufficient chunks of *all* levels. `munmap` leaves `free_lists` with pointers into the
pool that is gone; they stay in the model until `init_memory_pool` resets them.

`TraceReplay` composes `main.c` with the allocator: its actions are the lines of a
file, each of which is a whole `Malloc` or `Free` of `MultilevelBF` together with what
main does to `ptr`, `id` and `size` and to the block. A write through NULL ends the
process (`main = "killed"`). Traces are sensible: a line releases only what is
allocated. `newline` says whether the file's last line ends with a newline, in which
case `read_line` returns one more, empty line. `asked` is what the lines ask for and is
compared with what is handed out.

### HW5: PageTable, LRUPageCache, CFLRUPageCache, PageSim, Recency, PageReplacement

`TraceItem` is what `load_trace_file` makes of a line: a page is 4096 bytes of addresses,
and every operation but `W` reads. A cache is a record of nodes, buckets, free list, heads, tails and counters, and
every helper an operator on it, with the order of assignments kept where they
overlap. `PageSim` drives three caches by one trace. The program runs one
simulation after the other; as they share only the trace, running them side by
side gives the same counters, and lets properties compare them. `recent`, the order
in which pages were last used, is kept by the model alone: CFLRU has no list from
which it could be read, and `CFLRUReplaces` says that the pages evicted agree with it.
`PageReplacement` is the policy on an abstract list, with LRU as its special case;
`Recency` has the operators on such lists. `trace` is the item that the driver hands to
`access_page`; the policy must answer *that* item (`request`), so that a read which leaves its page
dirty is no step of it. The hash `key ^ (key >> 5)` is computed bit by
bit (`Folded`): a sum of two bits without its carry is their exclusive or. The number of
buckets is doubled in a loop as in the code (`TableSize`), and as it is a power of two
the mask is a remainder.

### HW6: TarFS

The archive is a sequence of headers; `Tape` is its bytes, and the parser finds
headers by *position* only, so that a wrong position reads content as a header or
ends the parse. A path is the sequence of its non-empty parts. The handlers change
no state and are operators on the mounted tree. Permissions, owner and time of a
node come from one entry, whose number stands for them (`meta`); `find_node` and
`get_parent_node` are functions of how many parts they have walked, one round each
(`Child`, `Descend`); nodes created on
the way have an uninitialised time, and no property looks at it. `my_read` opens the archive anew for
each call; its argument `opened` says whether that works, and `ReadsContent` is about both answers.
`MirrorsArchive` is about paths below the root, which no entry can name.

## 3. Runs

| Run | Instance | Shows |
|---|---|---|
| `sort_pool` | 9 numbers, 4 sections, 1 to 3 workers | safety, termination, the inductive invariants, and the refinement of `SortService`; `JobsSort`: the two algorithms on every section of all arrays of 5 numbers out of 3 values |
| `sort_crash` | 3 numbers, 8 sections | finding 1 |
| `heap` | pool of 10 units, 4 levels, 5 sizes and both special ones | all allocator properties and the refinement of `BestFit` |
| `heap_full` | pool of 6 units | finding 2 |
| `replay` | pool of 8 units, 3 ids, 3 sizes | traces without a newline at their end are replayed as they are; the largest gap is what is reported |
| `replay_newline` | the same | finding 5 |
| `shell` | 9 lines, 3 children, one failing `pipe()` | all process-control properties; the parser on all commands of up to 2 programs, from their printed form, the tokenizer on all lines of up to 5 characters |
| `shell_ampersand` | as before without failures | finding 3 |
| `matrix` | 3 x 3, 1 to 5 processes, 6-bit words, one process killed | bands, checksums, repair, and that every run ends |
| `page_sim` | all traces of 7 accesses to 4 pages; 2 and 3 frames | both policies, inclusion |
| `tarfs` | all archives of up to 3 entries over 4 paths | what is served is the archive, or an error when it cannot be opened |
| `tarfs_dot` | archives with `.` in their names | finding 4 |

Distinct states: `sort_pool` 54,042; `heap` 33,597; `replay` 134,623; `shell` 65,148;
`matrix` 38,889; `page_sim` 179,847; `tarfs` 71,498. Each of these is a
complete search; the other five runs stop at their counterexample.

Why the bounds are enough:

* `sort_pool`: 4 sections give a tree of three merges on two levels, so two merges
  may run side by side and a scan may see 0, 1 or 2 pairs; 9 = 4 * 2 + 1
  makes the last section longer than its buddy. Three rounds reset everything
  twice, 3 workers compete for 4 jobs and pass the exit job on twice. The sizes the
  code has (8 sections, 8 workers) are covered by the theorems as far as
  those go.
* `JobsSort` sorts and merges every section of all arrays of five numbers of three
  values: equal numbers, empty and single-element sections, and halves of different
  length all occur. It does not depend on the state of the pool.
* `sort_crash`: with fewer numbers than sections all sections but the last are empty.
  The division by zero is a state of the model (`crashed`).
* `heap`: ten units hold up to five chunks, so a chunk with free chunks on both
  sides, several chunks of one level, several of one size, and an exact fit, a
  split and a fit whose rest is too small for a header all occur. The sizes include 1,
  the boundaries 33 and 130, one that does not fit, 0 and -1. `SizeMod` is 1024, more
  than the pool's bytes, as 2^64 is.
* `replay`: three blocks of up to two data units in eight units leave gaps of every
  size between them, and make `malloc` fail. The sizes are the exact unit, one byte
  more, and three units.
* `shell`: a pipeline of three has a middle program with pipes on both sides; with
  three children there may be background jobs, a pipeline and orphans of an
  earlier line at once.
* `matrix`: 3 rows over 1 to 5 processes have bands of 3, 2 and 1 rows, short and
  empty bands, and with five processes bands that begin behind the last row. With 6
  bits the true checksum (486) wraps.
* `page_sim`: the addresses are on both sides of a page's end and in pages 0, 1, 8 and
  33, which hash into shared buckets. Three frames and a
  working list of one leave a clean-first region of two, in which a clean page may be
  behind or in front of a dirty one; seven accesses fill the cache, hit, evict and
  reuse an evicted node several times. A single frame, where the evicted node is head and tail of
  its list, is left to the theorems, which hold from one frame on.
* `tarfs`: blocks have two bytes and files 0 or 3, so that content is absent or
  ends inside its second block. Three entries over nested paths give children before
  parents, repeated names and changes of type.

`TypeOK` is the one type invariant of a module that has one. Deadlock is checked in every run
but `page_sim`, `replay` and `replay_newline` (a behaviour ends with its trace), `tarfs`
and `tarfs_dot` (a mounted archive is only read).

## 4. Fairness

* `ParallelSort!FairSpec`: weak fairness of main, of the dispatcher and of every
  worker. A thread that can go on is scheduled at some time. Workers that contend for a
  semaphore need no strong fairness: there are finitely many jobs and a worker that
  takes one is not back before it has done it. A mutex is never disputed forever for
  the same reason.
* `Shell!FairSpec`: weak fairness of the steps that bring a command to its end, of
  the handler and of every child's set-up and natural end. The user need not type,
  `pipe` and `fork` need not fail, nobody needs to press Ctrl-C. `Finishes` being
  fair is the assumption that no program of a command runs forever of its own accord;
  a program that does keeps the shell waiting, as it should.

* `Matrix!FairSpec`: weak fairness of the parent and of every process, which is all the
  scheduler owes them: they wait for each other only at the end of a round, and a
  process that dies is waited for like one that exits.

All other specifications are used for safety and refinement of safety.

## 5. Proofs

`ParallelSortProofs` (all parameters; assumptions `SizeAssumption`: N is a natural
number and there is at least one section; `DegreeAssumption`: degrees are positive
and in order; `InputAssumption`):

* `TypeCorrect`: `Spec => [](TypeOK /\ ControlInv)`. `ControlInv` ties control
  states to data: a worker that is not working holds no job, outside of a scan
  nothing is flagged, the unscanned part is unmerged. `TypeOK` alone is not inductive: that
  `next` stays in range needs to know that main pushes only below `NSections`.
* `RaceFreedom`: `Spec => []NoOverlap`, also for empty sections. `NoOverlap` speaks of jobs held; it is
  not inductive, because a fetched job comes from the queue, a queued one from
  the scan, and a bubble job from main's loop. `SeparateInv` therefore has all pairs
  of places (to push, queued, held, completed and unmerged). Lemmas: the sections of
  the array are disjoint (`SectionOrder`, by arithmetic on `N \div NSections`), and a
  merge job overlaps only what one of its halves overlaps (`MergeApart`).
* `FetchFindsJob`: `Spec => []NoEmptyFetch`, from `QueueCount`, an equation between the length of
  the queue, the semaphore, the workers that took a unit and have not yet used it,
  and pushes not yet announced.
* `Separated` and `Counted` are the two invariants just named, which `sort_pool` checks
  too.
* `NoCrash`, `Whole` and `ExitComesLast`, under the further assumption `N >= NSections`:
  the dispatcher never divides by zero, and nothing is queued, pushed or worked on
  once the exit job is queued. The invariant is `WholeInv`: every live job is a
  non-empty section; then a completed job that covers the array leaves no room, by
  `SeparateInv`, for any other job, wherever it is, so that the unlocked exit test is
  right. `sort_crash` shows that the assumption is needed.
* `NothingMissed`, under the same assumption: `NoMissedMerge`. One unit of
  `completion_sem` stands for one completion, but a scan may use up several, and later
  units find nothing. `NoticedInv` says why nothing is lost: whatever pair could be
  merged, or job that covers the array, is either still in front of the scan or
  *announced* by a unit of the semaphore or by a worker about to post one. That the
  scan leaves no pair behind it needs the order of the sections: only the next section
  in the array can be a job's buddy (`Neighbour`).

`Iteration`: induction. The library's induction theorems take an operator as their
parameter, which the provers cannot instantiate; here the induction formula is a *set*
of numbers, and what carries the induction is that a non-empty set of naturals has a least
element (`LeastElement`, `IntervalInduction`). `LoopExists` says that a function defined
step by step along an interval exists, so that its equations may be used; `PathFunction`
says the same of a function that follows pointers, as long as every step raises a bounded
rank. Loops, list traversals and walks over the pool in the other modules rest on them.

The two algorithms in `ParallelSortProofs` (any array of integers and any section of it):

* `BubbleSortCorrect` and `MergeSegCorrect`: both algorithms sort their section, keep its
  contents, and move nothing outside of it. A sweep carries the greatest number of its
  part to the end (`SweepBubbles`); after each round of `bubble_sort` the numbers behind the
  round's end are in order and not less than those before it. For `merge_seg` the invariant is on the
  positions in both halves: what is appended next is not less than anything appended before.
  `JobsSort` is the same claim on the arrays of the instance.

`ParallelSortProofs` again, on what the array holds (no further assumption; empty sections
included):

* `AlwaysSorted`: `Spec => []SectionsSorted`. `SortedInv` also speaks of the jobs that are queued
  or held: the two halves of a merge job are sorted from the scan that made it to the
  worker that carries it out. They stay so because what other workers write lies elsewhere,
  which is `SeparateInv` again (`SectionKept`, `ReadyKept`).
* `RoundsRight` and `Refines`: `Spec => ImplementsService`. A step of the pool is a section sorted
  in place, an output, or a stutter. That the output is sorted needs `RoundInv`: the dispatcher
  leaves its loop only over a completed job for the whole array, and main writes only after
  all threads of the round are gone.

`MatrixProofs` (all N and numbers of processes; `WordAssumption` is what keeps
`(id + 1) * part_rows` from wrapping):

* `RowsIndependent`: `Spec => []RowsApart`, the
  bands of every round are disjoint and cover all rows. The invariant is only that
  `process_num` stays in its range; the work is arithmetic (`ProductMonotonic`,
  `PartRowsBounds`, `Partition`).
* `RoundsComplete`, under the further assumption `CellsFit` (`N * N <= WordMod`: different
  cells of the segment have different numbers): when all processes of a round are
  through with their bands, every cell of C is what its row's loop computes, whatever
  earlier rounds and killed processes left there. The invariant `WrittenInv` says it of
  the part of its band that each process has behind itself; that no other process writes
  there, in the middle of a row or at its end (`RowEffect`, `RowsKept`), is `RowsApart`
  again.
* `RoundsRepair`, under `CellsFit`: `Spec => []RoundRepairs`, every such cell is the product
  of the matrices modulo the word. The sum that wraps after each addition is the remainder of the
  true sum (`ModSum`, `ModProduct`, `WordSumsRight`).
* `ChecksumsCorrect`, under `CellsCounted` (`N * N < WordMod`): `Spec => []ChecksumsRight`,
  unless a process is killed every round prints the true checksum modulo the word.
  `ChecksumInv` says that a process that ended of itself has its band behind itself. The
  assumption is one cell stricter than `CellsFit` and has to be: the bound of the code's loop is
  `N * N` in a word, which for N = 65536 is 0.

`MultilevelBFProofs` (every pool and number of levels, any requests; `PoolAssumption`,
`LevelAssumption`, `WidthAssumption`, `RequestAssumption`):

* The invariant `IInv` is `TypeOK`, `UserDataIntact` and `HeapInv`. `HeapInv` says that there are a set
  B of addresses at which a chunk or the end of the pool begins, each chunk ending where the
  next begins (`IsTiling`), and a set F of free chunks among them, no two side by side, such that the lists
  link exactly F (`IsLinked`) and callers hold the others. A list is not a sequence here: its
  links are mirrored, stay within a level and raise a *rank*, which keeps the traversal from
  running in circles. None of the five invariants that the run checks is
  inductive: they speak of walks and traversals, and say nothing about memory
  behind headers that joins leave.
* The helpers have one lemma each about what they do to B, F and the links: `RemoveEffect`,
  `AddEffect`, `SplitEffect`, `CoalesceEffect`, `WrittenEffect`. `coalesce` takes two chunks out of
  their lists and adds one between two states in which the invariant does not hold.
* `TypeCorrect`, `Tiled`, `ListsRight` and `DataIntact`: `TypeOK`, `ChunksTile`, `ListsExact`,
  `UserDataIntact`. They hold for *all* requests, also those for which `round_up_32` wraps and the
  allocator hands out a chunk of no units.
* `Served`, under `SizesRound` (no request but -1 makes `round_up_32` wrap): `RequestServed`.
  `Keeps` says of each step that it leaves the sizes of blocks alone.
* `Implements`, under `SizesRound`: `Spec => ImplementsBestFit`. Two things go beyond the invariant. The
  first sufficient level has the best chunk of all (`LevelsGrow`: a greater chunk is never in a
  lower level; `BestFitFound`). And lists keep their order: `AddOrder` and `RemoveOrder` say that a
  list is appended to at its end and otherwise loses one element, so that the order
  among chunks of one size (`OlderPeers`) is the one in which they became free, although `split` and
  `coalesce` change sizes of chunks while these are in no list.

`TraceReplayProofs` (every pool, any ids and sizes):

* `Composed`: `ReplaySpec => Spec`. A replay is a behaviour of the allocator, so that the
  theorems above hold in it.
* `LastLineReplayed`: `ReplaySpec => []ReplaysLastLine`. `ReplayInv` adds that no two ids name
  the same block; that a new block is no old one is `HeapInv`.
* `LargestGapPrinted`: `ReplaySpec => []PrintsTheLargestGap`. The units no caller holds are those of
  the free chunks (`UnclaimedIs`), and as no two free chunks touch a gap lies in one
  (`GapInChunk`); that the highest level's search finds the biggest is `BiggestFound`.

`ShellProofs` (any number of children, any lines, whatever
uninitialised descriptors hold; `LineAssumption`, which TLC evaluates for the lines of
the instance: the parser ends a line with at least one program, and takes it for a
pipeline just when it has more than one):

* `ZombiesNoticed`: `Spec => []NoForgottenZombie`. Every step that makes a zombie sets
  SIGCHLD, and the handler returns only when none is left. `ForkInv` gives the children
  their numbers: those forked so far are `1..k`.
* `PromptWaits`: `Spec => []ForegroundDone`. `ForegroundDone` says nothing of the time
  before the prompt; `WaitInv` does: a foreground child that is not reaped is among
  `pids`, or is the one `fork` has just returned. Whoever reaps it, the wait for it ends.
* `ShellTypes`: `Spec => []TypeOK`, with `CountInv`: the loop over the programs stays in
  range, and what `pipe_file_descriptors` holds is a number even when `pipe()` failed.
* `PipesClosed`, `EndOfFile`, `PipelineWired`: `ShellKeepsNoPipe`, `SoleWriter` and
  `Wired`. None is inductive. `PipeInv` gives every process's descriptor table as a
  function of its place: what a child is *given* by `fork` (`Given`), what it has once
  the pipes are in place (`Placed`) and the files over them (`Redirected`), and what the
  shell holds at each of its control states, with the descriptors all different
  (`Apart`) whichever the kernel chose. `NeighbourInv` adds that a program behind a pipe
  reads it. `PlumbEffect` and `CloseEffect` are the two computations with `dup2` and
  `close` in the order the code has.

`PageSimProofs` (traces of any length, any addresses and numbers of frames;
`FramesAssumption`, which asks for at least one frame and no more of the smaller cache than of the
larger, and `AddressAssumption`):

* `LRUImplementsReplacement`: `Spec => LRUReplaces`. Neither the list nor the chains of the hash
  table are sequences in the invariant. A list is the set U of its nodes and a *rank*: each
  node is linked to the one with the next higher rank (`Linked`, in both directions `Both`), and the
  rank of a node is the rank R of its page, which is the lower the later the page was used.
  The sequence that the refinement speaks of is the walk along the links, and `WalkIs` says
  that it visits U in the order of the rank. An access gives its page a rank below all others
  (`Latest`), which turns "moved to the front" into arithmetic: nothing is said of positions.
* The table is described by a rank `h` of the same kind (`Table`): a chain has the nodes of its
  bucket, and no two nodes have the same page. `GetIs` says that `get` finds the node with that page, if any,
  whichever buckets the hash sends pages to; `RemoveIs` and `PutIs` that a node leaves and enters just its
  own chain. Reuse of the evicted node at once is safe because it has left U before it gets
  its new page (`LRUEvictIs`, `LRUEnteredIs`). The free list has the nodes outside U, each once (`Free`).
* `MoreFramesNeverHurt`: `Spec => []Inclusion`. Both caches are ordered by the *same* R, and each is
  closed: it holds every page of the trace used after one it holds, and all of them as long as it has
  free frames (`Closed`). Of two such sets the one with at least as many frames includes the other (`Included`). That
  hits and write-backs compare is not implied: `Ledger` adds that the smaller cache has no dirty page which is
  clean in the larger one, and has written back at least once more for each page that is
  dirty only in the larger one.
* `CFLRUImplementsReplacement`: `Spec => CFLRUReplaces`, with the same ranks and the same table. M gives
  the nodes of each of the three lists, whose union is U; a node's list is the one its
  `list_type` names (`IsList`). Each list is in the order of R, every working node comes before all others,
  and those are parted by their dirty bits (`Policy`). That a page leaving the working list can
  be put at the *head* of another follows: it is the tail of the working list, so that all
  that left before it were used before it. `Sized` counts: the working list is full as soon as any page is
  out of it, which is what makes the rest the clean-first region; between the
  insertion of a page and the migration it may have one too many (`Oversized`). The victim
  (`Spared`, `CleanFirst`) is given in terms of ranks; `LeadingFirst` and `CleanFirstFalls` turn that into
  the position which `PageReplacement` evicts from. The run's instance has one size of each; the proof
  covers every `WorkingCap` below `LargeFrames`, 0 included.
* `Invariance`: `Spec => []IInv` is all of that. R and the ranks are under existential quantifiers
  over all functions, which TLC cannot evaluate; what it checks is what they imply.

`TarFSProofs` (archives of any length, any names and sizes, blocks of any size;
`BlockAssumption`, `SizesAssumption`, `EntriesAssumption`, and `PathsAssumption`: a name has at least
one part, for without any `parts.back()` is undefined):

* `TreeShowsArchive`: `Spec => []IndInv`. There is a number d of entries such that `pos` and `cur`
  are both at the end of the d-th, and the tree shows what the first d say. The run's three
  invariants speak only of a mounted tree, so that they say nothing about a step of the parser.
  `IsTree` describes the tree with a function `w` that gives every node its path: the root has the
  empty one, a child has its parent's and its own name, no two nodes have the same. `w` is
  under an existential quantifier over all functions, which TLC cannot evaluate; what TLC checks is what
  `IndInv` implies of the mounted tree.
* `FindIs` says of `find_node`, by induction over the parts of the path, that it returns the node
  with that path, if any; `ParentIs` of `get_parent_node` that it leaves a tree which has
  just the prefixes of the path in addition; `StorePath` of a whole iteration that the path has one
  node, which shows the entry, and all other nodes show what they did. That is why
  the order of entries does not matter.
* `Skipped`: the blocks that are skipped are the size and its padding, for all sizes. With
  `TapeIs` (which byte is where) it gives `HeaderAt`: at the end of the d-th entry there is the
  next one's header or, after the last, none.
* `MirrorsArchiveAlways`, `ListsOnceAlways` and `ReadsContentAlways`: `MirrorsArchive`, `ListsOnce` and
  `ReadsContent` follow from `IndInv` of a mounted archive.

What stays with TLC: liveness (`Terminates`, `PromptReturns`, `ZombiesReaped`,
`RunEnds`), which is out of the prover's reach; `JobsSort`, whose content is
`BubbleSortCorrect` and `MergeSegCorrect`; what the shell's tokenizer and parser compute
(`ParsesWhatWasAsked`, `TokensSpellTheLine`), which compares folds over sequences of
characters. `FilesAccessible` is a finding, not a promise kept.

## 6. Findings

1. HW3 line 120: with fewer than 8 numbers the buddy test divides by zero
   (`sort_crash`).
2. HW4 line 124: `malloc(0)` on a pool that is completely handed out follows a null
   pointer (`heap_full`).
3. HW1 line 231: a pipeline that ends with `&` is still waited for, but for its last
   program (`shell_ampersand`).
4. HW6 line 185: the files of an archive written by `tar cf test.tar .` cannot be
   reached (`tarfs_dot`).
5. HW4 `main.c` line 29: a trace that ends with a newline is followed by one more
   allocation, with the id and the size of the lines before, and the size that is
   reported at the end is too small (`replay_newline`).

Two more differences have no run. HW6 line 174 gives the root the mode 0755 where the assignment
asks for 0444, and `MirrorsArchive` says nothing of the root; and HW4 `round_up_32` wraps for sizes
next to `SIZE_MAX`.

## 7. Not modelled

* Calls whose failure ends a program at once (opening its input, creating workers), the
  creation status of HW3's dispatcher and the result of HW4's `mmap`, both of which the
  code does not look at.
* `free(NULL)` and requests next to `SIZE_MAX` in HW4; a process with several threads
  that uses the allocator.
* A `test.tar` that is replaced while it is mounted, and octal fields that overflow an `int` and names without a terminating zero in HW6; the
  kernel's side of FUSE, beyond its resolving of `.` in paths.
* Reading the numbers to sort and the matrix's dimension, printing of tables and of the prompt, timers.
* `output_check.py`, `demo.sh`, the sample archives and expected outputs, the PDFs.

## 8. Plan

Order in which the modules were written, the most concurrent first: `SortOps`,
`ParallelSort`, `SortService`; `MultilevelBF`, `BestFit`; `ShellParser`, `Shell`;
`Matrix`; `PageTable`, `LRUPageCache`, `CFLRUPageCache`, `PageReplacement`, `PageSim`;
`TarFS`; proofs of `ParallelSort` and `Matrix`; `TraceReplay`; proofs of `Shell`.

Then the proofs of `MultilevelBF` with the refinement of `BestFit`, those of the refinement of
`SortService`, the sums of `Matrix`, and the tree of `TarFS`.

Last come the proofs of `PageSim`.
