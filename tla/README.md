# CE321: specifications of the course projects

TLA+ specifications, model-checking configurations and machine-checked proofs
for the programs of this repository. The repository holds four projects. Three
have logic of their own that runs for long and can go wrong slowly: the
deduplicating FUSE file system (`hw4`), the scheduler virtual machine with its
two schedulers (`hw2`) and the best-fit SLOB allocator (`hw3`).

## 1. Inventory

### hw4: deduplicating file system (`hw4/project_4_2116_2134_2229/fuse/src`)

`bbfs.c` implements FUSE handlers, `our_lib.c` the block store below them.

| part | state | operations |
|------|-------|------------|
| hash ledger | file `.Storage/hash_ledger`: lines `III, <hash>, CC`, the last one a sentinel | `bb_init`, `addHash`, `compareHash`, `removeBlocks` |
| block store | files `.Storage/BLnnn`, one per block | `createBlock`, `removeBlocks`, `readBlock` |
| files | `rootdir`: each file is a list of cells `nnn\n`, the ids of its blocks | `bb_mknod`, `bb_write`, `bb_unlink`, `bb_rename`, `bb_link`, `bb_ftruncate` |
| readers | none that lasts | `bb_read` with `readFile`, `bb_getattr` with `findRealSize` |

A write reads the ids it will overwrite (`getOverwrittenBlocks`), releases them
(`removeBlocks`), stores the new blocks (`compressBuffer`, `PushBlock`) and writes
their ids (`pwrite`). An unlink releases all ids of the file. Ledger, block files
and cells are three files that no step changes together, so every property is
about all three in the middle of a handler. Correctness: counters are exact,
block files exist for lines in use, a block in use is never given to another
text, and users cannot tell the store from one without sharing.

Hard: release before re-use of the same text; reuse of ledger lines; two-digit
counters; handlers that were left as plain system calls (`link`, `rename`,
`ftruncate`); a ledger that is one `FILE` with one cursor and no lock.

### hw2: scheduler virtual machine (`hw2/src/sjf`, `hw2/src/sjf-goodness`)

| part | state | operations |
|------|-------|------------|
| machine (`cpu.c`) | `current`, `intwaitlist`, the timers, the process tree | `runcpu`, `cycle`, `taskEnd`, `killtask`, `spawnChildren`, `forktask`, `interrupt` |
| run queue (`schedule.c`) | doubly linked ring of `task_struct`s behind `init`, `nr_running` | `activate_task`, `wake_up_new_task`, `deactivate_task`, `schedule`, `scheduler_tick` |
| policy sjf | expected bursts, `cpu_owned`, `XE`, `XD`, time slices | `calculate_expBurst`, `find_minExpBurst`, `sched_fork` |
| policy goodness | also `last_time_in_runqueue` | `calculate_goodness`, `find_maxWaitingInRQ` |
| profile parser (`cpuinit.c`) | the tree of processes to spawn; `top`, `newtask`, the count of open `SPAWN`s | `readProfile`, `readstring` |

The machine is one thread, but timers, spawn times and the random sleeps of
interactive processes make the order of its steps unpredictable: in one round of
the loop a process can end or go to sleep, a child be forked, a tick call
`schedule()`, all sleepers be woken and `schedule()` be called again.
Correctness: the ring holds the runnable tasks and nobody else, nothing freed is
reachable, children are counted right (a task must outlive its children, because
they read its `thread_info`), the CPU is not left to `init`, sleepers wake, the
machine stops, and the times it reports are times that were run. sjf must take
the shortest expected burst, goodness must not starve the others. The parser
must build the tree that the profile describes, since the machine relies on it.

### hw3: SLOB best-fit allocator (`hw3/hw3_kernel_files/slob.c`)

The kernel's SLOB allocator turned into best fit, with two system calls that read
its accounting.

| part | state | operations |
|------|-------|------------|
| page | free list written into the free memory, `sp->freelist`, `sp->units` | `slob_page_alloc`, the insertion and merging of `slob_free` |
| lists of pages | `free_slob_small`, `_medium`, `_large` | `slob_alloc`, `slob_free` |
| caches with `SLAB_DESTROY_BY_RCU` | objects that wait for a grace period | `kmem_cache_free`, `kmem_rcu_free` |
| accounting | `memory_free`, `memory_alloc` | `slob_alloc`, `slob_new_pages` |

All is done under `slob_lock`, but `slob_alloc` gives it up to ask for a page, and
RCU frees come when they like. Correctness: blocks never overlap and lie in
their page as aligned as was asked for, `units` is the free space (a page is given
back when it says so), nothing mergeable stays apart, no free block is out of
reach, the best block is chosen, `memory_free` does not promise too much.

### The rest

* `hw1/part2`: a no-op I/O elevator; each of its functions is one call of a list
  primitive of the kernel, under the kernel's lock. Not modelled.
* `hw1/part1`, `hw1/part3`: `find_roots`, a walk from a process to init that prints,
  as a system call and as a sysfs attribute. Not modelled.
* Not modelled: test programs, experiments and system-call wrappers (straight-line
  code), `log.c` (output only), `results/` (data), the build system and the
  documentation of FUSE.

## 2. Plan

1. *Done.* `HashLedger`, `Bbfs`, `FlatFs`, `BbfsReads` and the proofs about them.
2. *Done.* `SchedVm` and `SjfVm`.
3. *Done.* `SlobPage` (one page, operators), `Slob` (lists, CPUs, RCU, accounting),
   `Heap` (what callers are promised).
4. *Done.* `GoodVm`, the goodness policy on the machine of `SjfVm`.
5. *Done.* `LedgerFile`: the ledger as bytes with one cursor, as an implementation
   of `HashLedger` for one thread, and for two threads.
6. *Done.* `Profile`.
7. *Done.* Proofs of what the runs check, component by component: `SchedVmProofs`,
   `SchedsProofs`, `ProfileProofs`, `SlobProofs`, and in `BbfsProofs` the refinement
   `ImplementsFlatFs` and `ReadsExact`.
8. *Done.* `LedgerFileProofs`: the types of `LedgerFile` and, step by step, its
   refinement of `HashLedger`, for one thread.

## 3. Modules

| module | models | remarks |
|--------|--------|---------|
| `HashLedger` | the calls of `our_lib.c` on ledger and block files | operators; no `Next` of its own |
| `Bbfs` | the handlers of `bbfs.c`, extends `HashLedger` | one step per id released and per block pushed |
| `BbfsReads` | `bb_read`, `bb_getattr` | reads change nothing, so they are operators |
| `FlatFs` | what users see: names, links, files, blocks | abstract; `Bbfs` implements it in careful steps |
| `MCBbfs` | constants of the runs of the file system | |
| `HashLedgerProofs`, `BbfsProofs` | theorems about the block store and the handlers | see section 6 |
| `SchedVm` | `cpu.c` and the run queue of both `schedule.c` | policy and durations abstracted |
| `SjfVm` | policy, clock and accounting of `sjf/schedule.c`, extends `SchedVm` | each action is one of `SchedVm` with its times |
| `GoodVm` | policy of `sjf-goodness/schedule.c`, extends `SjfVm` | adds `last_time_in_runqueue` |
| `MCSchedVm`, `MCScheds` | profiles for the runs; `MCScheds` runs either scheduler | |
| `LedgerFile` | `PushBlock` and `removeBlocks` on the bytes of `hash_ledger` | implements `HashLedger` (one thread) |
| `SlobPage` | the free list of a page, in the words of the page | operators |
| `Slob` | `slob_alloc`, `slob_free`, RCU frees, extends `SlobPage` | implements `Heap` |
| `Heap` | an allocator as its callers see it | abstract |
| `Profile` | `readProfile` | one command of the file per step |
| `MCLedgerFile`, `MCSlob`, `MCProfile` | constants of their runs | |
| `Recursion` | induction and recursion over the natural numbers | lemmas for the proofs about loops |
| `SchedVmProofs`, `SchedsProofs` | theorems about the machine and about both schedulers | `SchedsProofs` extends `MCScheds`, which joins them |
| `ProfileProofs`, `SlobProofs` | theorems about parser and allocator | |
| `LedgerFileProofs` | theorems about the bytes of the ledger | an instance of `HashLedgerProofs` on their lines |

### How the file system's state corresponds to the code

`ledger` is the sequence of lines of the ledger file, `blocks` the set of BL files
with their text, `cells[f]` the ids in a file of `rootdir`, `dir` the names. `req`
holds the local variables of the handler being served: `old` is `IDsToRemove`,
`removed` the index `j` of `removeBlocks`, `out` is `compressedBuf`. A step of
`RemoveNext` is a round of the loop of `removeBlocks`; a step of `PushNext` a
round of the loop of `compressBuffer` with all of `PushBlock`, `compareHash`,
`addHash` and `createBlock` in it.

Text of a block is a model value and its hash the value of a function on it;
`NoCollision` states what README.txt:105 takes for granted. Counters are numbers
with two digits of base `Radix` (10 in the code): `LooksFree` reads the last digit
only, as the `fread` of `addHash` does, and `Bump` cuts a third digit as
`compareHash` does. Offsets and sizes count blocks, since README.txt:29-31
requires multiples of 4 KB; text is taken to be free of NUL bytes (the code uses
`strlen`). Names are flat.

External: libfuse passes the current name of an open file and renames open files
that are unlinked, so path and handle of one request name the same file; the
kernel frees a file without names (`Reclaim`); `mknod`, `rename` and `link` fail
as POSIX says.

`Calls` selects what users may do besides creating, writing and unlinking files and
renaming them to free names: `sparse` (a write past the end), `link`, `rename_over`
and `ftruncate`. README.txt:23 gives the calls the project extended (init, getattr,
read, write, unlink); the other three are system calls on the file of ids, and
`bb_truncate` returns 0 and does nothing, so it is no action.

`Careful` says which steps the counters of the ledger can follow. `CarefulSpec` lets
users make all these calls, on any files, but has no step of five kinds, each of
which bbfs.c performs without noticing. Without any one of the conditions TLC
refutes a property of the run `fs` within seconds (the last one with `Radix` 2):

| left out | because |
|----------|---------|
| a write that starts past the end of its file | the gap becomes cells that are no block (`bbfs.c:362`) |
| `bb_unlink` of a name whose file has another one | the blocks are released although the file stays (`bbfs.c:142`) |
| a `rename` or `ftruncate` that takes cells from a file or adds some | the blocks of lost cells are never released, new cells are no blocks (`bbfs.c:181, 631`) |
| the first block of a text new to the ledger, while the cells of some block number a multiple of `Radix` | `addHash` takes the line of that block (finding `fs_tens`) |
| a reference beyond those that two digits count | `Bump` cuts the counter (`our_lib.c:157`) |

So hard links, renames over files whose blocks other names keep, unlinks of files
that share blocks with others, and blocks shared by more than ten cells are all in
the regime; ten equal cells are too, until a text comes that the ledger does not know.

### How the machine's state corresponds to the code

`next`, `prev`, `nr_running`, `current`, `need_reschedule`, `children`, `kill` and
`intwaitlist` are the fields and globals of those names. `unborn` is the union of
the lists `thread_info->list`; `freed` the tasks `killtask` has freed. `pc` is the
place in `runcpu`: `cycle`, then `spawn` (the loops of `spawnChildren`), `tick` and
`io` (the two halves of `interrupt`), `wake` (the loop over `intwaitlist`),
`resched` and `end`. `segv` is the state after a NULL dereference.

A countdown may reach its end in any round: the schedule tick (`timer`), the IO
timer (`intTimer`, armed or not), the sleep of an interactive process
(`intWaitTimer`), spawn times, kill times, work durations (`due`) and the end
time. Every execution of the code is one of the model; the converse holds up to
the lengths of the countdowns. Children that are due in the same round are forked
in any order (the code takes the order of the profile).

`Schedule` of `SchedVm` lets the policy pick any queued task when there are two
or more besides `init`; this is all that the properties of `SchedVm` need, so they
hold for both schedulers. `SjfVm` adds the choice of sjf and the times. Times are
in `sched_clock()` units, `Jiffy` of them to a jiffy; a burst is taken modulo
`UintValues`, the range of the `unsigned int` it is stored in; `burst + exp/2` over
1.5 in doubles is `(2 * burst + exp) \div 3`. The fields of `init` and `idle`, which
the code computes from uninitialised memory but never uses, are left out.
`served` is a history variable: the ticks at which a process was current.

`GoodVm` keeps the machine and the times, and adds `last_time`: when a process came
into the queue by fork or wake-up, or was current at a choice. `Goodness` is the
product of two integer divisions, as in `calculate_goodness`: the expected burst
over the least one, and the longest wait over the process's own. `1 + exp_burst`
wraps with the `unsigned int` it is in.

### How the ledger file corresponds to the code

`HashLedger` takes `PushBlock` and `RemoveBlock` for one step each. `LedgerFile` has the
bytes (`file`), the cursor that all threads share (`pos`) and the locals of each
call (`loc`, with the buffers that a short `fread` leaves as they were). A step is
one access with the seek in front of it, or one round of a loop; stdio locks a
`FILE` for one of its own calls only, so real threads interleave more finely than
here, and what two threads break here they break there. A character is a number:
the digits 0 to 15 of ids, hashes and counters, and four more for the rest. A
hash is twenty hexadecimal digits, any that `HashOf` gives a text but not those of
an unused line; `MCHashOf` has digits and letters in turn, so that an `atoi` at the
wrong place finds numbers too. `atoi` skips blanks, takes digits and stops at
anything else, as in C; `Count2` writes the first two characters of three digits,
as the `fwrite` of two bytes does. `held` are the ids that files hold. `ledger` and
`blocks` are history variables: the lines of the file, read from its bytes, and the
BL files, as the last call left them. They are the refinement mapping of
`ImplementsHashLedger`, and its steps are the ends of calls.

### How the allocator's state corresponds to the code

`page[p].mem` are the words of page `p`, one to a `SLOB_UNIT`, and an address is an
offset in the page. A free block has its size and the address of the next one in
its words, or that address negated if it has only one, as `set_slob` does; the
end of the page is the end of the list (`slob_last`). Words in use are 0: what
callers write there is never read. `free_slob` are the three lists, `live` the
blocks that callers have, `rcu` those they have freed into the grace period,
`call` the requests whose CPU has let go of the lock to ask for a page. Sizes are
in bytes, so that `SLOB_UNITS` rounds. `memory_free` is kept in units; it is
recomputed by a request and never by a free, as in the code.

### How the parser's state corresponds to the code

`parent` and `list` are the links of the `thread_info`s, `top`, `newtask` and `children` the
variables of `readProfile`. `nest` and `wellformed` are history: what the file should
mean. A profile may end after any command and in the middle of one (`LastCommand`,
`LastString`, `OpenComment`). When it ends with the text of a `NAME` or `TYPE`,
`readstring` goes back a byte too far (`cpuinit.c:329`) and the last byte of the text is
read again, as a command: `;` is a comment that never ends, `#` a command without a
name, after which the file gets its ordinary verdict, and any other byte is
rejected. `LastString` has the three outcomes. `cut` is history: the file ended in a
comment or a text that no end of line follows. `VerdictRight` says that a
well-formed file hangs the parser only then; `segv` is never its outcome.

## 4. Runs

| run | configuration | what it shows |
|-----|---------------|---------------|
| `fs` | `CarefulSpec`: 2 names, 2 files of up to 3 blocks, 3 texts, buffers of 1 and 2 blocks, `Radix` 3, all calls | types; ledger addressable by position, id and hash; BL files match it; exact counters at every step; reads and sizes exact; blocks in use never replaced; refinement of `FlatFs` |
| `fs_risky` | `FairSpec`: 2 names, 2 files of 2 cells, `Radix` 2, all calls, careful or not | ledger and BL files stay consistent and every request ends, even when counters are wrong |
| `fs_tens` | `Radix` 10, ten equal blocks | finding: counter 10 looks free |
| `ledger` | one thread, two texts; one goes to 12, or over 100 alone | the file is lines that read back; each call does what `HashLedger` says, counters that look free and counters over 99 included; every call ends |
| `fs_parallel` | two threads, two texts, up to two ids each | finding: two requests at a time spoil the counters |
| `vm` | a chain of three generations and another child of init, three of the four sleep; fairness | ring, places, children, use of the CPU; sleepers wake; the machine stops unless it starves somebody |
| `vm_crash` | one process | finding: NULL dereference when the IO timer fires as init leaves |
| `scheds` | both schedulers; three processes, three jiffies, slices of two, a burst that wraps in the third | sjf: shortest expected burst first; goodness: a wait is bounded by the wait of whoever is chosen; credited time never exceeds time run |
| `sjf_credit` | one process | finding: no execution time is credited when it is alone with init |
| `slob` | two pages of seven units, two CPUs, blocks of two units, RCU objects of three, blocks of a whole page, alignment two | free lists merged, pages tiled, lists complete, no page taken in vain, `memory_free` cautious; refinement of `Heap` |
| `slob_bestfit` | one page of twenty units, alignment four | finding: the block is not the best one |
| `profile` | five processes, four open `SPAWN`s | the tree is the one of the file; the verdict is right |

### Why the bounds are enough

*File system.* What can go wrong needs two holders of one block (two files, or
two cells of one file), a third line in the ledger to be reused, and a write that
overlaps cells with and without the text it writes: two files of three cells and
three texts have all of it, and two names make links, renames to a free name and
renames over a file without blocks. With six cells the ledger has at most seven lines, and
`Radix` 3 lets counters pass 3, the first that looks free, and go on to 4 and 5, whose
last digit is not 0, and to 6. The last condition of `Careful` begins to matter with the
ninth cell of one block; it is left to the theorems. Base 2 in `fs_risky` makes
counters 10 and 100 (in base 2) reachable with four cells, and there nothing is
left out.

*Ledger.* `Copies` starts the file with no line in use or with 97 references to the
first (what 97 calls leave), so that three more calls reach the hundredth.
`Allowed` keeps the other text to one reference; it is enough for a line that
looks free to be taken from the first text. `MaxPos` stops the cursor at 150
bytes, five lines: the ledgers have at most four, and what lies behind the file is
all the same.

*Machine.* Four processes give a ring of five, three sleepers woken in one
interrupt, and a process that is both child and parent. `scheds` needs three
processes for a choice among two that did not have the CPU. `MaxJiffies` is the
only bound on a counter; three jiffies let a slice of two expire and a burst wrap
(`UintValues` 8 with 3 units to a jiffy). There the processes that are not
interactive are interchangeable; so are names, files and texts in the file
system (`FlatFs` treats them alike too, and no property with a leads-to is
checked under symmetry).

*Allocator.* Seven units hold a fragment in front of an aligned block, a remainder
behind it and a block between two free ones; an odd number leaves a single unit
at the end of a page; two pages on one list give a choice of page, and two CPUs
can both be without the lock. Requests of a list of their own (the whole page)
show that lists do not mix. No request of the run belongs to the list of small
blocks, which the code treats like the other two; `ListsHoldAll` is about all three.
`MemoryFreeCautious` is about the moments at which `memory_free` is written, and about
one side only: it never promises more than is free. It often says less, because the
size it subtracts is read from a header that may still be that of the larger block
the new one was cut from; nothing is claimed of that. Pages and CPUs are interchangeable.

*Parser.* `MaxProcs` and `MaxOpen` bound length and imbalance of a profile; five
processes nest and return twice. What a last text leaves over is one of the three
kinds of byte that the code tells apart.

### Deadlock

The file system never stops, nor does the allocator (`slob`, `slob_bestfit`), nor the
ledger of one thread: it is checked, for the file system in `fs_risky` and `fs_tens`.
`CarefulSpec` does stop, where a handler can go on only by a step that is not
careful, so it is off in `fs`. The machine stops (`done`, `segv`), `SjfVm` and
`GoodVm` also when their clock does, and the parser ends: deadlock is off there. It
is off in `fs_parallel`, which is about one invariant only.

### Fairness

`FairSpec` of `Bbfs` is weak fairness of the handler: it is straight-line code that
waits for nobody. Nothing is assumed of users. `FairSpec` of `SchedVm` is weak
fairness of the loop and strong fairness of three countdowns: `timer` and
`intTimer` are decremented in every round whoever is current and are reset only
when they fire, and the clock that leads to the kill message advances in every
round. They are strong because the step that fires is enabled at one `pc` only.
`intWaitTimer`, kill times and work durations depend on who is current; nothing
is assumed of them, nor of the policy: with any policy allowed, one could pick a
task that waits for its child for ever. `ShutsDown` therefore says that the machine
stops if it starves nobody (`Unstarved`). `FairSpec` of `LedgerFile` is weak fairness of
the steps of a call, which is straight-line code; nobody has to make a call.
`Slob`, `GoodVm` and `Profile` state no liveness: the allocator may be refused a page
for ever, and `NobodyStarves` is a bound on every choice instead of a leads-to.

## 5. Findings

Each is a run that TLC must find violated, and a defect of the code.

* `our_lib.c:44-52` (`fs_tens`): the seek in `addHash` is one byte too long, so a
  counter that ends in 0 looks free. Ten cells with one text, then any new text:
  two texts share an id, and the first one's file reads as the second.
* `bbfs.c:354` (`fs_parallel`): requests in parallel use the one cursor of the ledger;
  two writes of a new text both take the same line. With one thread and the same
  bounds the property holds.
* `slob.c:290` (`slob_bestfit`): `min_space` is set with `+ delta` where the test has
  `- delta`, so with an alignment a block that fits better is passed over.
* `cpu.c:357` with `schedule.c:85` (`vm_crash`): when `init` ends it leaves the ring and `idle` is
  current; if the IO timer fires in that same round, `schedule()` is called with
  an empty ring and `print_rq` follows the NULL link of the head. The timers of
  the code have multiples of 500 clock ticks, so it takes a profile in which a
  process ended in the round after an earlier interrupt (this delays the next
  timer by a round) and the next one expires at the end time.
* `schedule.c:115-165` (`sjf_credit`): `XE` is updated in one of three branches only.

Not runs of their own: the calls that bypass the ledger, which README.txt:23 does not
name among those the project extended. `link` (unlink of one name empties the
other), `rename` over a file (its blocks are never released), writes past the end
(cells that are no block) and `ftruncate` break the counters, or the reads, if the
condition about them is taken out of `Careful` (section 3). A counter has two digits
(`our_lib.c:157-159`): `ledger` takes it over 99 and shows that `Bump` of `HashLedger` says
what then happens.

## 6. Proofs

Every theorem holds for every value of the constants that satisfies the named
assumptions, each of which is in the module that declares the constants and is
evaluated by TLC in the runs: any number of names, files, processes, pages and
CPUs, any profile, any requests, pages of any size, integers of any width.

| theorem | says that always | module |
|---------|------------------|--------|
| `TypesHold`, `LedgerHolds`, `BlocksHold` | `TypeOK`, `LedgerOK`, `BlocksStored`, risky calls or not | `BbfsProofs` |
| `CountersExact`, `LiveBlocksKept` | `RefCountExact`, `LiveBlockKept`, in careful steps | `BbfsProofs` |
| `DedupInvisible`, `ReadsAreExact` | `Bbfs` implements `FlatFs`, `ReadsExact`, in careful steps | `BbfsProofs` |
| `TypesKept`, `LinksKept`, `RingIsOne`, `OnePlaceOnly`, `ChildrenExact`, `CpuUsedWell` | all invariants of `SchedVm` | `SchedVmProofs` |
| `SchedulersRefine` | both schedulers implement the machine | `SchedsProofs` |
| `SchedsTypesKept`, `CreditsBounded`, `GoodnessNeverWraps` | `SjfTypeOK`, `CreditBounded`, no wrap of `1 + exp_burst` | `SchedsProofs` |
| `SjfIsShortestFirst`, `GoodnessBoundsWaits` | the promises of the policies | `SchedsProofs` |
| `TypesKept`, `TreeAsWritten`, `VerdictIsRight` | all invariants of `Profile` | `ProfileProofs` |
| `TypesKept`, `NoWordLost`, `BlocksMerged`, `ListsHoldAll` | all invariants of `Slob` | `SlobProofs` |
| `GrowsOnlyWhenMust`, `MemoryIsThere`, `SlobIsHeap` | its action properties; `Slob` implements `Heap` | `SlobProofs` |
| `LedgerFileTypes`, `LedgerFileRefines` | `TypeOK` of `LedgerFile`; its bytes implement `HashLedger`, both if `Alone` | `LedgerFileProofs` |

### The block store

* The inductive invariant of `BbfsProofs` is `TypeInv`: `TypeOK`, `LedgerInv` and
  `HandlerOK`, for every set `Calls` and every `Radix`, so the store cannot be
  corrupted in these ways even by the calls that break its counters.
  `HandlerOK` is needed because the steps of a handler use what earlier steps of
  the same handler left in `req` (that the file still exists, that `removed` does
  not exceed the ids). `HashLedgerProofs` shows what each call of `our_lib.c` does
  to `LedgerInv`; the heart is `AddHash`: turning the sentinel or a free line into
  a used one keeps hashes distinct because the hash was searched for first, and
  ids equal to positions because a new sentinel gets the id after the last one.
* The theorems about exact counters have the form `Spec /\ [][Careful]_vars => ...`: of
  every behavior of the program, with all calls and any numbers of names, files,
  blocks and cells, in which no step is of the five kinds of section 3. Nothing is asked of
  the constants, and none of the five conditions can be dropped. The inductive
  invariant adds `SharingInv`: `FilesOK` (cells are lines of the ledger, and a file without
  a name has none), `OldOK` (the ids to release are those of the cells about to be
  replaced, and a file being removed has no other name) and `RefCountExact` itself.
  The count is over `HeldId`, which gives each cell the id it holds *for the
  handler*: none once released, the new one once pushed. `RemoveNext` and
  `PushNext` each move one cell, so one counter changes by one, which `Bump` and the
  two digits of the field do as long as it stays below `Radix` squared; `Pwrite`,
  `FinishUnlink` and the calls between requests change no `HeldId` at all. `LooksFree` is the
  test of the last digit, so the line that is reused has no holder or a round
  number of them, and a careful step with a new text has none of the latter.
* `DedupInvisible` needs two facts more (`Safe`). `Visible`: a cell that is not about to be
  replaced holds its id, so its counter is not 0 and its BL file is there; it
  follows from the exact counters. `Pushed`: the blocks pushed so far have the text
  they were pushed for; a line that is shared has that text because hashes do not
  collide (`NoCollision`), and it keeps it because no block in use is replaced.
  Then the start of a request is a step of `FlatFs` that marks the cells, the end one
  that gives them the new text (`PwriteFlat`) or empties the file, and the steps in
  between change nothing that is seen, although they change ledger and BL files.
  `ReadsAreExact` follows from `Visible` with no request under way; `ReadsAssumption`
  says that NULL is not a text.

### The bytes of the ledger

`HashLedger` has lines, the program has a `FILE`. `LedgerFileRefines` joins them: for any
texts, hashes, files and order of calls, what `compareHash`, `addHash` and
`removeBlocks` do with `fseek`, `fread`, `atoi` and `fwrite` is what `PushBlock` and
`RemoveBlock` of `HashLedger` say. That holds of the defects too: a counter that
ends in 0 is taken for a free line, and `99 + 1` is written as 10.

* The hypothesis `Alone` is that there is one thread (the option `-s`; with two the
  run `fs_parallel` refutes it), that there are fewer than 999 texts, so that ids have
  the three digits the file has room for, and that `MaxPos`, TLC's bound on the cursor,
  is not below the length of the longest file. TLC checks `Alone` and `IInv` on the
  constants and the states of `ledger`.
* The inductive invariant `IInv` has `LedgerInv` of `HashLedger` (for `ledger` and
  `blocks`), `Encodes(file, ledger)`: byte `o` of line `k` of the file is byte `o` of the
  text of that line; and `Where`: the cursor, the buffers and the flags of the call,
  for each place it can be at. `TypeOK` alone says nothing of where the cursor is, and
  every write is relative to it. Between the write of a line and `createBlock` the
  file is already the next ledger (`AtBlock`) while `ledger` is still the last.
* `ReadBack` is that lines survive the way through the file: the ids and counters
  that are written are those `atoi` reads (`AtoiId`, `AtoiCount`). `PutField` is that a
  write inside a field of line `k` changes that line and no other. `LookFreeInv` has the
  heart of the finding `fs_tens`: the two bytes that `addHash` reads for a counter are
  its last digit and the end of line, which is `LooksFree`. That loop has no test for
  the end of the file; it stays inside because the last line always looks free.
* That ids have three digits is a matter of counting (`LedgerFits`, by the
  pigeonhole principle): all lines but the last have the hash of a text, two have
  never the same, so there is at most one line more than there are texts, and the
  new last line is only written when the text in use had none.
* `LedgerInv` at the end of a call is not proved again: `HL` is an instance of
  `HashLedgerProofs` on the lines of the file (`PushKeeps`, `RemoveKeeps`).

### The machine and the schedulers

* None of the invariants of `SchedVm` is inductive alone. `IInv` is all of them with:
  `Connected` (a set of tasks that holds `init` and is closed under `next` holds the
  whole queue: `LinksOK` would allow several rings), `Counted` (`nr_running` is the
  length of the ring), `Rooted` (no process descends from itself, because a
  parent must live to spawn; so a set of living processes always has one whose
  parent is outside of it), and `CpuInv` (whoever has the CPU while the queue has
  somebody better is about to be rescheduled). `OneRing` speaks of a walk of `next`;
  that the walk meets all of a connected set, and no task twice before it is back,
  is shown by induction (`Recursion`).
* The library's induction theorems take an operator as parameter, which the
  installed provers cannot instantiate. `Recursion` states induction with a *set* of
  numbers and proves it from the pigeonhole principle for finite sets: were some
  `n` not in it, pushing its members in `0..n` up by one would put `n + 1` numbers
  into `1..n`. Recursive functions are shown to exist in the same way.
* `SchedulersRefine` drops the clock and the policy from each action of `SjfVm` and
  `GoodVm` and finds an action of `SchedVm`. `SInv` of `SchedsProofs` adds to `IInv`:
  `Existed` (a process has existed for at least the jiffies it ran), `BurstBounded` (the
  time that the burst of the current process will credit it with was run),
  `LastOK` (nobody joins the queue in the future), and `NoWrap`: an expected burst
  stays two below the number of values of `unsigned int`. The reason is that it is
  a mean of bursts below that number and starts at 0; so `1 + exp_burst` in
  `calculate_goodness` never wraps, and a goodness of 0 means the longest waiter.
  The proof needs `UintValues` to be neither 0 nor 1.

### The parser

`IInv` of `ProfileProofs` adds to the types `Listed` (each `thread_info` is in the list of its
parent, also in the trees of files that are not well-formed) and, as long as the
file is well-formed, `Nested`: the open processes of the file are those on the path
of parents from `newtask` or `top`. Processes in the order of the file follow because
numbers are given in that order and lists are appended to.

### The allocator

The argument goes from the words of a page up. A memory is `Chained` over a set of
addresses if the words at them link these in ascending order. The parts of
`slob_page_alloc` and `slob_free` turn a chain into another (`SplitChain`, `UnlinkChain`,
`FrontChain`, `GlueChains`), the loops over the free blocks of a page meet exactly
those of the chain (`FreeBlocksFacts`, by induction), and so `find_min_block` and the
search in `slob_free` find what they look for. A page is `Divided` if the blocks of a
chain, none of them touching the next, cover exactly the words that are not in
use, and `units` is their number. `SInv` says so of every page of SLOB and that each
has a block in use (`PagesInv`), that blocks in use are disjoint and in a page
(`LiveInv`), and that the lists hold the pages with free units, each once (`ListsInv`).
`SlobIsHeap` reads the steps of `Heap` off it.

`MemoryFreeCautious` compares an accounting variable that is written at requests
only with the pages before and after; for it `IInv` bounds `memory_free` by the units
of all pages (`Pages` is finite). A request is of one word at least and of a page at
most, as `kmalloc` and `kmem_cache_alloc` see to, and a page has more than one unit
(in the code it has 2048 of two bytes).

### Only model-checked

Liveness (`RequestsEnd`, `CallsEnd`, `SleepersWake`, `ShutsDown`) is out of the prover's
reach. Every other property of a run that passes is stated by a theorem; what
`LedgerFile` does with several threads is left to `fs_parallel`. The five findings
are counterexamples, which a proof could not replace.

## 7. Not modelled, and why

* `hw4`: the temporary file that `bb_read` shares between readers, descriptors that
  are never closed, and restarts are hazards listed in `PROJECT.json` without a
  property: each is a fact of one line that a model would restate, and the
  documents promise nothing about it (README.txt:29 calls the system volatile).
  Directories, attributes and extended attributes are system calls passed
  through. Partial blocks (sizes that are no multiple of 4 KB) are excluded by
  README.txt.
* `hw3`: requests of a page or more go to the page allocator; `memory_alloc` counts
  calls in sizes of pointers and stands for nothing in the model; the build with
  `DEFAULT_ALLOCATOR` does not compile. A `slob_page_alloc` that fails on the page just
  chosen cannot happen under the lock.
* `hw2`: the values of a profile's fields, and the formatting of the results.
* `hw1`: wrappers of kernel lists and a walk along kernel links, without state of
  their own; what could go wrong is in code that is not in this repository.
