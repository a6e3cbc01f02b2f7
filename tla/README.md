# cs5460: specifications, model checking and proofs

The repository holds the assignments of an operating systems course: kernel
modules (hw1, hw2, hw4), locks and a queue for pthreads (hw3) and two file
systems (hw5: a user-space one and a change of the Minix file system of Linux).
This directory holds TLA+ modules for the parts with state and concurrency, TLC
configurations that check them, and proofs for TLAPS.

## 1. Inventory

| part | state | operations | what is hard |
|---|---|---|---|
| bakery lock, `hw3/submit/problem_1.c` to `3.c` | `choosing`, `ticket`, `in_cs`, `is_stop` | `lock`, `unlock`, `max`, `get_in_line`, `main` | store buffers, loads that are repeated, order of service |
| spin locks, `problem_4.c`, `problem_5.c`, `problem_7.c` | `lock`, or `waiting` and `serving` | `spin_lock`, `spin_unlock` | counters that overflow, starvation, release by a plain store |
| ring queue, `problem_6.c`, `problem_7.c` | `value[32]`, `head`, `tail`, `enque_v`, `deque_v`, `cnt` | `enq`, `deq`, `produce`, `consume`, `main` | full against empty, reset of the last element, the end of the program |
| sleepy device, `hw4/sleepy.c` | `data`, `flag`, `sleepy_mutex`, `wait_queue` | `sleepy_read`, `sleepy_write`; construct, destroy | lost wakeups, stale flag, time-out against wake |
| ticket device, `hw2/ticket.c` | `ticket_num`, a mutex | `ticket_read`; construct, destroy | device live before it is initialised, failure half way |
| shady module, `hw4/shady.c` | a saved system call pointer | init, cleanup | life cycle as above |
| Minix with extents, `hw5_b` | seven extents per inode, zone and inode bitmaps | `get_block`, `truncate`, `minix_new_block`, `minix_free_block`, `namei.c` | mapping stable, blocks freed once and by their owner, full file system |
| Minix with indirect blocks, `hw5`, `hw5_1` | the tree of indirect blocks | as above | get_block against truncate, EAGAIN |
| mounting, `hw5_b/inode.c` | `s_state`, `s_mount_state` | `minix_fill_super`, `minix_remount`, `minix_put_super` | crashes, a flag that must not come back |
| user-space file system, `hw5/p5.c` | inode and block bitmaps, directories, open files | `my_open` ... `my_mkfs` | bitmaps against references, failing rename, watermarks |

How they interact: the hw3 programs are threads of one process that share
memory under a lock; problem_7.c puts the queue of problem_6.c under any of the
locks. Processes call into sleepy.c concurrently and meet at its mutex and its
wait queue. The file systems are called by the VFS (hw5_b) or by one
single-threaded program (p5.c); namei.c and dir.c call inode.c and bitmap.c, and
the block map calls bitmap.c.

### What makes each part correct

- Locks: no two threads inside, stores still in a buffer included; service in
  the order of the tickets; every thread that waits is served; the program ends.
- Queue: a bounded FIFO, nothing lost, overwritten or delivered twice; the
  counters that main adds up are right; the program ends whatever is left in it.
- sleepy: no lost wakeup; a flag that does not outlive the writers it was raised
  for; a write sleeps for its own number; the mutex is given back on each path.
- Minix with extents: a zone is handed out once, found again, freed by its
  owner and by nobody else, and no zone leaks.
- Minix with indirect blocks: the same, for a block that two calls look for,
  allocate or cut off at a time.
- Directories (hw5_b): link counts equal directory entries, whatever step fails;
  an inode is freed once, after its last user; what is not dirty is on disk.
- Mounting: a file system that is marked valid is.
- User-space file system: bitmaps agree with what the tree refers to; names in a
  folder differ; a rename that fails leaves the old name.
- Module life cycle: nothing is used before it is initialised or after it is
  destroyed, and a load that fails leaves nothing behind.

## 2. Modules

| module | models | built on |
|---|---|---|
| `TSO` | store buffers and loads of x86 | |
| `Mutex` | abstract: what every lock promises | |
| `Bakery` | `problem_3.c` | `TSO`, implements `Mutex` |
| `BakeryProofs` | theorems about it | `Bakery` |
| `SpinLocks` | `problem_4.c`, `problem_5.c`, the spin locks of `problem_7.c` | `TSO`, implements `Mutex` |
| `SpinLocksProofs` | theorems about it | `SpinLocks` |
| `Fifo` | abstract: a bounded FIFO of 0, 1, 2, ... | |
| `ProducerConsumer` | `problem_6.c`, `problem_7.c` | uses `Mutex`, implements `Fifo` |
| `ProducerConsumerProofs` | theorems about it | `ProducerConsumer` |
| `Sleepy` | `sleepy_read`, `sleepy_write` of `sleepy.c` | |
| `SleepyProofs` | theorems about it | `Sleepy` |
| `Extents` | `get_block`, `truncate` of hw5_b/itree_common.c, zones of bitmap.c | |
| `ExtentsProofs` | theorems about it | `Extents` |
| `IndirectTree` | `get_block`, `truncate` of hw5/itree_common.c, V1 | |
| `IndirectTreeProofs` | theorems about it | `IndirectTree` |
| `Namei` | hw5_b/namei.c, dir.c, the inodes of bitmap.c and inode.c | |
| `Mount` | `fill_super`, `remount`, `put_super` of hw5_b/inode.c, crashes | composed with `Namei` |
| `NameiProofs` | theorems about the two | `Mount` |
| `CharDev` | `ticket.c`, the life cycle of `sleepy.c` and `shady.c` | |
| `CharDevProofs` | theorems about it | `CharDev` |
| `P5` | `p5.c` over `block.c` | |
| `MC...` | constants for TLC, one `.cfg` per run | |

A definition whose comment begins with "Variant:" is a wrong form of the
definition after it. No specification uses it; it shows that the properties tell
the two apart.

### Locks: `TSO`, `Mutex`, `Bakery`, `SpinLocks`

Every load and store in the source is taken to happen, once, in its place. Of
`problem_3.c` and the lock of `problem_4.c` this is what `volatile` says. `waiting`
and `serving` of `problem_5.c:25` and `problem_7.c:109` are plain ints, of which
only the xadd takes a volatile pointer: the loop over `serving` loads it again and
again because the programs are compiled without optimisation (`-o2` in the command
line of `problem_7.c:23` names a file; the `problem_5` in the repository has the
load in its loop). An optimising compiler may move it out of the loop, and what is
shown of the ticket lock is not about such a build. Each access is a step. A store
goes to the thread's buffer and reaches memory by a step `Drain`; a load takes the
newest own buffered value; `mfence` and locked instructions wait for an empty
buffer. That a store may be seen late is the whole difficulty of `problem_3.c`,
which differs from `problem_1.c` by two fences: the variant `MFenceAbsent` is
`problem_1.c`, and the invariants fail for it.

`pc[t]` follows `get_in_line`, `lock` or `spin_lock`, `unlock`; `main` sleeps,
sets `is_stop`, joins and frees. A failed assert leaves the thread at
`"aborted"`. `Bakery` keeps one step per load even inside one expression:
`max()` loads `arr[i]` twice, the second `while` of `lock()` loads `ticket[i]`
up to three times. `stage` is the refinement mapping to `Mutex`: a thread holds
the lock until memory shows its release, not only until it has issued it.

`SpinLocks` has the three programs as values of `build`, chosen in `Init`. Its
refinement of `Mutex` is one of safety only, for the cmpxchg lock serves whom it
likes. The counters are ints of a width given by `IntMax`, and wrap.

### Queue: `Fifo`, `ProducerConsumer`

`problem_7.c` calls `enq` and `deq` under one of four locks. `ProducerConsumer`
takes the abstract `Mutex`, so what it shows holds for each lock that implements
it; every statement under the lock is a step, with the counters `cnt` outside of
it. `items`, the ring between head and tail, is the mapping to `Fifo`.

### `Sleepy`

`sleepy_mutex` is held around the accesses to `data` and `flag`, and released
during the sleep. The macro `wait_event_interruptible_timeout` is modelled step
by step (check; prepare_to_wait, check, signal_pending, schedule_timeout in a
loop; finish_wait), as Linux 3.2 has it, for it loads `dev->flag` without the
mutex. Jiffies pass between any two steps; signals arrive where the code looks
at them; user copies may fail.

### `Extents`

One step per load and store of an inode word, one step per critical section of
`bitmap_lock`. A process is a call of the VFS. Which calls may overlap is taken
from the kernel: `write_begin` and `setattr` hold the i_mutex of the inode,
`writepage` and `readpage` do not, and all but truncate hold the lock of their
page. So two calls never extend a file at the same sector, but a `writepage` of a
hole may overlap with a write to another page or with `truncate` of the same file,
and nothing in itree_common.c orders them (`pointers_lock` is not taken by the
extent code).

The code has faults that would hide everything else if the properties did not
name them. Three histories do, each set where the mishap happens: `damaged` (a
zone in use is freed), `raced` (a word is stored from an old load), `overrun` (an
inode is full and its first extent is stored over). The properties say what is
right as long as these have not happened, and `InDataZones` what is right whatever
happens. Section 5 says how to see the faults.

### `IndirectTree`

The indirect blocks of one V1 inode, with the path of `block_to_path`, the chain
of `get_branch` (`chain`, with the pointer that was read and the key it held), the
branch of `alloc_branch` (`branch`) and the list of what `truncate` has still to
clear and to free (`tasks`). What runs under `pointers_lock` is a step, and so is
each load or store outside of it: `truncate` clears pointers without the lock.
Which calls overlap comes from the VFS, as in `Extents`: write and truncate hold
i_mutex, writepage holds its page, bmap nothing. Reads of indirect blocks fail and
the device fills up. `unread` names the blocks that are lost because
`free_branches` could not read what points to them.

### `Namei` and `Mount`

A call of namei.c is one step, for the VFS holds the mutexes of the inodes it
changes. Each of its failures is a disjunct: before anything, in
`minix_prepare_chunk` (`"prepare"`, the entry is as before) and in
`dir_commit_chunk` of a mount with dirsync (`"commit"`, the entry has changed and
the call returns an error all the same). Link counts are unsigned and wrap. An
inode is in core or out; `WriteInode`, `Reclaim`, `Evict`, `ClearInode` and
`ClearBit` are steps of their own between the calls, with a user who holds a
removed file. `hurt` collects the inodes whose counts a commit error, or an error
that rename ignores, has spoilt; the invariants hold for all others.

An entry that a failed commit has left may name an inode that is freed afterwards.
`minix_lookup` and `minix_iget` follow it: neither looks at the bitmap or at the link
count. In the model such a lookup gives the whole tree up (`hurt` = `Ino`), for the
number may be taken anew while the old inode is in core. A directory that rmdir,
rename or the failure of mkdir has done away with is `dead`: the VFS makes no name in
it any more (S_DEAD of Linux; after mkdir nobody ever gets at it).

`Mount` adds the superblock: `MINIX_VALID_FS` in the buffer (`s_state`), on the disk
(`s_ondisk`) and at mount time (`s_mount_state`), unmounts, mounts read-only or not,
remounts, and a crash at any step, which loses the inodes in core and the buffer
of the superblock. The other buffers are taken for the disk.

### `CharDev`

One loader runs init, construct for each device and, after a failure or rmmod,
destroy and cleanup; processes open, read and close. `driver` says which of the
three modules it is: they share the code and differ in what a device gets after
`cdev_add`. Every kernel call of the load may fail. `loader.last` is the number of
devices that cleanup is told to destroy.

### `P5`

p5.c is one process and keeps everything on the device, so a function is one
step; `my_read` and `my_write` go block by block. Bitmaps have bytes of `BYTE` bits,
and `SET`, `RESET` and the test of a bit do what the shifts of a signed char do: they
take the bits before the one that is meant along. Searches start at the watermarks and
go through the map block by block. The one for a block wraps behind the last map block
but one, whatever size `dev_open` reports: a block behind the end of the device is
handed out, and writing it fails (`"beyond"`). With the watermark behind the last map
block, the search reads the first inode for a map. A path is a sequence of names.

`openedFileNum` is counted up by `my_open` and `my_creat` and down by each `my_close`,
which does not ask whether the descriptor is in use. `surplus` counts the closes
of descriptors that were not: by so many `openedFileNum` is too low, and then the
check of it against the size of the array no longer keeps `my_open` from finding no
place, and ending without a value (`"unreturned"`).

`fate` tells what the code has done that C or block.c do not define (a table used
unread, a name stored behind a folder, -1 used as a number, a block behind the
device, a block handed out twice, no place left for a descriptor, a descriptor of a
removed file used). A
behaviour is followed up to there, and the properties say that there is no other
way to lose anything.

## 3. Runs

| run | instance | shows |
|---|---|---|
| `bakery` | N = 2, 2 entries each, fair | exclusion, asserts, order of service, refinement of `Mutex` with service for everyone, termination |
| `spin_locks` | 3 threads, two-bit ints, fair | both locks implement the safety of `Mutex`; the ticket lock serves in order, across the overflow too; the program ends (`Termination`) |
| `spin_lock_reset` | `problem_5.c`, 2 threads | **violation**: the reset after an overflow lets both in |
| `producer_consumer` | 2 + 2 threads, ring of 2, 3 items, fair | FIFO, counters, termination |
| `sleepy` | 2 writers, 1 reader, 3 calls, 1 s = 2 jiffies, fair | flag, wakeups, every call returns |
| `char_dev` | 3 drivers, 2 devices, 2 processes | nothing left behind, no use before or after its time, tickets, the hook |
| `extents` | 2 calls, 2 inodes, 4 zones, 2 words, lengths below 2 | ownership, accounting, keeping of zones |
| `extents_sequential` | 1 call, 2 inodes, 6 zones, lengths below 4, all sectors | the search over the extents |
| `indirect_tree` | 2 calls, 4 blocks, 1 direct pointer, 2 in a block | ownership, what stays and what goes, what is returned |
| `minix_names` | 4 inodes, 2 names, 2 calls from any sound tree | link counts, inodes, disk, `..`, errors, the valid bit |
| `p5_tree` | 3 inodes beside the root, 2 names, paths of 2, 3 blocks with the root's, 2 descriptors, 1 surplus close | names, bitmaps, descriptors |
| `p5_data` | 1 name, blocks of 2 bytes, 1 direct block, tables of 2 | what is read back, blocks of tables, three map blocks |

Why the bounds are enough to be interesting:

- Bakery: two entries let a thread come back while the other still looks at its
  old number, also between the two loads of `max()`. What holds for every N and
  every number of entries is proved (section 4).
- SpinLocks: two-bit ints overflow every four turns. Three threads is one less
  than the lock can bear with such ints. The loop needs no bound: the state
  space is finite.
- ProducerConsumer: with a ring of 2 and 3 items the queue is full, empty, wraps
  around and resets head and tail.
- Sleepy: three calls let a write come after a read that decided on an older
  one. A number is negative, 0 or 1 second; two jiffies to a second tell a wait
  in seconds from one in jiffies. `MaxElapsed` stands for all longer times.
- Extents: there is no bound on the number of calls. Two words and lengths below
  2 make an inode full with four zones; sector 4 is also the number of a zone.
  `extents` and `extents_sequential` follow a behaviour up to the first zone that
  is freed in use (the constraint `Undamaged`): after it only `InDataZones` says
  anything.
- CharDev: the second of two devices fails while the first is live and in use.
  `MaxTickets` = 5 bounds the tickets and is more than `FirstTicket`: a device
  that is read more than FirstTicket times before init stores the first number
  gives a ticket twice, and a smaller bound would hide it. `TicketsGivenOnce`
  makes room for this by name.
- IndirectTree: a file of seven sectors, of which calls ask for the direct one,
  one behind the indirect block and both behind the first block of the double
  indirect one (`Sector`); truncate cuts at these and right behind them. Four blocks are one
  path to the last sector and one block more, so that the device fills up inside
  `alloc_branch`. No bound on the number of calls.
- Namei: a root, two directories and one more inode, with a directory moved from
  one to the other and onto another. `LinkMax` = 4 is reached by two directories
  in a directory. Every sound tree is an initial state, so two calls (`MaxCalls`)
  follow each history of sound trees. `MaxHurt` = 0: no call begins on a spoilt
  tree. One inode is held by a user at a time (`MaxHeld`). After a crash only the
  superblock is followed.
- P5: bytes of two bits have a bit that takes another one along. `p5_tree`: two
  levels of folders, folders of two slots, a device that is full after three
  blocks, and two descriptors: one is chosen while another is in use, and one
  that has lost its file lives beside another. One close of a descriptor that is not in
  use (`MaxSurplus`) takes the count below the descriptors and below 0, and lets
  my_open run off the end of the array. With one map block the search for a block
  never wraps there. `p5_data`: a file that reaches the end of its second table, on a
  device with three map blocks and on one that ends in the second. Both stop at the
  first call that leaves the device unsound (`OnlySound`).

Files, calls, processes, names and buffers are interchangeable, and so declared
symmetric in the runs of safety only; threads of the bakery are not.

Fairness. Threads of a preemptive scheduler run again and again: weak fairness of
each thread's steps, of the draining of each buffer, and of main. No lock is
assumed fair. That the bakery serves everyone who waits is part of its
`ImplementsMutex`, and follows from weak fairness; of the spin locks that property
is safety only, and their progress is `Termination`. ProducerConsumer assumes of
the lock only that a thread which can take it continuously does. `Termination`
needs no more, since after `is_stop` every thread leaves within one round, so that
the competition for the lock ends. In Sleepy jiffies advance, and a process that
can go on does. Nobody has to make a call. The other modules have safety only.

Deadlock is checked except in `spin_lock_reset`, where a failed assert ends the
program, in `char_dev`, which stops when a module is gone, and in `minix_names`,
where the calls run out; the other modules have an explicit step for the end of a
program, or none.

## 4. Proofs

`BakeryProofs` proves, for every N and any number of entries, that `Spec`
implies `[]TypeOK`, `[]MutualExclusion`, `[]NoAssertFails`,
`[]FirstComeFirstServed`, `[]MaxCoversWaiting`, and that it implements
`Mutex!Spec`. The assumptions are that N and MaxEntries are positive.

None of the properties is inductive. The key to the strengthening `IInv` is
that, outside the doorway, a thread issues the same seven stores in each round in
the same order (`Stores`). Its label says how many it has issued, the length of
its buffer how many memory has not seen, and memory is known from the
difference. `IInv` is the conjunction of

- `LowInv`: `TypeOK` and, for each thread, its locals (`LocalInv`) and its
  buffer together with its elements of `choosing` and `ticket` (`BufferInv`);
- `AheadInv(j)`: the threads that waited before j began to pick keep their
  number, and m covers those that j has compared. The second load of `arr[i]` in
  `max()` may return 0 or a newer number, but not for a thread in `ahead[j]`;
- `PassInv(t, j)`: once t has passed j in the loop of `lock()`, j has no number,
  or one after t's, or is in the doorway with t in `ahead[j]` and will draw a
  larger one. This is Lamport's argument, with a case for each load of t and with
  stores of j still in its buffer;
- `CounterInv`: `in_cs` in memory is what the thread inside has drained, and no
  assert has failed.

Exclusion follows from `PassInv` in both directions; `HeldIsInMemory` ties the
threads that hold the lock to the numbers in memory.

Each conjunct has a lemma that a step preserves it, split by action. Draining
has lemmas of its own, since it is the step that changes what others see. For
the refinement, a step of Bakery changes the stage of one thread at most, and
only as `Mutex` allows; exclusion gives the guard of `Acquire`.

Everything rests on two facts on loads (`LoadMemory`, `LoadNewest`): without a
pending store a load takes memory, and the store added last is the one found.

`SpinLocksProofs` proves of the locks of `problem_4.c` and `problem_7.c` that no
assert fails, that service is in the order of arrival, and that both implement
`Mutex`, for every width of an int. `ThreadAssumption` says what the code needs:
not more threads than an int has values. `problem_5.c` is the third value of
`build`, and wrong with two threads (section 5). What is said of all builds
therefore has the hypothesis `ResetAlone`, that nobody shares that program, and the
invariant has the form `Tame => Inv`; `ServedInOrder`, which is about `problem_7.c`
alone, needs no hypothesis. The parts of `Inv`:

- `PlaceInv`, `BufferInv` and `SectionInv`: which stores a thread can have in its
  buffer at each label, and that in_cs is in memory or is its newest store;
- `HeldInv`: exclusion up to the moment when memory shows the release, not only up
  to the store. The cmpxchg finds 0 in memory only if no one holds the lock;
- `LineInv`, for the ticket lock: those that wait or are inside stand in a line
  without repetition, and the place in line gives the turn, counted from `serving`
  with the wrap of an int. Two places have two turns since the line is not longer
  than an int has values, by a pigeonhole argument from `ThreadAssumption`.

`ProducerConsumerProofs` proves that no assert fails and that the ring implements
`Fifo`, for every size of the ring and any number of threads. `QueueInv` is the
closed form of the ring: `count` numbers from `first` on lie in it from `head` on.
While a thread is between two statements of enq or deq the form is another one
for each label (`QueueAt`), which is sound because one thread is inside
(`Exclusion`, from the states of the abstract lock). Positions are computed by an
addition and at most one subtraction (`Pos`), and the remainders of the code are
shown to be that. The refinement changes `items` in two steps of the code only, the
increments of `enque_v` and `deque_v`. `Accounting` sums counters over a set of
threads: that the sum is defined (`SumExists`) and goes up with one summand
(`SumStep`) are inductions over subsets. The provers cannot instantiate the induction
theorems of the library, but they can take the minimal element of a set of
counterexamples (`MinimalSubset`), since strict inclusion is well-founded.

`SleepyProofs` proves `MutexDiscipline`, `NoLostWakeup`, `FlagHasResetter` and
`SleepsForItsNumber` for any number of writers, readers and jiffies. They need each
other and three more facts: who is in the wait queue is inside the macro; when a
reader is about to raise the flag, a writer it saw in the queue is still there or
waits for the mutex the reader holds, so that somebody will reset it; from the copy
to the load of its local, `data` is what this writer stored.

`CharDevProofs` proves the four invariants of `CharDev` for any number of devices
and processes. `LoaderInv` says what the module has of the kernel at each step of
the loader, `DeviceInv(d)` how far device d has come, from its place before, at or
after the loop variable, or after `loader.last`. `FileInv` and `MutexInv` bind the
files and the mutexes together, `TicketInv` counts the tickets, with the one a reader
has in its hands.

`ExtentsProofs` proves `[]TypeOK` and `[]InDataZones` of `Extents` for all
values of the constants that `FileAssumption` and `ZoneAssumption` allow. Its
`IInv` adds to the types that every extent in an inode reaches over data zones
only (`WordInv`), and what a call knows at each label (`CallInv`):

- a search has counted no more blocks than it looks for, so that the zone it
  computes lies in the extent it just loaded;
- a call about to extend holds a word some inode once had, at an offset that
  leaves room for one more word. Others may have changed that word since. The
  longer extent ends at the zone of the call all the same, which is a data zone;
- the numbers that truncate frees pass the last zone by at most the length of
  its loop, so `minix_free_block` ignores them and no bit is lost.

There is one lemma per action. Each builds the new record of the call, and
`OneCall` carries the records of the others.

With `IInv`, `OwnedOnce` and `BusyAccounted` are inductive (`OInv`). Three lemmas do
the work: most steps are `Quiet`; a number that is freed was not in use, or
`damaged` says so (`Freed`); and a store of alloc_extent() that is not late puts the
zone of the call into one word, which keeps what it had unless `overrun` says so
(`ExtendWord`). `ZeroWordOwned` is where the length of the loop of truncate counts.
`KeepsZones` is an action property, and follows from `ExtendWord` and from which
actions store words at all.

`IndirectTreeProofs` proves the safety of `IndirectTree` for any number of
processes, blocks and pointers, for any `DIRECT` and `PTRS` from 1 on. The only
assumption besides is that nobody is not a process (`ProcessAssumption`). That the
three counts of `Holders` add up to one is not inductive, and neither is
anything that speaks of the tree from its root down only: a block that truncate
has cut off still has blocks below it. `IInv` therefore says, of every block, what
it is for: there is a function `own` (`Forest`) that gives each a tag, the pointer
that leads to it, or the branch of a call, a task of a truncate, lost, or free.

- `Links`: pointers and tags correspond, in tables that are in the tree, cut off or
  lost. So each has one pointer to it, and a walk along tags ends at one root;
- `Holds`: what is tagged branch or whole is in the branch or the tasks of a call;
- `Cutoff`: what could not be read stays together, under one root;
- `ChainInv`, `BranchInv`, `TasksInv`: a chain goes where the path of its sector
  goes, and that of a truncate holds at every moment, for only a truncate takes
  pointers away and `mutex` allows one; a branch hangs together under its head;
  the cells that truncate has still to clear are the ends of the indirect blocks
  on the path of i_size.

`OwnedOnce` follows: the tag of a block leads up to one root (`Root`), so exactly
one of the three cardinalities of `Holders` is 1 and the others are 0.

`KeepsBlocks`, `MapsWhatItReturns` and `TruncateDone` are about walks over the tree
(`Walk`), which most steps leave as they are (`WalkQuiet`): they change blocks no
walk comes through, and new blocks are such until they are spliced. A splice hangs
its branch under a pointer that was vacant, so it changes the walks that ended
there and no others (`SplicedWalk`, `SplicedOthers`). A cell that truncate clears
lies behind the end of the file (`EndsBehind`); what `find_shared` cuts off does as
well, unless the chain ends above the place where the walk does, and then what is
below goes into `unread`. That the block returned is the one mapped follows from a
chain that is verified being the walk (`ChainWalk`), and from the splice being at
the end of one.

`TruncateDone` needs a second invariant (`EndInv`), of sectors that are mapped behind
the end: only a truncate on its way, or a write that has yet to move the end, may
leave one (`Excused`); the list of a truncate has the cell of a pointer on the way
to each (`Remaining`), which is where the order of `find_shared`, what it cuts off
and how far each end reaches has to be right; and below a pointer that was vacant
when `find_shared` read it, there is nothing behind the end even if somebody has
filled it since (`Short`), so that a branch that has grown may stay whole.

`NameiProofs` proves everything that the run `minix_names` checks of `Namei` and
`Mount`, for any number of inodes, names, links and calls, and, unlike the run,
for calls that begin on a spoilt tree and for mounts after a crash. There are four
invariants, one upon the other. The second and the third hold until a tree is given
up altogether (`hurt` = `Ino`), by a lookup of a freed inode or a crash that leaves
the disk unsound; the properties are about what is not in `hurt`, or, as
`DiskAgrees`, make that exception.

- `PlainInv` holds of every tree: the types, and `Rooted`, that a directory in which
  a name may be made has an entry itself unless it is spoilt. The code does not
  ask for the entry: that it is there is due to `dead`;
- `MountInv` is about one inode at a time: in core against the disk and the bitmap.
  A call is a `CallShape`: some numbers are taken, links are counted in core, the
  inodes in core stay there. After a crash an entry may name an inode that was never
  written, so that `Live`, without which a lookup would not be sound, holds up to
  the first crash only;
- `TreeInv` is about counts against entries. It is `Sound` of a record (entries,
  `..`, kinds, counts, wherever they are) and of the set `hurt`, so that what it is to
  set, clear or move an entry is proved once (`TreeAdds` to `TreeMovesDir`), with
  cardinalities, and each call is then shown to be one of these. Properties about
  inodes that are not spoilt do not make it inductive: `Home` says of spoilt
  directories as well that they are where their `..` says, unless that directory
  is spoilt too. Otherwise a directory could gain or lose a link by what is done to
  a spoilt one in it;
- `FlagInv` is about the valid bit: until a crash it is set just while nothing can be
  written, and then everything is on the disk (`Quiet`).

`FailureChangesNothing` follows from the shape of a failing call: `Undone`. That
`FirstZero` is a free number needs a least element, which comes from the theorem
that < is well-founded on Nat.

The types of the modules with proofs, `MaxCoversWaiting`, `TurnsInLine`,
`MutexDiscipline` and `ProducerConsumer!NoAssertFails` are proved and need no run.

Only model-checked:

- liveness, in all modules (out of reach for the prover);
- `SearchFinds` of Extents: `Found` sums lengths by a recursive function, and what it
  computes needs an induction as well;
- the safety of P5.

## 5. Where code and words differ

One is a run, `spin_lock_reset`. Others are stated in the modules as predicates
that no run checks: naming one as an invariant (`FoundAgain`: as a property) of the
configuration in brackets lets TLC find the behaviour in seconds.

- `problem_5.c:43`: the reset of the counters is not atomic with the xadd.
- `sleepy.c:105` "wake up all sleeping processes": the first writer to return
  resets the flag, and the others sleep on (`NoneSleepsOn`, MCSleepy.cfg).
- `DESIGN.txt:40` and `itree_common.c:413` "free all the blocks recorded in the
  extent": it frees MAX_LEN + 2 zones from the begin of each (`OwnedAreBusy`,
  MCExtents.cfg without the constraint).
- `itree_common.c:271` "add it to extent": a new extent has length 0, so the
  last block of a file is not found (`FoundAgain`, MCExtentsSequential.cfg).
- `testp5.c:186` "error at index %d (of %d), value %d, expected %d": blocks of the
  first table are all the same block, for `p5.c:410` allocates for the first entry
  only. The test cannot see it, since its data repeats (`ReadsBack`, MCP5Data.cfg).

Others are in the models as the code has them, and the properties make room for
them by name:

- p5.c: `SET` and `RESET` change the bits before theirs as well (`wrapped`: no harm
  until a search comes round); `my_rename` to a bad path loses the file;
  removing does not ask whether the file is open (`stale`), and `my_close`
  (p5.c:514) not whether the descriptor is in use (`surplus`).
- namei.c: a commit that fails has changed the entry, and the calls undo the link
  counts as if it had not; rename ignores the failure of its last steps (`hurt`).
  `minix_lookup` (namei.c:29) follows an entry to an inode that has been freed
  (`hurt` = `Ino`).
- hw5_b/inode.c: a mount clears the valid bit in a buffer only. A crash after
  inodes have been written and before the superblock has leaves an unsound file
  system marked valid (`crash` = "early").
- hw5/itree_common.c: `find_shared` does not ask whether `get_branch` failed, so a
  truncate that cannot read an indirect block cuts off sectors before the end
  (`unread`).
- sleepy.c: when the buffer of a device cannot be allocated the device stays
  registered; ticket.c, sleepy.c: a device is live before its data is ready
  (`early`, `hasty`).

## 6. Not modelled, and why

- `problem_1.c` and `problem_2.c` are `problem_3.c` without fences, and with
  `sched_yield`.
- Copies. hw5_a repeats hw5; hw5_1, hw5_c and hw5_d are hw5_b or hw5 on the way;
  hw3/hw3 and hw3/prob7 are drafts of the submitted programs. They are most of the
  lines of the repository, and a definition here names the copy it was
  translated from, so the share of lines that the map names stays small.
- The tickets of the bakery are unbounded numbers in the model: they overflow
  only when threads overlap for 2^31 entries. Printing, the parsing of
  arguments and `compute_stdev` have no state of interest. The clients of the
  devices make one call each. hello (hw1) has no state.
- Extents: V1 inodes (stored as 32-bit words and loaded as 16-bit ones), byte
  offsets, the contents of blocks, the write-back of inodes and bitmaps. The
  search of one bitmap block stands for the loop over several. mkfs is taken to
  have set the bits that stand for no zone.
- IndirectTree: V2 inodes, which have one level more in the same code.
- Namei: where an entry is in its directory, duplicate names after a failed
  rename and old negative dentries, unreadable inodes and bitmaps, V3, readdir
  and statfs. Mount: the checks of a superblock that refuse a mount, which change
  nothing; V3, whose superblock has no state.
- P5: the strings of paths (`resolveFilePath`) and the contents of the tables; an
  inode has its blocks in order instead.
- dir.c and file.c are otherwise Linux code for page I/O.

## 7. Plan

Everything of section 1 has a module. What is left is the proof of `P5`: the
bitmaps against the tree.
