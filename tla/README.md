# Verification of the ITE SDK storage and messaging core

The repository is the software development kit of the ITE IT97xx/IT98xx media
SoCs: device drivers (`driver/`), codec firmware (`codec/`), application
services (`share/`) and a large amount of third-party code.  This project
models the parts whose correctness rests on order, failure and concurrency
rather than on register values: the write-back cache of the NOR FAT drive, the
xD card translation layer, the file service and message queues between the
processors, the software upgrade and the hardware command queue.

## 1. Inventory

| Component | State | Operations | Hard behaviour |
|---|---|---|---|
| NOR FAT write-back cache (`share/fat/nor`) | pages with dirty flag and last access, `norCache`, `flushMutex`, `CacheValidFlush` | read/write sectors, flush, invalidate, init, release | unlocked reads and writes against a locked flush; eviction; device error or power loss between erase and program |
| NOR flash driver (`driver/nor/it9850/nor.c`) | the flash; one driver mutex | `NorRead`, `NorWrite` (erase, then program ascending) | error part way |
| NOR block device, idle flusher (`driver/itp/itp_nor.c`) | seek position, idle interval | read/write/seek/ioctl, idle handler | idle task against the caller; length arithmetic at the end of the device |
| xD translation layer (`driver/xd/xd_mlayer.c`, `xd_binaryheap.c`) | translation table of one zone, heap of erased blocks, last used zone; the flash with a logical address in each spare area | initialise, terminate, read/write (multiple) sectors, table generation | copy-on-write of a block page by page; error or power loss at every page; duplicate logical addresses after a restart |
| xD card driver (`driver/xd/xd.c`) | card registers | read/write page, erase, spare | ECC and erased status |
| File service (`driver/async_file`) | one shared message, a ring of requests, a mutex, a service thread, `inited`/`destroyed` | 20 file calls, synchronous or with a callback; initialise, terminate | shared buffer between callers, full ring, callback that calls back, termination, lazy initialisation |
| Cross-processor queues (`driver/xcpu_master`, `driver/xcpu_slave`) | a 64-entry ring in each direction, small queues per service | send, receive, route; start-up handshake | two processors, full rings, dropped messages, handshake timeout |
| ITC streams (`share/itc`) | ring buffer, array, file, tree | open, read, write, seek, lock/unlock, close | producer and consumer with locks held between calls; not modelled |
| Upgrade (`share/upgrade`) | package position, current device, partition and drive | one handler per tag, CRC check, verify after write | truncated package, error in the middle, restart in the middle |
| Hardware command queue (`driver/ith/ith_cmdq.c`) | read and write pointers of a ring, lock | wait for size, flush, reset | wrap, fill of the tail, hardware that stops |
| POSIX layer, drives, power, cards (`driver/itp`) | file tables, card states | open/read/..., mount, detect | not modelled |
| Wi-Fi manager, audio manager (`share/wifi_mgr`, `share/audio_mgr`) | state machines over third-party daemons and codecs | | not modelled |
| HAL, codecs, GUI, third-party code | | | not modelled |

How they interact: the FAT file system (HCC, binary) calls the NOR drive and
the xD drive through `F_DRIVER` function tables; the NOR drive calls its cache,
the cache calls the drive back (`writeSectors`, `readSectors`) and that calls
`NorWrite`/`NorRead`; the idle task calls `iteFatNorFlush` through the `:nor`
device's idle handler.  The xD drive calls the translation layer, that the card
driver.  The file service puts a POSIX-like interface over the FAT library for
a second processor, whose calls travel over the cross-processor queues.  The
upgrade reads a package through an ITC stream and writes raw flash through the
`:nor`/`:nand`/`:sd` block devices and files through FAT.

What makes each correct:

- *NOR cache*: a read returns the last write; the only copy of a sector is
  never lost except with power; a flush without an error saves everything; the
  flusher and the caller do not disturb each other; every request returns.
- *xD layer*: a read returns the last acknowledged write; an interrupted write
  leaves the old or the new data; erased blocks are never mapped; no block is
  both mapped and free; free blocks do not leak.
- *File service*: each caller gets its own result exactly once; requests are
  executed in order; no request is dropped; termination ends.
- *Cross-processor queues*: FIFO per direction, no entry lost or overwritten,
  both sides start.
- *ITC streams*: the reader gets the bytes of the writer in order.
- *Upgrade*: success means that every record of the package was applied.
- *Command queue*: the hardware executes exactly the commands in order; a
  command is never overwritten before it is executed.

## 2. Plan

| Step | Modules | Composed of / abstract specification | Runs | Theorems |
|---|---|---|---|---|
| 1, done | `NorCache`, `MCNorCache`, `NorCacheProofs` | cache, FAT driver, flash driver and idle flusher in one module; implements `NorDisk` | `norcache_*` | types, coherence, durability, refinement; reads beside the flusher |
| 2, done | `XdLayer`, `MCXdLayer`, `XdLayerProofs`, `XdDataProofs` | translation layer over the card, with power loss | `xd_*` | types, one owner per block, free blocks vacant; data after faults and after restarts, blocks kept, copies not erased |
| 3, done | `MsgRing`, `MsgRingProofs`, `AsyncFile`, `MCAsyncFile`, `AsyncFileProofs` | the ring of `msgq.c`; callers, service thread, callbacks, initialise and terminate on top of it | `async_file` | types, order, own argument, drained, nothing used after it is freed |
| 4, done | `XcpuQueues`, `MCXcpuQueues`, `XcpuQueuesProofs` | both directions over the same ring, routers, service queues, handshake, reset of one side | `xcpu_queues` | types, order without a reset, nothing twice with resets |
| 5, done | `CmdQueue`, `MCCmdQueue`, `CmdQueueProofs` | the command ring and its engine | `cmdq*` | types, free blocks, idle means done, order of execution |
| 6, done | `Upgrade`, `MCUpgrade`, `UpgradeProofs` | the record loop over a failing stream and disk, with restarts | `upgrade` | types, user data kept, right partition, success means installed |
| 7 | `XdHeap`, `XdSpare` | the array heap implements the bag with a minimum that `XdLayer` uses; parity and bit layout of the spare area against a reference definition | one | heap order is kept by insert and pop |

Each module keeps its parameters as CONSTANTS under one named assumption, one
action per operation, its invariant as a conjunction of named parts, and no
RECURSIVE operator, so that it can be proved about.  The order is that of what
is lost when the code is wrong: user data first, then messages, then frames.
A run is dropped when a theorem or a wider run answers its question.

## 3. The NOR cache

### The model

`NorCache` is the cache, the FAT driver around it, the flash driver under it
and the idle flusher beside it.

| Model | Code |
|---|---|
| `tag`, `dirty`, `buf`, `rank` | `cacheEntries[i].sector/count`, `.dirty`, `.cache`, `.last_access` |
| `disk`, `nor` | the flash; the `NorWrite` that holds the driver's mutex and the sectors it has still to program |
| `app`, `fl` | program counter and locals of the file system's thread; of the flush that holds `flushMutex` |
| `life` | `norCache` and `CacheValidFlush`: mounted, freed but still valid for the flusher, gone |
| `latest` | history: the last data accepted for each sector |
| `CacheHit`, `CacheMiss`, `EvictDone`, `Fill`, `FillFails` | `_NOR_cache_readSectors`, `_NOR_cache_writeSectors`, `_NOR_cache_findPage`, `_NOR_cache_getPage`, split where the thread blocks in the flash driver |
| `FlushLock` ... `FlushEnd` | `_NOR_cache_flush`, split between the test of a dirty flag, the write and the clearing of the flag |
| `Invalidate`, `FreeCache`, `DisableFlush`, `Mount` | `_NOR_cache_invalidate`, `_NOR_cache_destructor`, `nor_release`, `nor_initfunc` |
| `NorErase`, `NorProgram`, `NorDone`, `NorFails` | `NorWrite`: erase, program ascending, return; an error at any point |
| `PowerLoss` | external |

`_NOR_cache_findPage` looks with `sector > entry.sector`, so it misses the
first sector of a page; `CacheHit` shows the only effect (the page's last
access is renewed).  `last_access` is kept as a rank: the 32-bit counter only
orders pages.  Data is the number of the write request.  The partial-sector and
little-endian variants of `cache2.c` have no caller.

The cache's partition (`Partition`, `endOfPartition`) is one sector shorter than
what `nor_getphy` reports, so the page at the end is one sector short; the block
under it is not.  `NorErase` opens the whole block (`norUpdate`, `BlockOf`) and
`NorProgram` writes what the page has: each write-back of the last page leaves
the last sector of the flash erased.  Nothing can read that sector through the
cache (a request for it never returns), so the properties are stated for the
sectors of the partition, and its loss is in the table of failures below.

A flush has no result in the model.  `ret` of `_NOR_cache_flush` is false when a
write failed and uninitialised otherwise (`cache2.c:373`), and nobody looks at
it: `iteFatNorFlush` is void, `ITP_IOCTL_FLUSH` returns 0 whatever happened
(`itp_nor.c:242`), `_NOR_cache_invalidate` and `_NOR_cache_destructor` go on.  So
`FlushIsDurable` cannot be about a reported success: it is about a flush of the
file system's thread that no device error ended.

`NorDisk` is what the drive promises: a volatile view, a stable image that
moves only towards the view (or through an erased state), and a loss of
volatile state that leaves exactly the stable image.  `KeepsPromise` is the
refinement, with what a read returns (`View`) as the volatile view and the
flash as the stable image, both without the last sector.

### The runs

All use three blocks of two sectors and a cache of two pages: the smallest
geometry with a page that is clipped at the end of the partition, a request
that crosses a page, a hit, a miss and an eviction.  Two writes are enough to
tell an old version from a new one; one fault and one power loss are each
explored at every step.

| Run | Question | Result |
|---|---|---|
| `norcache_faults` | one thread, device errors and power loss anywhere: coherent, nothing lost, durable, implements `NorDisk` | holds |
| `norcache_idle` | with the idle flusher, failing reads and a working set that fits the cache: reads stay right, every request returns | holds |
| `norcache_lost_write` | with the flusher: does a flush without an error save everything? | no: the dirty flag of a page changed during its write-back is cleared |

`norcache_faults` also asks that a sector of the partition nobody wrote keeps
what the device came with (`NeverWrittenIsUntouched`): a write-back goes to the
page it was meant for.

The two passing runs stay clear of these defects and nothing else: without the
idle flusher (or without eviction beside it), without read errors (or with a
working set that never replaces an entry), without the last sector and without
a release beside the flusher.  The first is `norcache_lost_write`; the model
shows the others with these changes:

| Change | Fails | Because |
|---|---|---|
| `NorCacheLostWrite.cfg` with `NeverWrittenIsUntouched` | `NeverWrittenIsUntouched` | the write-back of one page lands on another: the flusher's page number is stale when its `NorWrite` starts (`cache2.c:393`) |
| `NorCacheIdle.cfg` with `AppSectors <- AllSectors` and no read faults | `RequestEnds` | `nor_initfunc` passes a partition one sector short, so the last page is never complete (`nordrv_f.c:287`) |
| `NorCacheFaults.cfg` with `CacheHoldsLatest` over `Sectors` in place of `Partition` | `CacheHoldsLatest` | the write-back of the last page erases the whole block and programs one sector less (`nor.c:1028`, `cache2.c:168`) |
| `NorCacheFaults.cfg` with `ReadFaults = TRUE` | `CacheHoldsLatest` | after a failed page read the entry keeps its old tag over the new bytes (`cache2.c:170`) |
| `NorCacheLostWrite.cfg` with `AppOps <- WithRelease` | `life = "freed" => fl.by = Nobody`: the flusher enters a freed cache | the flag is cleared after the memory is freed (`nordrv_f.c:165`) |

Fairness (`norcache_idle`): a thread that has started an operation is
scheduled, which any RTOS task that is ready and not starved satisfies; the file
system's thread waits for `flushMutex` and for the driver's mutex, which the
idle task takes again and again, and is granted them in the end (strong
fairness): the idle task has the lowest priority, so a waiter of higher priority
is served when the mutex is released.  Requests, faults, power losses and the
idle task's decision to flush are not fair.

### The proofs

`NorCacheProofs`, for every cache size, page size, partition, request length
and number of faults and crashes:

- `TypeCorrect`: the types, for any threads.
- `Coherent` (and its parts `OnlyDirtyAtRisk`, `OnePlacePerPage`):
  `CacheHoldsLatest`, `OnlyDirtyPagesAreAtRisk`, `NoAlias`;
- `UntouchedStays`: `NeverWrittenIsUntouched`;
- `FlushDurable`: `FlushIsDurable`;
- `ImplementsNorDisk`: `KeepsPromise`,

all but the first under `Sequential`: no idle flusher, no read errors, no
request for the last sector.  The last page is used like any other: that its
erase takes the last sector with it disturbs no sector of the partition (lemma
`EraseInPartition`).  Each of the three conditions is needed, as the tables show.

- `ReadsBesideFlusher`: `CacheHoldsLatest` with the idle flusher and with read
  errors, under `Fitting`: the pages between the lowest and the highest sector in
  use fit in the cache, the last sector is not used, and the file system reads,
  writes and flushes (an invalidation or a release beside the flusher is not
  guarded).

The invariant cannot be proved by itself: that cached data is the latest says
nothing of the moment in which a dirty page is erased on the flash.  `IInv`
adds what each program counter knows: the victim of an eviction is dirty until
the write-back succeeded and on the flash when it did (`AppInv`); the pages
before the flush's index are clean (`FlushInv`); the `NorWrite` in progress
works on a dirty page, and what it has programmed is the latest (`NorInv`);
and there are no pages without a mounted cache (`DownInv`).  `UntouchedStays`
needs one fact more, that a write request only carries numbers of writes that
were counted (`WriteInv`).

Beside the flusher most of this is false: a dirty flag is cleared over data that
was not written, and an erase may hit a page that looks clean.  What remains is
weaker and still enough to read by (`SharedInv`): what is not the latest on the
flash is cached, clean or dirty (`CachedInv`), a flush and its `NorWrite` touch
only a page that is cached (`WritingInv`), and no page ever leaves the cache,
because a miss finds a free entry (`RequestInv`; lemma `FreeEntry`, by counting
the pages of the working set).

## 4. The xD translation layer

### The model

`XdLayer` is `xd_mlayer.c` over the card.  One request runs at a time, as the
FAT driver's caller does.

| Model | Code |
|---|---|
| `flash` | zone, block, page: the logical address in the spare area, and the data |
| `table`, `free`, `lastZone` | `g_TranslationTable`, `g_pXdEraseBlockHeap` (a bag; the array is in the plan as `XdHeap`), `g_LastUseZone` |
| `scan` | the locals of `GenerateTranslationTable` |
| `req` | the request: operation, sector, sectors left, `phyBlock`, `newBlock`, page; `pc` is `map`, `scan`, `go` or `program` |
| `maybe` | history: what a read of a sector may return: the last completed write and those interrupted since |
| `ReadRequest`, `WriteRequest` | `xddrv_readsector`, `xddrv_writesector` and their multiple-sector forms |
| `LookUp`, `ScanStart`, `NoMemory` | the test of `g_LastUseZone`; the entry of `GenerateTranslationTable` |
| `ScanErased`, `ScanBad`, `ScanMaps`, `ScanLeaves`, `ScanErases`, `ScanEnd` | one block of the scan: erased, unreadable address, first of its address, duplicate kept, duplicate erased; the end |
| `PopBlock`, `ProgramPage`, `Commit` | step by step: take the least erased block, program it page by page with the new sectors in place, erase the old block, update the table, go on with the next block |
| `ScanEraseFails`, `ScanReadFails`, `ScanRemoved`, `ReadFails`, `ReadBackFails`, `ProgramFails`, `CommitEraseFails` | each card operation's failure path |
| `Release`, `Initialize` | `XD_ML_Terminate`; `XD_ML_Initialize` and `mmpxDInitialize` |
| `Over`, `Torn` | external, the flash: a page takes its data and its spare area once; an interrupted program spoils the data and leaves the spare area blank, unreadable or complete |
| `PowerLoss` | external: a page being programmed is torn, done or untouched; the erase has happened or not |

A failed card operation may have had any of its effects.  An ECC error is not a
failure: `XD_ReadPage` ends with `XD_OK` or `XD_ERASED`.  A failed allocation of
a read buffer fails the request before anything is touched, as an empty heap
does; it has no action of its own.  The driver keeps a block's number within its
zone and adds the zone when it uses the card, except in the scan's treatment of
a mapped duplicate, which uses the bare number: the model follows it (`Victim`,
`GoesZone`).

### The runs

Cards of four blocks a zone (one for the card information structure, two for the logical blocks,
one spare) with two pages a block: the smallest with a spare block, a page to
be kept, and a block that is taken and given back.  Two zones when the question
is about changing zones.

| Run | Question | Result |
|---|---|---|
| `xd_faults` | two time-outs anywhere, three writes, one zone: is what the card gives for a sector its last write? | holds |
| `xd_restarts` | two zones, releases, initialisations, a power loss outside programming: types, no data and no block lost, every request returns | holds |
| `xd_anything` | any one fault of any kind and two power losses anywhere, one zone, two writes: one owner, free blocks vacant, and the scan never erases the only complete copy of a logical block | holds |
| `xd_crash` | a power loss while one sector is written: do the other sectors of its block keep their data? | no: the unfinished copy is mapped if it is the lower block |

`maybe` lets an interrupted write leave the old or the new data; reading a
sector that was never written may give 0xFF or the filler 0x55.  `xd_anything`
does not ask about data, because after several kinds of fault data is lost, as
the code shows and the model checker confirms:

- in a zone other than the first, the scan reads and erases a mapped duplicate
  as a block of zone 0 (`xd_mlayer.c:1482`), so that `ErasesOnlyDuplicates`
  fails there after five writes and a power loss;
- when the erase at the end of a write fails, the old block keeps its address
  and a later scan may map it again;
- a block whose spare area cannot be read during the scan is left out, and its
  sectors read as never written, successfully;
- `xddrv_readmultiplesector` leaves its loop at the first error, reads the last
  sector and returns that result (`xd_mlayer.c:945-968`).  So
  `ReadsWhatWasWritten` and the theorems about it speak of each sector that is
  read, never of what a request reports: the success of a read of several
  sectors says nothing of those before the last;
- `XD_ReadSpare` takes a block for erased if the spare area of its first page
  is blank; the comment there (`xd.c:868`) says that it should look at the data
  too.  When the power goes after the data of the first page began to change and
  before the spare area did, the block gets into the heap and its first page is
  programmed a second time, over what is there: the sector holds neither its old
  nor its new data, in a block that looks complete;
- a program error followed by a change of zone leaves the same duplicate as a
  power loss.

Fairness (`xd_restarts`): weak fairness of `Serve`.  The layer has no thread of
its own; a request runs in its caller, which continues when it can.

### The proofs

`XdLayerProofs`, for every number of zones, blocks, pages and sectors of a
request, every set of faults and any number of power losses:

- `LayerTypes`: `TypeOK`;
- `OwnedOnce`: `OneOwner`: a block is in the heap once, or mapped once, or being
  written;
- `HeapVacant`: `FreeIsVacant`: in a block of the heap the spare area of the
  first page is blank and every other page is erased, so that a write never
  programs a spare area twice, nor any page but the first.

`FreeIsVacant` is the interesting one: the scan decides that a block is erased
from the spare area of its first page alone.  `IInv` (theorem `Invariance`) adds
what this is worth, `BlockInv`: pages are programmed in ascending order, so a
block whose first page has a blank spare area has nothing behind it; and
`NewInv`: the block being written is programmed up to the current page.  That
the heap holds *erased* blocks is not a theorem: a first page torn before its
spare area changed is the exception, and the only one.  That a duplicate never frees the block the
table keeps rests on the second half of `BlockInv`: all readable addresses of a
block are the same one, so the branch that would erase the mapped block is not
taken (lemma `NeverTheMapped`).  `ScanInv` says that the scan has put nothing in
the table or the heap beyond the block it looks at, and `ReqInv` that a request
stays on the card and holds the block the table gives.

`XdDataProofs` is about the data, again for every size of card, request and
number of writes.  Each theorem has a condition, because without it the code
does lose what the theorem is about (the list above):

| Theorem | States | Under |
|---|---|---|
| `ErasesCopies` | `ErasesOnlyDuplicates` | `OneZone`: the scan reads a mapped duplicate as a block of zone 0; any faults and power losses |
| `DataAfterFaults` | `ReadsWhatWasWritten` | `OneTable`: one zone, no release, no power loss: the table is built once; any faults, with any effect |
| `DataAfterRestarts` | `ReadsWhatWasWritten` | `Harmless`: reads, allocations and the card's removal may fail, the power may go except while a block is programmed; any number of zones and restarts |
| `BlocksKept` | `NoBlockLost` | `Undisturbed`: as `Harmless`, but only the removal of the card fails; a read that fails in the middle of a write forgets the block that was taken, a scan without memory leaves an empty heap |

`xd_faults` checks the second and `xd_restarts` the last two under these
conditions; `xd_anything` the first.

*One table.*  What the table maps may be read, and a sector whose block is not
mapped was never written (`MapData`).  A write keeps this because the pages
already programmed hold the new data in the round and the old data outside it
(`NewData`), so that at the end of the round the new block is good for every
sector of its logical block; that the sectors of the round are exactly the pages
named is arithmetic of division and remainder (lemmas `SameBlock`,
`RoundSectors`).  Before the table exists the card is blank (`FreshInv`), so no
torn page is in the heap, and none gets there later (`FreeErased`, `NewErased`).

*Restarts.*  The table is lost and built again, so the fact has to be about the
card.  `CopyInv`: a logical block is carried by one block, besides the one that is
being written.  `CardInv`: that copy may be read; where there is none, the
sectors were never written.  `TableInv`: the table maps exactly the copies the
scan has passed, so that at its end it maps all.  Together with `NewData` they
are inductive (`DataInvariance`): the scan meets no duplicate, and the only
moment with two copies, between the last page of a write and its erase, is
inside a request that nothing interrupts.  `BlocksKept` adds that each block
behind the scan is in the heap, in the table or being written (`OwnedInv`).

*Copies.*  When the scan erases a duplicate, the one it keeps has to be as
complete: `AscInv`, pages that name a logical block have only such pages before
them, so the block whose last page names one is complete; and `MapsInv`, the
kept block carries the address it is mapped under.

## 5. The file service

### The model

`AsyncFile` is `file.c` over `msgq.c` and `mutex.c`; `MsgRing` is the index
arithmetic the three message queues share.

| Model | Code |
|---|---|
| `inited`, `msgBuf`, `mutex` | the static variables of `file.c` |
| `ring`, `rd`, `wr` | `palQueues[0]`, `readPtr`, `writePtr` |
| `pc`, `req`, `next` | each thread in a `PalFile*` call: where, which request, `nextWritePtr` |
| `svc`, `job` | `FileThreadFunc`: where, and its local message |
| `accepted`, `answered` | history: requests put in the ring, callbacks made |
| `Call`, `CreateService`, `ServiceCreated` | the test of `inited`, `PalFileInitialize`, the assignment |
| `WaitMutex`, `FillMessage`, `CopyIn`, `Publish`, `PutTimesOut`, `ReleaseMutex` | the rest of a call, split where another thread can see the difference |
| `CopyOut`, `Advance`, `Serve`, `CallbackReturns` | the service thread |
| `Terminate`, `Join` | `PalFileTerminate` |

A call is one of three kinds: `PalFileOpen`, which stores its `callback_arg`;
`PalFileOpenWriteClose`, whose callback gets the buffer; and all others, whose
callback gets the argument of whichever call stored one last.  A callback may
make a call itself, from the service thread.

### The run

`async_file`: two callers, callbacks that call, four requests, and a ring of
three slots (two messages), so that it is full while a caller, a callback and
the terminating thread want to write.  Every accepted request is answered once,
in order (`AnsweredInOrder`) and with its own arguments (`OwnArgument`); the
thread leaves with an empty ring (`DrainedBeforeExit`); nobody uses the queue or
the mutex after they were freed (`NoUseAfterFree`); every call returns and every
accepted request is answered (`CallReturns`, `AcceptedIsAnswered`).

The last two hold only because waiting for a slot ends by time-out: when a
callback calls while a caller waits for a slot with the mutex held, the only
thread that frees slots waits for the mutex.

What the run assumes is the constant `Races`: the first call returns before
another begins, and `PalFileTerminate` overlaps no call, since the code guards
neither.  With `Races <- InitRace` and two service threads, `AnsweredInOrder`
and `DrainedBeforeExit` fail (two threads serve one ring, and the second
initialisation clears it); with `Races <- TerminateRace` so does
`NoUseAfterFree`.

Fairness: a thread inside a call, the service thread and the joining thread are
scheduled (weak fairness).  New calls and termination are not fair.

### The proofs

`AsyncFileProofs`, for any number of callers, slots and calls, with or without
callbacks that call:

- `TypeCorrect`: `TypeOK`, whatever overlaps;
- `InOrder`: `AnsweredInOrder`; `Own`: `OwnArgument`; `Drained`:
  `DrainedBeforeExit`; `NothingUsedAfterFree`: `NoUseAfterFree`, when the first
  call and the termination overlap no other call (`Unraced`), which is the
  condition the run shows to be needed.

`IInv` says what makes one shared message safe: only the holder of the mutex is
inside a call (`CallInv`), the message in the buffer is the one of the thread
that waits for a slot, and is in the slot before the index moves (`MessageInv`);
one service thread exists, and only after a first call that was alone
(`InitInv`).  `RingInv` is the contents: from the read index on, the slots hold
the accepted requests that have not been taken, in order, then the exit message;
`ServerInv` that what the service thread has copied is the next of them.  The
slots are counted by the index arithmetic of `msgq.c`, whose facts (a step keeps
the count within the ring, the last slot is never used, what a write and a read
leave in place) are the lemmas of `MsgRingProofs`, shared with the next section.

## 6. The cross-processor queues

### The model

`XcpuQueues` is `xcpu_msgq.c` and `sys_msgq.c` of both sides, in both directions.

| Model | Code |
|---|---|
| `w`, `r`, `slots` | the write and read index (a shared word or register each) and the ring of each direction |
| `boot`, `patience` | where each side is in `xCpuMsgQ_Init`; `timeout` of the master's |
| `send`, `route` | locals of a `xCpuMsgQ_SendMessage` and a `xCpuMsgQ_RouteMessage` in progress |
| `service` | the queue of each service on the receiving side |
| `uncleared`, `SlaveClears` | the rings are static memory of the slave, which its start-up code clears slot by slot (`gtMToSMsgQ`, `gtSToMMsgQ`) |
| `SlaveBoot`, `SlaveStarts` | then `xCpuMsgQ_Init` clears its two indices one by one, sets MASTER_READ to the mark 0xFFFF, and waits for 0 |
| `MasterBoot`, `MasterSleeps`, `MasterSeesMark`, `MasterClears` | the master waits for the mark, then clears the four indices, the mark last |
| `SendCheck`, `SendCopy`, `SendPublish` | fullness test, copy, index update |
| `ReceiveCopy`, `ReceiveAdvance`, `Dispatch`, `Consume` | copy, index update, `sysMsgQ_SendMessage` (which drops when full), `sysMsgQ_ReceiveMessage` |
| `SlaveRestart` | external: the slave is reset beside a running master |

A send that finds the ring full is refused and returns; it changes nothing and
has no action.  The two sides name different addresses for MASTER_WRITE
(0x1700 and 0x169A); they are taken to be one register.

### The run

`xcpu_queues`: rings of three slots (two messages), five messages in the two
directions together, so that a ring is full, wraps and uses a slot again, a
reset of the slave at any point, a master that looks twice.  Without a reset, the
router gets the sender's messages each once and in order, from the handshake on
(`RoutedInOrder`); with a reset, beside whose clearing the master goes on sending
and routing, no message comes twice or late (`NothingTwice`); a slave that is
ready in time gets past its wait, also after a reset beside a running master,
whose router moves the mark, an index to it, back to 0 (`SlaveGetsToRun`).  A
slot read half copied, or beyond a ring, is `Junk`, no message.

Both sides have one ring size in the run.  In the repository the slave's rings
have 64 entries and the master's index arithmetic 8, and nothing notices: after
the seventh message of a direction the sides wrap at different places, and
messages are lost, read again or read late without any reset.  The two
properties therefore claim the order of a direction only while its sides are
`InStep`: always with one size, and for the repository's sizes up to the seventh
message.  With `Size <- OwnSizes` they hold for that reason alone; with `InStep`
taken out of them they fail.  A slave that comes later than the
master's 50 periods waits for ever, although the comment above the
master's `xCpuMsgQ_Init` says that it blocks until the slave is ready.  A message for a full service queue
is dropped (`Dispatch`): nothing in the repository promises otherwise.

Fairness: both processors run their start-up and finish a send they have begun;
the routers are called periodically.  Sends, resets and the services are not
fair.

### The proofs

`XcpuQueuesProofs`, for any services, number of messages, resets and periods:

- `TypeCorrect`: `TypeOK`;
- `NoneTwice`: `NothingTwice`, with any number of resets at any point;
- `InOrder`: `RoutedInOrder`, before any reset;

all three under `SizesFit` (the master's ring is no larger than the slave's,
whose indices stay below the mark), which one common size satisfies and so do
the repository's 8 and 64; the last two while the sides are `InStep`.

With a reset an index may jump back to 0 beside a router that has copied a
message and not yet moved its own, so "the ring holds what was sent and not
routed" is false.  What remains true, and inductive (`OnceInv`), is an order:
every entry the router has still to pass (`Window`, all other slots when the
writer has caught up with a router in the middle of a step) is either cleared
memory or newer than everything routed and than the entries before it
(`RouteInv`), and a message being sent is newer than all (`SendInv`).  Before any
reset the exact contents hold (`HeldInv`), once the handshake is known to start
from empty rings (`FirstBootInv`): the master is the last to clear, and the mark
in one index keeps the slave from running before that.

## 7. The hardware command queue

### The model

`CmdQueue` is `ith_cmdq.c` and the engine that executes the queue.

| Model | Code |
|---|---|
| `ring`, `wptr`, `rptr` | the memory of the queue, the write and read pointer registers |
| `pc`, `currPtr`, `waitSize`, `low` | the caller inside `WaitAvailableSize`, and `GetReadPointer` between its two register reads |
| `WaitSize`, `ReadLow`, `Wrap`, `Granted`, `LookAgain`, `GiveUp` | `ithCmdQWaitSize` and `WaitAvailableSize`: the loop before a wrap, `FillNullCommands`, the loop for room, the yield, the time-out |
| `Flush` | the block is written (it may be shorter than asked for) and `ithCmdQFlush` moves the write pointer |
| `Execute` | external: the engine executes one command |
| `misled`, `Misleads` | history, read by no step: whether a test of room has granted a block in one of the three ways in which it is wrong |

Callers hold `ithCmdQLock`, so there is one.  The write pointer's two register
writes are one step: the code writes the high bits first and the hardware takes
the value with the low ones.

### The runs

`cmdq`: a ring of 12 commands with blocks of up to 3, a low half of 4 commands,
24 commands, so that the ring is filled, wrapped and used again.  Callers ask
whenever they like; they wait for the engine before a wrap and for room, time
out, and read the pointer in two halves while it moves.

The test of line 122 is wrong in three cases (`Misleads`):

- after a wrap `currPtr` is 0, and `readPtr <= currPtr` also holds when the
  engine is still at 0, with the whole lap before it: the block is granted over
  it (`cmdq_full` shows this one);
- a block may end exactly on the read pointer (`>=`; the comment above says `>`):
  the queue is then full and its pointers are equal, as in an empty one;
- the halves of two values may make a pointer ahead of the engine's, when it
  crosses 64 KB between the two reads: the distance is overestimated.

Nothing in the code keeps callers from any of them, so the properties claim what
is true of the code: until the first of them happens, the block a caller gets is
free, an idle engine has executed everything, every command is executed, once
and in order, whatever the load; and every caller gets its block or an error,
also afterwards.

`cmdq_full`: without that condition, the queue looks empty and is not.

Fairness: the engine executes what it is given, and a caller is scheduled; that
it gives up after a while is not relied upon.

### The proofs

`CmdQueueProofs`: `TypeCorrect`, `BlocksAreFree`, `IdleIsDone` and `InOrder`, for
every ring, block size, width of the low half and load; the last three until a
test of room is misled, as in the run.  They show that the three cases above are
the only ones.

That the engine executes the next command says what is in the cells it has not
reached.  `IInv` (theorem `Invariance`) gives the contents of the pending cells
in the two possible shapes, both pointers in one lap (`Straight`) or the engine
one lap behind, with null commands between the end of its lap and the end of the
ring (`Lapped`); and for each step of the caller where its block is: after the
write pointer, or at the start of the ring once the rest of it has been filled
(`WrapInv`, `RoomInv`, `BuildInv`).  What a torn read is worth is `LowInv`: the
low half is that of a place the engine has been at since the caller asked, and
has not passed except by starting over; the pointer made of it and of a later
high half is not before that place (`TwoHalves`), so a pointer that looks passed
is passed (`EngineSeen`).

## 8. The upgrade

### The model

`Upgrade` is `ugUpgradePackage` and the handlers of its records over one disk,
with the mounting of `itp_fat.c`.

| Model | Code |
|---|---|
| `layout`, `volume`, `raw` | how the partition table compares with the package's; what each partition holds under each path, or that it is unformatted; the blocks in front of the partitions |
| `mounted` | the disk's available drives |
| `mode`, `cut` | the package's flags and the kind of disk; where its stream ends |
| `pc`, `rec`, `at`, `count`, `drive`, `ret` | where the loop is, and its locals |
| `ReadTag`, `HeaderMissing`, `ReadEnd` | the loop, a truncated record, the end |
| `ReadDevice`, `CreatePartition`, `ForceMount`, `Format`, `AllFormatted` | `ugUpgradeDevice`: the decision to repartition, and the new table, mount and formats |
| `ReadUnformatted`, `ReadPartition`, `MakeDirectory`, `NoPath` | `ugUpgradeUnformatted`, `ugUpgradePartition`, `ugUpgradeDirectory`; a missing drive or directory |
| `OpenRawData`, `OpenFile`, `Write`, `Rewind`, `Verify`, `Verified` | `ugUpgradeRawData` and `ugUpgradeFile`: write block by block, read the data again from the stream, compare |
| `Crash`, `Boot` | external: the power goes in any step, whose effect is done, partly done or undone; `FatMount` at the next start |

`ug_device.c:127-138` compares the number of partitions and the sizes that the
package gives, never where they start or the raw area in front of them.  So a
table is `"none"`, `"fewer"` (one partition less than the package has), `"other"`
(as many or more, of other sizes), `"alike"` (equal in what is compared, but
elsewhere) or `"wanted"`, and only the first three are written anew, unless the
package forces it or forbids it.  A table that cannot be read counts as none.  A
mount that fails half way leaves the drives of the partitions before (`ForceMount`).

Not in the model: raw data that reaches into the first partition of a table that
is only alike; partitions beyond the package's; a failing mount when the device
starts, or a failing format inside it on NAND (`itp_fat.c:910-913`); an unmount
that fails, which is only logged.

### The run

`upgrade`: a package with every kind of record for two partitions, cut off at
any read, two failures of any kind at any point (a write may also store something else), two power
losses and any number of retries, on disks with every kind of table, under each
of the package's flags.  A success report means that the raw data and every file
that was delivered are in their places, the files in their directories, and that
the table is like the package's unless the package forbids partitioning
(`SuccessIsInstalled`); it means nothing for a directory in which no file is
put, since a `mkdir` that fails is only logged (`ug_directory.c:56-62`).  Files go
to the partition they belong to (`RightPartition`); an upgrade that is told not
to partition, or finds a table like the package's, keeps the user's files
(`UserDataKept`); and in the end a whole package is installed (`Installs`), except
where it forbids partitioning and the disk has too few partitions.

Partitioning may fail only when the package forces it (`FailModes`), and be
interrupted by a power loss only then or on NAND, whose partitions are formatted
when mounted (`CrashModes`).  Otherwise the next upgrade finds the right table
and does not format; a partition without a file system is not mounted, and the
drives of the later ones move up, so that with `AllModes` for either constant
`RightPartition`, `SuccessIsInstalled` and `Installs` fail.  For the same reason
`Init` has all partitions of a table formatted when the table is like the
package's, when the package forbids partitioning, whatever the table
(`ug_device.c:118` accepts any), and on NAND, where mounting formats them.

A package that ends between two records is a success to the code
(`ug_package.c:71`): `SuccessIsInstalled` is about what was delivered.

Fairness: the program runs, and its user starts a failed upgrade again.

### The proofs

`UpgradeProofs`, for every package of the shape `PackageAssumption` describes,
any disk, any number of failures, power losses and retries:

- `TypeCorrect`: `TypeOK`, and `KeepsUserData`: `UserDataKept`, without a
  condition;
- `OnItsPartition`: `RightPartition`, and `Installed`: `SuccessIsInstalled`, under
  `Repairable`: partitioning may fail only when the package forces it, and be
  interrupted only then or on NAND, the condition the run needs too.

`KeepsUserData` needs no condition because a step that partitions was either
forced or decided on the table the upgrade found (`FoundInv`).
`SuccessIsInstalled` speaks of the end only.  `InstallInv` carries it there:
every record before the current one is in its place (`PlaceInv`), what `Verify`
has compared so far is on the disk (`FileInv`), and a later record cannot disturb
an earlier one, since it goes to another partition, name or block (lemmas
`HomeMono`, `FilesDiffer`; `PackageAssumption` says that no two records have the
same place).  That the n-th drive is the n-th partition is
`DriveInv`: after the device record all partitions of the table have file systems
and are mounted.  It is here that `Repairable` enters: a table that the next
upgrade would leave as it is has no partition without a file system (`ModeInv`),
at every crash and in the middle of every retry.

## 9. Assumptions, and what is not proved

The theorems assume only what the modules assume of their constants, and every
run evaluates: `NorCacheAssumption`, `XdAssumption`, `CmdQueueAssumption`,
`AsyncAssumption`, `XcpuAssumption` and `UpgradeAssumption` (sizes are positive;
the partition is whole blocks; a zone has a block behind the card information
structure; two blocks of commands fit in the ring; a ring has two slots; threads
are distinct), and `PackageAssumption`, the shape of a package that `pkgtool`
writes and `ugUpgradePackage` relies on.  The bounds (`MaxWrites`, `MaxFaults`,
`MaxCrashes`, `MaxCommands`, `MaxRequests`, `MaxSends`, `MaxRestarts`) are
constants of the modules, so the theorems hold for each value of them.

Where a theorem has a hypothesis, it is one the code needs, named where it is
stated and explained in its section: `Sequential`, `Fitting`, `OneZone`, `OneTable`,
`Harmless`, `Undisturbed`, `Unraced`, `SizesFit`, `Repairable`.  Each admits the
constants of the passing run that checks the same property.

Every invariant and every action property of a passing run is stated by a
theorem.  Model-checked only: liveness (`RequestEnds`, `CallReturns`,
`AcceptedIsAnswered`, `SlaveGetsToRun`, `CallerReturns`, `AllExecuted`,
`Installs`), which is out of the prover's reach.

### Not modelled

- Within the modelled parts: bit errors and their correction (an ECC result
  changes no control decision above the card driver); partial erases of an xD
  block; wear; the array of `xd_binaryheap.c` and the parity of the spare area
  (step 7 of the plan); the card being exchanged between requests without an
  initialisation; two callers of the xD layer at once (the FAT driver takes no
  lock and the `:xd` device takes one, so nothing would hold); the package CRC,
  the stored file checksums and the factory reset of the upgrade; the remote
  file calls built on the cross-processor queues.
- ITC streams: the ring of `itc_bufferstream.c` has no caller in the
  repository, so what its users may rely on is not there to be translated; the
  other streams are thin wrappers of memory and stdio.
- The POSIX layer beyond mounting, cards and power: tables over binary
  file-system libraries.  NAND and Memory Stick: the xD layer's structure again.
- Wi-Fi and audio managers: state machines over daemons and codecs that are not
  in the repository.
- Register-level drivers, GUI, codecs and third-party code: no order, failure or
  concurrency questions of the repository's own.  They are most of its files.

### Seen in the code, beside the hazards

- `presentation.c:583` and `:615` unlock a mutex twice when a CRC fails.
- `XdRead` and `XdWrite` test `iteXdRead`'s result, 1 or -1, with `!`
  (`itp_xd.c:83`).
- A raw `:nor` transfer that reaches the end of the device moves the part beyond
  the end instead of the part before it (`itp_nor.c:90`).
- The NOR cache's destructor ignores the result of its flush (`cache2.c:120`).
- `PalInitialize` (`async_file/init.c`) has no caller.
- `ugRestoreDir` takes a failing `mkdir` for a reason not to restore the
  directory (`ug_reset.c:122`): a factory reset reports an error and leaves out
  every directory that exists already, so one that was interrupted cannot be
  completed by a retry.
- `ugUpgradeFilesCrc` computes the new checksums and does not write them
  (`ug_filecrc.c:238`).

## 10. Running the checks

The passing runs visit, in distinct states: `norcache_faults` 791 thousand,
`norcache_idle` 111 thousand, `xd_faults` 5.3 million, `xd_restarts` 655
thousand, `xd_anything` 1.3 million, `async_file` 517 thousand, `xcpu_queues` 819
thousand, `cmdq` 32 thousand, `upgrade` 1.2 million; each ends within three
minutes.  The proofs have 12,162 obligations.

Run TLC on the MC module with one of the configurations, for instance

    tlc -config XdAnything.cfg MCXdLayer
    tlc -config Upgrade.cfg MCUpgrade

and TLAPS on the proof modules:

    tlapm NorCacheProofs.tla
    tlapm XdLayerProofs.tla
    tlapm XdDataProofs.tla
    tlapm MsgRingProofs.tla
    tlapm AsyncFileProofs.tla
    tlapm XcpuQueuesProofs.tla
    tlapm CmdQueueProofs.tla
    tlapm UpgradeProofs.tla

The operators whose name has an underscore (`CacheMiss_NoWriteBack`,
`PopBlock_Kept`, ...) are deliberate mistakes: put in the place of the operator
they are named after, each makes TLC report the property that guards against it.
