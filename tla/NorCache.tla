------------------------------ MODULE NorCache ------------------------------
(***************************************************************************)
(* The write-back page cache of the NOR FAT drive and the driver around it *)
(* (share/fat/nor/cache2.c, share/fat/nor/nordrv_f.c) over the NOR flash   *)
(* driver (driver/nor/it9850/nor.c) and the idle-time flusher              *)
(* (driver/itp/itp_nor.c).                                                 *)
(*                                                                         *)
(* Two threads: App, the file system's caller, which reads, writes,        *)
(* flushes, invalidates, releases and mounts the drive; and Idle, the idle *)
(* handler, which flushes.  Only _NOR_cache_flush takes flushMutex; the    *)
(* read and write paths take no lock.  A NorWrite holds the flash driver's *)
(* mutex, erases the block and programs it in ascending order, and can be  *)
(* cut by a device error or by a power loss at any point.                  *)
(*                                                                         *)
(* A sector's data is the number of the write request that produced it.    *)
(* last_access is kept as a rank: 0 for never used, otherwise the position *)
(* in the order of last use, the largest rank being the most recent.       *)
(***************************************************************************)
EXTENDS Integers, FiniteSets

CONSTANTS
  NumPages,        \* numberOfPages of the cache
  SectorsPerPage,  \* sectorsPerPage: a cache page is one erase block
  NumSectors,      \* number_of_sectors, as nor_getphy reports it
  MaxSpan,         \* bound: most sectors of one request
  AppSectors,      \* the sectors the file system asks for
  AppOps,          \* the operations the App thread uses
  IdleFlush,       \* TRUE: CFG_NOR_CACHE_FLUSH_INTERVAL > 0
  ReadFaults,      \* TRUE: a NorRead may fail part way
  MaxWrites,       \* bound: write requests
  MaxFaults,       \* bound: device errors
  MaxCrashes       \* bound: power losses

Ops == {"read", "write", "flush", "invalidate", "release"}

ASSUME NorCacheAssumption ==
  /\ NumPages \in Nat \ {0}
  /\ SectorsPerPage \in Nat \ {0, 1}
  /\ NumSectors \in Nat \ {0}
  /\ NumSectors % SectorsPerPage = 0     \* the partition is whole blocks
  /\ MaxSpan \in Nat \ {0}
  /\ AppSectors \subseteq 0 .. (NumSectors - 1)
  /\ AppOps \subseteq Ops
  /\ IdleFlush \in BOOLEAN
  /\ ReadFaults \in BOOLEAN
  /\ MaxWrites \in Nat
  /\ MaxFaults \in Nat
  /\ MaxCrashes \in Nat

VARIABLES
  tag,      \* entry -> the page it holds (sector / sectorsPerPage) or CACHE_FREE
  dirty,    \* entry -> dirty flag
  buf,      \* entry -> data, by offset in the page
  rank,     \* entry -> last_access, as a rank
  disk,     \* sector -> what the flash holds
  nor,      \* the NorWrite holding the flash driver's mutex
  app,      \* the App thread: its request and where it is in it
  fl,       \* the flush holding flushMutex
  life,     \* the cache object: mounted ("up"), "freed", or gone ("down")
  latest,   \* history: sector -> data of the last write accepted for it
  writes,   \* number of write requests so far
  faults,   \* number of device errors so far
  crashes   \* number of power losses so far

cacheVars == <<tag, dirty, buf, rank>>
bounds    == <<writes, faults, crashes>>
vars      == <<tag, dirty, buf, rank, disk, nor, app, fl, life, latest,
               writes, faults, crashes>>
-----------------------------------------------------------------------------
Entries == 0 .. (NumPages - 1)
Offsets == 0 .. (SectorsPerPage - 1)
Sectors == 0 .. (NumSectors - 1)

CACHE_FREE == -1
Torn       == -1            \* erased or half programmed flash
Data       == 0 .. MaxWrites
Cell       == Data \union {Torn}

App    == "App"
Idle   == "Idle"
Nobody == "Nobody"

PageOf(s)   == s \div SectorsPerPage
OffsetOf(s) == s % SectorsPerPage
Pages       == {PageOf(s) : s \in Sectors}

\* nor_initfunc passes number_of_sectors - 1 as the end of the partition.
endOfPartition == NumSectors - 1

\* The sectors the cache has: the last sector of the flash is in no page, and
\* a request for it never returns.
Partition == {s \in Sectors : s < endOfPartition}

\* The sectors sector .. sector+count-1 of the page: getPage clips the page
\* at endOfPartition.
SectorsOf(p) == {s \in Partition : PageOf(s) = p}

\* The erase block a page is written to, not clipped.
BlockOf(p) == {s \in Sectors : PageOf(s) = p}

\* Mutant: the lookup misses the first sector of a page, as findPage does.
Covers_NotFirst(e, s) ==
  tag[e] # CACHE_FREE /\ s \in SectorsOf(tag[e]) /\ OffsetOf(s) > 0

Covers(e, s) == tag[e] # CACHE_FREE /\ s \in SectorsOf(tag[e])

\* The first entry that holds s: both lookups scan from entry 0.
Hit(s)      == \E e \in Entries : Covers(e, s)
FirstHit(s) == CHOOSE e \in Entries :
                 /\ Covers(e, s)
                 /\ \A f \in Entries : Covers(f, s) => e <= f

\* What a read of s returns.
View == [s \in Sectors |->
           IF Hit(s) THEN buf[FirstHit(s)][OffsetOf(s)] ELSE disk[s]]

\* The entry getPage replaces: the first free one, else the least recently
\* used, the first of them if the ranks tie.
IsVictim(v) ==
  IF \E e \in Entries : tag[e] = CACHE_FREE
  THEN tag[v] = CACHE_FREE /\ \A e \in Entries : tag[e] = CACHE_FREE => v <= e
  ELSE \A e \in Entries : rank[v] < rank[e] \/ (rank[v] = rank[e] /\ v <= e)

\* last_access = accessTime()
Touch(e) == rank' = [x \in Entries |->
                       IF x = e THEN NumPages
                       ELSE IF rank[x] > rank[e] THEN rank[x] - 1 ELSE rank[x]]

NoWrite   == [by |-> Nobody, ent |-> 0, todo |-> {}]
NoFlush   == [by |-> Nobody, pc |-> "check", i |-> 0, page |-> CACHE_FREE]
NoRequest == [pc |-> "idle", op |-> "read", sector |-> 0, left |-> 0,
              ent |-> 0, data |-> 0]

EmptyCache ==
  /\ tag'   = [e \in Entries |-> CACHE_FREE]
  /\ dirty' = [e \in Entries |-> FALSE]
  /\ buf'   = [e \in Entries |-> [o \in Offsets |-> 0]]
  /\ rank'  = [e \in Entries |-> 0]

Init ==
  /\ tag     = [e \in Entries |-> CACHE_FREE]
  /\ dirty   = [e \in Entries |-> FALSE]
  /\ buf     = [e \in Entries |-> [o \in Offsets |-> 0]]
  /\ rank    = [e \in Entries |-> 0]
  /\ disk    = [s \in Sectors |-> 0]
  /\ nor     = NoWrite
  /\ app     = NoRequest
  /\ fl      = NoFlush
  /\ life    = "down"
  /\ latest  = disk
  /\ writes  = 0
  /\ faults  = 0
  /\ crashes = 0
-----------------------------------------------------------------------------
(***************************************************************************)
(* The App thread.                                                         *)
(***************************************************************************)

\* nor_initfunc: build a new cache and enable flushing.
Mount ==
  /\ life = "down" /\ app.pc = "idle"
  /\ EmptyCache
  /\ life' = "up"
  /\ UNCHANGED <<disk, nor, app, fl, latest, bounds>>

\* nor_readmultiplesector, nor_writemultiplesector and their one-sector forms.
ReadRequest(s, n) ==
  /\ life = "up" /\ app.pc = "idle" /\ "read" \in AppOps
  /\ app' = [NoRequest EXCEPT !.pc = "loop", !.sector = s, !.left = n]
  /\ UNCHANGED <<cacheVars, disk, nor, fl, life, latest, bounds>>

WriteRequest(s, n) ==
  /\ life = "up" /\ app.pc = "idle" /\ "write" \in AppOps
  /\ writes < MaxWrites
  /\ writes' = writes + 1
  /\ app' = [NoRequest EXCEPT !.pc = "loop", !.op = "write", !.sector = s,
                              !.left = n, !.data = writes + 1]
  /\ UNCHANGED <<cacheVars, disk, nor, fl, life, latest, faults, crashes>>

\* iteFatNorFlush from the ioctl, _NOR_cache_invalidate, nor_release: each
\* begins with _NOR_cache_flush.
FlushRequest(op) ==
  /\ life = "up" /\ app.pc = "idle" /\ op \in AppOps
  /\ app' = [NoRequest EXCEPT !.pc = "flush", !.op = op]
  /\ UNCHANGED <<cacheVars, disk, nor, fl, life, latest, bounds>>

\* Mutant: the chunk is not clipped to the sectors still to be moved.
Chunk_NotClipped == {s \in SectorsOf(PageOf(app.sector)) : app.sector <= s}

\* The part of the request that lies in the page of its next sector.
Chunk == {s \in SectorsOf(PageOf(app.sector)) :
            app.sector <= s /\ s < app.sector + app.left}

\* memcpy between the caller's buffer and entry e, whose data is b; a write
\* marks the entry dirty even when the chunk is empty.
Copy(e, b) ==
  LET done == Cardinality(Chunk) IN
  /\ app' = IF app.left = done
            THEN NoRequest
            ELSE [app EXCEPT !.pc = "loop", !.sector = @ + done, !.left = @ - done]
  /\ IF app.op = "write"
     THEN /\ buf' = [buf EXCEPT ![e] = [o \in Offsets |->
                       IF \E s \in Chunk : OffsetOf(s) = o
                       THEN app.data ELSE b[o]]]
          /\ dirty' = [dirty EXCEPT ![e] = TRUE]
          /\ latest' = [s \in Sectors |->
                          IF s \in Chunk THEN app.data ELSE latest[s]]
     ELSE /\ buf' = [buf EXCEPT ![e] = b]
          /\ UNCHANGED <<dirty, latest>>

\* The page is in the cache.  _NOR_cache_writeSectors finds it with findPage,
\* which does not see the first sector of a page and leaves last_access
\* alone; otherwise getPage finds it and renews last_access.
CacheHit ==
  /\ app.pc = "loop" /\ Hit(app.sector)
  /\ LET e == FirstHit(app.sector) IN
       /\ Copy(e, buf[e])
       /\ IF app.op = "write" /\ OffsetOf(app.sector) > 0
          THEN UNCHANGED rank
          ELSE Touch(e)
  /\ UNCHANGED <<tag, disk, nor, fl, life, bounds>>

\* Mutant: the dirty flag of the replaced entry is not looked at.
CacheMiss_NoWriteBack ==
  /\ app.pc = "loop" /\ ~Hit(app.sector)
  /\ \E v \in Entries :
       /\ IsVictim(v)
       /\ app' = [app EXCEPT !.ent = v, !.pc = "fill"]
  /\ UNCHANGED <<cacheVars, disk, nor, fl, life, latest, bounds>>

\* getPage picks the entry to replace; a dirty one is written back first.
CacheMiss ==
  /\ app.pc = "loop" /\ ~Hit(app.sector)
  /\ \E v \in Entries :
       /\ IsVictim(v)
       /\ app' = [app EXCEPT !.ent = v,
                    !.pc = IF tag[v] # CACHE_FREE /\ dirty[v]
                           THEN "evict" ELSE "fill"]
  /\ UNCHANGED <<cacheVars, disk, nor, fl, life, latest, bounds>>

\* cacheEntries[oldUsed].dirty = false, after the write-back.
EvictDone ==
  /\ app.pc = "clean"
  /\ dirty' = [dirty EXCEPT ![app.ent] = FALSE]
  /\ app' = [app EXCEPT !.pc = "fill"]
  /\ UNCHANGED <<tag, buf, rank, disk, nor, fl, life, latest, bounds>>

\* getPage reads the page in, retags the entry, and the request copies its
\* chunk.
Fill ==
  /\ app.pc = "fill" /\ nor.by = Nobody
  /\ LET v == app.ent
         p == PageOf(app.sector) IN
       /\ tag' = [tag EXCEPT ![v] = p]
       /\ Touch(v)
       /\ Copy(v, [o \in Offsets |->
                     IF \E s \in SectorsOf(p) : OffsetOf(s) = o
                     THEN disk[CHOOSE s \in SectorsOf(p) : OffsetOf(s) = o]
                     ELSE buf[v][o]])
  /\ UNCHANGED <<disk, nor, fl, life, bounds>>

\* NorRead fails after k sectors: getPage returns NULL and leaves the entry
\* with its old tag.
FillFails(k) ==
  /\ app.pc = "fill" /\ nor.by = Nobody /\ ReadFaults
  /\ faults < MaxFaults
  /\ faults' = faults + 1
  /\ LET p == PageOf(app.sector) IN
       buf' = [buf EXCEPT ![app.ent] = [o \in Offsets |->
                 IF o < k /\ \E s \in SectorsOf(p) : OffsetOf(s) = o
                 THEN disk[CHOOSE s \in SectorsOf(p) : OffsetOf(s) = o]
                 ELSE buf[app.ent][o]]]
  /\ app' = NoRequest
  /\ UNCHANGED <<tag, dirty, rank, disk, nor, fl, life, latest, writes, crashes>>

\* What follows _NOR_cache_flush in the three operations that begin with it.
FlushReturns ==
  /\ app.pc = "after" /\ app.op = "flush"
  /\ app' = NoRequest
  /\ UNCHANGED <<cacheVars, disk, nor, fl, life, latest, bounds>>

\* The rest of _NOR_cache_invalidate: whatever is not on the flash is given up.
Invalidate ==
  /\ app.pc = "after" /\ app.op = "invalidate"
  /\ EmptyCache
  /\ latest' = disk
  /\ app' = NoRequest
  /\ UNCHANGED <<disk, nor, fl, life, bounds>>

\* The rest of _NOR_cache_destructor: the pages and the entries are freed.
FreeCache ==
  /\ app.pc = "after" /\ app.op = "release" /\ life = "up"
  /\ EmptyCache
  /\ latest' = disk
  /\ life' = "freed"
  /\ UNCHANGED <<disk, nor, app, fl, bounds>>

\* The rest of nor_release: CacheValidFlush = false, under flushMutex.
DisableFlush ==
  /\ app.pc = "after" /\ life = "freed" /\ fl.by = Nobody
  /\ life' = "down"
  /\ app' = NoRequest
  /\ UNCHANGED <<cacheVars, disk, nor, fl, latest, bounds>>
-----------------------------------------------------------------------------
(***************************************************************************)
(* _NOR_cache_flush, run by App or by Idle (iteFatNorFlush).  When the     *)
(* drive is down CacheValidFlush is false and the call changes nothing.    *)
(*                                                                         *)
(* The flush has no result here: `ret` is false when a write failed and    *)
(* uninitialised otherwise, and none of the callers looks at it.           *)
(* iteFatNorFlush is void, the ioctl returns 0 whatever happened, and      *)
(* _NOR_cache_invalidate and _NOR_cache_destructor go on.                  *)
(***************************************************************************)

FlushLock(t) ==
  /\ fl.by = Nobody /\ life # "down"
  /\ IF t = App THEN app.pc = "flush" ELSE IdleFlush
  /\ fl' = [NoFlush EXCEPT !.by = t]
  /\ UNCHANGED <<cacheVars, disk, nor, app, life, latest, bounds>>

\* if (cacheEntries[i].dirty): the arguments of writeSectors are read here.
FlushCheck ==
  /\ fl.by # Nobody /\ fl.pc = "check" /\ fl.i < NumPages /\ life = "up"
  /\ fl' = IF dirty[fl.i]
           THEN [fl EXCEPT !.pc = "write", !.page = tag[fl.i]]
           ELSE [fl EXCEPT !.pc = "clear"]
  /\ UNCHANGED <<cacheVars, disk, nor, app, life, latest, bounds>>

\* Mutant: the flush clears the page out, as the comment in cache2.h says.
FlushClear_Evicts ==
  /\ fl.pc = "clear" /\ life = "up"
  /\ tag' = [tag EXCEPT ![fl.i] = CACHE_FREE]
  /\ dirty' = [dirty EXCEPT ![fl.i] = FALSE]
  /\ fl' = [fl EXCEPT !.pc = "check", !.i = @ + 1]
  /\ UNCHANGED <<buf, rank, disk, nor, app, life, latest, bounds>>

\* cacheEntries[i].dirty = false, whether the page was written or not.
FlushClear ==
  /\ fl.pc = "clear" /\ life = "up"
  /\ dirty' = [dirty EXCEPT ![fl.i] = FALSE]
  /\ fl' = [fl EXCEPT !.pc = "check", !.i = @ + 1]
  /\ UNCHANGED <<tag, buf, rank, disk, nor, app, life, latest, bounds>>

\* Mutant: the function returns without releasing flushMutex.
FlushUnlock_Kept ==
  /\ fl' = fl
  /\ app' = IF fl.by = App THEN [app EXCEPT !.pc = "after"] ELSE app

\* end: flushMutex is released; the caller goes on.
FlushUnlock ==
  /\ fl' = NoFlush
  /\ app' = IF fl.by = App THEN [app EXCEPT !.pc = "after"] ELSE app

\* Mutant: the flush loop stops one page early.
FlushEnd_OneShort ==
  /\ fl.by # Nobody /\ fl.pc = "check" /\ fl.i >= NumPages - 1
  /\ FlushUnlock
  /\ UNCHANGED <<cacheVars, disk, nor, life, latest, bounds>>

FlushEnd ==
  /\ fl.by # Nobody /\ fl.pc = "check" /\ fl.i = NumPages
  /\ FlushUnlock
  /\ UNCHANGED <<cacheVars, disk, nor, life, latest, bounds>>
-----------------------------------------------------------------------------
(***************************************************************************)
(* The flash driver: one NorWrite at a time.                               *)
(***************************************************************************)

Evicting(t) == t = App /\ app.pc = "evict"
Flushing(t) == fl.by = t /\ fl.pc = "write"

\* The driver's mutex is taken and the whole block erased; only the sectors of
\* the clipped page are programmed after it.
NorErase(t) ==
  /\ nor.by = Nobody
  /\ Evicting(t) \/ Flushing(t)
  /\ LET e == IF Evicting(t) THEN app.ent ELSE fl.i
         p == IF Evicting(t) THEN tag[e] ELSE fl.page IN
       /\ nor' = [by |-> t, ent |-> e, todo |-> SectorsOf(p)]
       /\ disk' = [s \in Sectors |-> IF s \in BlockOf(p) THEN Torn ELSE disk[s]]
  /\ UNCHANGED <<cacheVars, app, fl, life, latest, bounds>>

\* Mutant: every page is programmed from the first entry's buffer.
NorProgram_FirstEntry ==
  /\ nor.by # Nobody
  /\ \E s \in nor.todo :
       /\ \A r \in nor.todo : s <= r
       /\ disk' = [disk EXCEPT ![s] = buf[0][OffsetOf(s)]]
       /\ nor' = [nor EXCEPT !.todo = @ \ {s}]
  /\ UNCHANGED <<cacheVars, app, fl, life, latest, bounds>>

\* The next sector is programmed from the cache page's buffer.
NorProgram ==
  /\ nor.by # Nobody
  /\ \E s \in nor.todo :
       /\ \A r \in nor.todo : s <= r
       /\ disk' = [disk EXCEPT ![s] = buf[nor.ent][OffsetOf(s)]]
       /\ nor' = [nor EXCEPT !.todo = @ \ {s}]
  /\ UNCHANGED <<cacheVars, app, fl, life, latest, bounds>>

\* Mutant: the result of writeSectors is ignored.
NorReturn_Ignored(t, ok) ==
  IF Evicting(t)
  THEN app' = [app EXCEPT !.pc = "clean"] /\ UNCHANGED fl
  ELSE fl' = [fl EXCEPT !.pc = "clear"] /\ UNCHANGED app

\* NorWrite returns to the thread that called it.
NorReturn(t, ok) ==
  IF Evicting(t)
  THEN /\ app' = IF ok THEN [app EXCEPT !.pc = "clean"] ELSE NoRequest
       /\ UNCHANGED fl
  ELSE IF ok
       THEN fl' = [fl EXCEPT !.pc = "clear"] /\ UNCHANGED app
       ELSE FlushUnlock

NorDone ==
  /\ nor.by # Nobody /\ nor.todo = {}
  /\ nor' = NoWrite
  /\ NorReturn(nor.by, TRUE)
  /\ UNCHANGED <<cacheVars, disk, life, latest, bounds>>

\* A device error, before the erase or at any point after it.
NorFails(t) ==
  /\ \/ nor.by = t
     \/ nor.by = Nobody /\ (Evicting(t) \/ Flushing(t))
  /\ faults < MaxFaults
  /\ faults' = faults + 1
  /\ nor' = NoWrite
  /\ NorReturn(t, FALSE)
  /\ UNCHANGED <<cacheVars, disk, life, latest, writes, crashes>>

\* The power is lost: only the flash remains.
PowerLoss ==
  /\ crashes < MaxCrashes /\ life # "down"
  /\ crashes' = crashes + 1
  /\ EmptyCache
  /\ nor' = NoWrite /\ app' = NoRequest /\ fl' = NoFlush
  /\ life' = "down"
  /\ latest' = disk
  /\ UNCHANGED <<disk, writes, faults>>
-----------------------------------------------------------------------------
Request ==
  \/ \E s \in AppSectors, n \in 1 .. MaxSpan :
       /\ s + n - 1 \in AppSectors
       /\ ReadRequest(s, n) \/ WriteRequest(s, n)
  \/ \E op \in {"flush", "invalidate", "release"} : FlushRequest(op)

AppStep ==
  \/ CacheHit \/ CacheMiss \/ EvictDone \/ Fill
  \/ FlushReturns \/ Invalidate \/ FreeCache \/ DisableFlush
  \/ FlushLock(App)

FlushStep == FlushCheck \/ FlushClear \/ FlushEnd

NorStep == NorProgram \/ NorDone \/ \E t \in {App, Idle} : NorErase(t)

Fault ==
  \/ \E k \in Offsets : FillFails(k)
  \/ \E t \in {App, Idle} : NorFails(t)
  \/ PowerLoss

Next == Mount \/ Request \/ AppStep \/ FlushLock(Idle) \/ FlushStep \/ NorStep \/ Fault

Spec == Init /\ [][Next]_vars

(***************************************************************************)
(* Fairness: a thread that has begun an operation keeps being scheduled,   *)
(* and so does the flash driver.  App waits for flushMutex and for the     *)
(* driver's mutex, which Idle takes again and again: a mutex is granted to *)
(* a waiter (strong fairness).  Nothing makes requests, faults or crashes  *)
(* happen.                                                                 *)
(***************************************************************************)
Fairness ==
  /\ SF_vars(AppStep)
  /\ WF_vars(FlushStep)
  /\ WF_vars(NorProgram \/ NorDone)
  /\ \A t \in {App, Idle} : SF_vars(NorErase(t))

FairSpec == Spec /\ Fairness
-----------------------------------------------------------------------------
(***************************************************************************)
(* Properties.                                                             *)
(***************************************************************************)

NorState   == [by : {App, Idle, Nobody}, ent : Entries, todo : SUBSET Sectors]
AppState   == [pc : {"idle", "loop", "evict", "clean", "fill", "flush", "after"},
               op : Ops, sector : Sectors \union {NumSectors}, left : 0 .. MaxSpan,
               ent : Entries, data : Data]
FlushState == [by : {App, Idle, Nobody}, pc : {"check", "write", "clear"},
               i : 0 .. NumPages, page : Pages \union {CACHE_FREE}]

\* Every variable has its type.
TypeOK ==
  /\ tag \in [Entries -> Pages \union {CACHE_FREE}]
  /\ dirty \in [Entries -> BOOLEAN]
  /\ buf \in [Entries -> [Offsets -> Cell]]
  /\ rank \in [Entries -> 0 .. NumPages]
  /\ disk \in [Sectors -> Cell]
  /\ nor \in NorState
  /\ app \in AppState
  /\ fl \in FlushState
  /\ life \in {"up", "freed", "down"}
  /\ latest \in [Sectors -> Cell]
  /\ writes \in 0 .. MaxWrites
  /\ faults \in 0 .. MaxFaults
  /\ crashes \in 0 .. MaxCrashes

\* A read returns the data last written to the sector, whatever is cached,
\* evicted, flushed or has failed in between: _NOR_cache_readSectors against
\* _NOR_cache_writeSectors, for every sector the cache has (a read of the one
\* it has not never returns).
CacheHoldsLatest == \A s \in Partition : View[s] = latest[s]

\* The only sectors of the partition whose last data is not on the flash are
\* those of dirty pages: an eviction, a flush or an erase never leaves the only
\* copy of a sector in a page that nobody will write back (cache2.c, getPage
\* and flush).
OnlyDirtyPagesAreAtRisk ==
  \A s \in Partition :
    disk[s] # latest[s] => \E e \in Entries : Covers(e, s) /\ dirty[e]

\* A sector of the partition that no write request has named holds what it held
\* before the first request, or is erased while its own page is written: no page
\* is ever written over another page's sectors (after a power loss `latest` is
\* what the flash then held).  The last sector of the flash, which the write of
\* the page before it erases for good, is not in the partition.
NeverWrittenIsUntouched ==
  \A s \in Partition : latest[s] = 0 => disk[s] \in {0, Torn}

\* No two entries hold the same page, so a write never updates one copy and a
\* write-back saves another.
NoAlias ==
  \A e, f \in Entries : tag[e] # CACHE_FREE /\ tag[e] = tag[f] => e = f

\* When a flush the App thread asked for ends without a device error, the flash
\* holds the last data of every sector of the partition: what was accepted
\* before survives a power loss.
FlushIsDurable ==
  [][app.pc = "flush" /\ app'.pc = "after" /\ faults' = faults
     => \A s \in Partition : disk'[s] = latest'[s]]_vars

\* Every request returns: the loops of _NOR_cache_readSectors,
\* _NOR_cache_writeSectors and _NOR_cache_flush end, and no thread waits for
\* ever for flushMutex or for the flash driver.
RequestEnds == app.pc # "idle" ~> app.pc = "idle"

\* The cache implements the device the file system was promised, less the last
\* sector.
Promise == INSTANCE NorDisk WITH
             Sectors <- Partition,
             content <- [s \in Partition |-> View[s]],
             stable <- [s \in Partition |-> disk[s]],
             giveUp <- \/ life # "up"
                       \/ app.pc = "after" /\ app.op = "invalidate"
KeepsPromise == Promise!Spec
=============================================================================
