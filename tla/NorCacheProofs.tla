--------------------------- MODULE NorCacheProofs ---------------------------
(***************************************************************************)
(* Proofs about NorCache, for every value of the constants.  First, every  *)
(* variable has its type, whatever threads run and whatever fails.  Then,  *)
(* for a cache used by one thread at a time, the cache is coherent, loses  *)
(* nothing, and a flush without an error saves everything; device errors on      *)
(* writes and power losses at any point are included.                      *)
(* Last, beside the idle flusher, a working set that fits in the cache is  *)
(* read as it was written.                                                 *)
(***************************************************************************)
EXTENDS NorCache, TLAPS, FiniteSetTheorems

(***************************************************************************)
(* Facts about pages and offsets.                                          *)
(***************************************************************************)

\* A sector is determined by its page and its offset in the page.
LEMMA PageArithmetic ==
  /\ \A s \in Sectors : PageOf(s) \in Nat /\ OffsetOf(s) \in Offsets
  /\ \A r, s \in Sectors :
       PageOf(r) = PageOf(s) /\ OffsetOf(r) = OffsetOf(s) => r = s
  /\ \A s \in Sectors : PageOf(s) \in Pages
  /\ CACHE_FREE \notin Pages
  /\ Partition \subseteq Sectors
  /\ \A p : SectorsOf(p) \subseteq Partition /\ SectorsOf(p) \subseteq Sectors
<1>1. ASSUME NEW a \in Nat, NEW k \in Nat \ {0}
      PROVE  a \div k \in Nat /\ a % k \in 0 .. (k - 1)
  OBVIOUS
<1>2. ASSUME NEW a \in Nat, NEW b \in Nat, NEW k \in Nat \ {0},
             a \div k = b \div k, a % k = b % k
      PROVE  a = b
  <2>1. a = k * (a \div k) + (a % k)  OBVIOUS
  <2>2. b = k * (b \div k) + (b % k)  OBVIOUS
  <2> QED  BY <1>2, <2>1, <2>2
<1>3. SectorsPerPage \in Nat \ {0} /\ Sectors \subseteq Nat
  BY NorCacheAssumption DEF Sectors
<1>4. \A s \in Sectors : PageOf(s) \in Nat /\ OffsetOf(s) \in Offsets
  BY <1>1, <1>3 DEF PageOf, OffsetOf, Offsets
<1>5. \A r, s \in Sectors :
        PageOf(r) = PageOf(s) /\ OffsetOf(r) = OffsetOf(s) => r = s
  BY <1>2, <1>3 DEF PageOf, OffsetOf
<1>6. \A s \in Sectors : PageOf(s) \in Pages
  BY DEF Pages
<1>7. CACHE_FREE \notin Pages
  BY <1>4 DEF Pages, CACHE_FREE
<1>8. /\ Partition \subseteq Sectors
      /\ \A p : SectorsOf(p) \subseteq Partition /\ SectorsOf(p) \subseteq Sectors
  BY DEF SectorsOf, Partition
<1> QED  BY <1>4, <1>5, <1>6, <1>7, <1>8

\* The chunk of a request is finite, no larger than what is left of the
\* request, and ends within the partition.
LEMMA ChunkSize ==
  ASSUME app.sector \in Sectors \union {NumSectors}, app.left \in Nat
  PROVE  /\ Cardinality(Chunk) \in Nat
         /\ Cardinality(Chunk) <= app.left
         /\ app.sector + Cardinality(Chunk) <= NumSectors
<1> DEFINE lo   == app.sector
           hi   == app.sector + app.left - 1
           low  == lo .. hi
           part == lo .. (NumSectors - 1)
<1>0. app.sector \in Int /\ NumSectors \in Int /\ app.sector <= NumSectors
  BY NorCacheAssumption DEF Sectors
<1>1. Chunk \subseteq low /\ Chunk \subseteq part
  BY <1>0 DEF Chunk, SectorsOf, Partition, Sectors
<1>2. /\ IsFiniteSet(low) /\ Cardinality(low) = app.left
      /\ IsFiniteSet(part) /\ Cardinality(part) = NumSectors - app.sector
  <2>1. lo \in Int /\ hi \in Int /\ NumSectors - 1 \in Int
    BY <1>0
  <2>2. /\ IsFiniteSet(low)
        /\ Cardinality(low) = IF lo > hi THEN 0 ELSE hi - lo + 1
    BY <2>1, FS_Interval
  <2>3. /\ IsFiniteSet(part)
        /\ Cardinality(part) = IF lo > NumSectors - 1 THEN 0 ELSE NumSectors - 1 - lo + 1
    BY <2>1, FS_Interval
  <2> QED  BY <1>0, <2>2, <2>3
<1> HIDE DEF low, part
<1>3. /\ Cardinality(Chunk) <= app.left
      /\ Cardinality(Chunk) <= NumSectors - app.sector
      /\ IsFiniteSet(Chunk)
  BY <1>1, <1>2, FS_Subset
<1> QED  BY <1>0, <1>3, FS_CardinalityType

\* Of the sectors the cache has, an erase opens those of the page and no other.
LEMMA EraseInPartition ==
  ASSUME NEW p, disk' = [s \in Sectors |-> IF s \in BlockOf(p) THEN Torn ELSE disk[s]]
  PROVE  \A s \in Partition : disk'[s] = IF s \in SectorsOf(p) THEN Torn ELSE disk[s]
BY DEF BlockOf, SectorsOf, Partition
-----------------------------------------------------------------------------
(***************************************************************************)
(* Type correctness, for every value of the constants.                     *)
(***************************************************************************)

TypeInv ==
  /\ TypeOK
  /\ fl.pc # "check" => fl.i \in Entries
  /\ app.sector + app.left <= NumSectors
  /\ app.pc \in {"loop", "evict", "clean", "fill"} => app.left > 0
  /\ fl.by = App => app.pc = "flush"
  /\ nor.by # Nobody => Evicting(nor.by) \/ Flushing(nor.by)

USE DEF App, Idle, Nobody, Evicting, Flushing, AppState, FlushState, NorState

\* The records that stand for "no request", "no flush" and "no write" have
\* their type, and so has an empty cache.
LEMMA IdleTypes ==
  /\ NoRequest \in AppState
  /\ NoFlush \in FlushState
  /\ NoWrite \in NorState
  /\ NoFlush.pc = "check" /\ NoFlush.by = Nobody /\ NoWrite.by = Nobody
  /\ NoRequest.pc = "idle" /\ NoRequest.sector + NoRequest.left <= NumSectors
  /\ 0 \in Cell /\ Torn \in Cell /\ Data \subseteq Cell
BY NorCacheAssumption
   DEF NoRequest, NoFlush, NoWrite, NorState,
       Ops, Sectors, Entries, Data, Cell, Torn

\* The initial state has its types.
LEMMA InitType == Init => TypeInv
BY IdleTypes, NorCacheAssumption
   DEF Init, TypeInv, TypeOK, NoRequest, NoFlush, Data

\* A new cache has its types.
LEMMA EmptyCacheType ==
  EmptyCache => /\ tag' \in [Entries -> Pages \union {CACHE_FREE}]
                /\ dirty' \in [Entries -> BOOLEAN]
                /\ buf' \in [Entries -> [Offsets -> Cell]]
                /\ rank' \in [Entries -> 0 .. NumPages]
BY IdleTypes, NorCacheAssumption DEF EmptyCache

\* Renewing last_access keeps every rank a rank.
LEMMA TouchType ==
  ASSUME TypeOK, NEW e \in Entries, Touch(e)
  PROVE  rank' \in [Entries -> 0 .. NumPages]
<1>1. rank \in [Entries -> 0 .. NumPages] /\ NumPages \in Nat
  BY NorCacheAssumption DEF TypeOK
<1> QED  BY <1>1 DEF Touch

\* A sector that is cached has a first entry: FirstHit is well defined.
LEMMA FirstEntry ==
  ASSUME NEW s, Hit(s)
  PROVE  /\ FirstHit(s) \in Entries
         /\ Covers(FirstHit(s), s)
\* The first entry is the one with the fewest entries up to it.
<1> DEFINE T == {e \in Entries : Covers(e, s)}
           U == {0 .. e : e \in T}
           R == StrictSubsetOrdering(Nat)
<1>1. T \subseteq Nat /\ U # {}
  BY NorCacheAssumption DEF Entries, Hit
<1>2. U \subseteq FiniteSubsetsOf(Nat)
  <2>1. \A e \in T : 0 .. e \in SUBSET Nat /\ IsFiniteSet(0 .. e)
    BY <1>1, FS_Interval
  <2> QED  BY <2>1 DEF FiniteSubsetsOf
<1>3. PICK X \in U : \A Y \in U : ~(<<Y, X>> \in R)
  BY <1>1, <1>2, FS_StrictSubsetOrderingWellFounded, WFMin
<1>4. PICK x \in T : X = 0 .. x
  OBVIOUS
<1>5. ASSUME NEW y \in T PROVE x <= y
  <2>1. ~(<<0 .. y, 0 .. x>> \in R)
    BY <1>3, <1>4
  <2>2. ~(0 .. y \subseteq 0 .. x /\ 0 .. y # 0 .. x)
    <3>1. 0 .. y \in SUBSET Nat /\ 0 .. x \in SUBSET Nat
      BY <1>1
    <3> QED  BY <2>1, <3>1 DEF StrictSubsetOrdering
  <2>3. x \in 0 .. x /\ x \in Nat /\ y \in Nat
    BY <1>1
  <2> QED  BY <2>2, <2>3
<1> QED  BY <1>5 DEF FirstHit

\* A copy between the request and an entry keeps the types, and the request
\* within the partition.
LEMMA CopyType ==
  ASSUME TypeInv, NEW e \in Entries, NEW b \in [Offsets -> Cell], Copy(e, b)
  PROVE  /\ app' \in AppState
         /\ app'.sector + app'.left <= NumSectors
         /\ app'.pc \in {"loop", "evict", "clean", "fill"} => app'.left > 0
         /\ buf' \in [Entries -> [Offsets -> Cell]]
         /\ dirty' \in [Entries -> BOOLEAN]
         /\ latest' \in [Sectors -> Cell]
<1> DEFINE done == Cardinality(Chunk)
<1>1. /\ app.sector \in Sectors \union {NumSectors} /\ app.left \in 0 .. MaxSpan
      /\ MaxSpan \in Nat /\ NumSectors \in Nat
  BY NorCacheAssumption DEF TypeInv, TypeOK
<1>2. done \in Nat /\ done <= app.left /\ app.sector + done <= NumSectors
  BY <1>1, ChunkSize
<1>3. app.sector + done \in Sectors \union {NumSectors} /\ app.left - done \in 0 .. MaxSpan
  BY <1>1, <1>2 DEF Sectors
<1>4. /\ app' \in AppState
      /\ app'.sector + app'.left <= NumSectors
      /\ app'.pc \in {"loop", "evict", "clean", "fill"} => app'.left > 0
  <2> HIDE DEF done
  <2>1. app' = IF app.left = done THEN NoRequest
               ELSE [app EXCEPT !.pc = "loop", !.sector = @ + done, !.left = @ - done]
    BY DEF Copy, done
  <2>2. CASE app.left = done
    BY <2>1, <2>2, IdleTypes DEF NoRequest
  <2>3. CASE app.left # done
    <3>1. app' = [app EXCEPT !.pc = "loop", !.sector = app.sector + done,
                             !.left = app.left - done]
      BY <2>1, <2>3
    <3>2. app'.sector = app.sector + done /\ app'.left = app.left - done
      BY <3>1 DEF TypeInv, TypeOK
    <3>3. app'.sector + app'.left <= NumSectors /\ app'.left > 0
      BY <3>2, <2>3, <1>1, <1>2 DEF TypeInv, Sectors
    <3> QED  BY <3>1, <3>3, <1>3 DEF TypeInv, TypeOK
  <2> QED  BY <2>2, <2>3
<1>5. buf \in [Entries -> [Offsets -> Cell]] /\ dirty \in [Entries -> BOOLEAN]
      /\ latest \in [Sectors -> Cell] /\ app.data \in Cell
  BY IdleTypes DEF TypeInv, TypeOK
<1>6. buf' \in [Entries -> [Offsets -> Cell]]
  <2>1. CASE app.op = "write"
    <3>1. [o \in Offsets |-> IF \E s \in Chunk : OffsetOf(s) = o
                              THEN app.data ELSE b[o]] \in [Offsets -> Cell]
      BY <1>5
    <3> QED  BY <3>1, <2>1, <1>5 DEF Copy
  <2>2. CASE app.op # "write"
    BY <2>2, <1>5 DEF Copy
  <2> QED  BY <2>1, <2>2
<1>7. dirty' \in [Entries -> BOOLEAN] /\ latest' \in [Sectors -> Cell]
  BY <1>5 DEF Copy
<1> QED  BY <1>4, <1>6, <1>7

\* The data getPage reads into an entry has its type.
LEMMA PageDataType ==
  ASSUME TypeOK, NEW v \in Entries, NEW p, NEW k
  PROVE  /\ [o \in Offsets |->
               IF \E s \in SectorsOf(p) : OffsetOf(s) = o
               THEN disk[CHOOSE s \in SectorsOf(p) : OffsetOf(s) = o]
               ELSE buf[v][o]] \in [Offsets -> Cell]
         /\ [o \in Offsets |->
               IF o < k /\ \E s \in SectorsOf(p) : OffsetOf(s) = o
               THEN disk[CHOOSE s \in SectorsOf(p) : OffsetOf(s) = o]
               ELSE buf[v][o]] \in [Offsets -> Cell]
<1>1. ASSUME NEW o, \E s \in SectorsOf(p) : OffsetOf(s) = o
      PROVE  disk[CHOOSE s \in SectorsOf(p) : OffsetOf(s) = o] \in Cell
  BY <1>1, PageArithmetic DEF TypeOK
<1>2. \A o \in Offsets : buf[v][o] \in Cell
  BY DEF TypeOK
<1> QED  BY <1>1, <1>2

\* The sector of a page at an offset is the one it reads there.
LEMMA SectorAt ==
  ASSUME NEW p, NEW s \in SectorsOf(p)
  PROVE  /\ OffsetOf(s) \in Offsets
         /\ (CHOOSE r \in SectorsOf(p) : OffsetOf(r) = OffsetOf(s)) = s
<1>1. OffsetOf(s) \in Offsets
  BY PageArithmetic
<1>2. \A r \in SectorsOf(p) : OffsetOf(r) = OffsetOf(s) => r = s
  BY PageArithmetic DEF SectorsOf
<1> QED  BY <1>1, <1>2

\* Every step, with any threads and any faults, preserves the types.
LEMMA NextType == TypeInv /\ [Next]_vars => TypeInv'
<1> SUFFICES ASSUME TypeInv, [Next]_vars PROVE TypeInv'
  OBVIOUS
<1> USE DEF TypeInv
<1>1. CASE Mount
  BY <1>1, EmptyCacheType DEF Mount, TypeOK, bounds
<1>2. CASE Request
  <2>1. ASSUME NEW s \in AppSectors, NEW n \in 1 .. MaxSpan, s + n - 1 \in AppSectors,
               ReadRequest(s, n) \/ WriteRequest(s, n)
        PROVE  TypeInv'
    <3>1. /\ s \in Sectors /\ n \in 0 .. MaxSpan /\ s + n <= NumSectors
          /\ MaxWrites \in Nat
      BY <2>1, NorCacheAssumption DEF Sectors
    <3>2. CASE ReadRequest(s, n)
      <4>1. app' = [pc |-> "loop", op |-> "read", sector |-> s, left |-> n,
                    ent |-> 0, data |-> 0]
        BY <3>2 DEF ReadRequest, NoRequest
      <4>2. app' \in AppState
        BY <4>1, <3>1, NorCacheAssumption DEF Ops, Data, Entries
      <4> QED  BY <3>1, <3>2, <4>1, <4>2 DEF ReadRequest, TypeOK, cacheVars, bounds
    <3>3. CASE WriteRequest(s, n)
      <4>1. app' = [pc |-> "loop", op |-> "write", sector |-> s, left |-> n,
                    ent |-> 0, data |-> writes + 1]
        BY <3>3 DEF WriteRequest, NoRequest
      <4>2. writes' = writes + 1 /\ writes + 1 \in 0 .. MaxWrites
        BY <3>1, <3>3 DEF WriteRequest, TypeOK
      <4>3. app' \in AppState
        BY <4>1, <4>2, <3>1, NorCacheAssumption DEF Ops, Data, Entries
      <4> QED
        BY <3>1, <3>3, <4>1, <4>2, <4>3 DEF WriteRequest, TypeOK, cacheVars
    <3> QED  BY <2>1, <3>2, <3>3
  <2>2. ASSUME NEW op \in {"flush", "invalidate", "release"}, FlushRequest(op)
        PROVE  TypeInv'
    BY <2>2, IdleTypes
       DEF FlushRequest, TypeOK, cacheVars, bounds, NoRequest, Ops
  <2> QED  BY <1>2, <2>1, <2>2 DEF Request
<1>3. CASE CacheHit
  <2> DEFINE e == FirstHit(app.sector)
  <2>1. e \in Entries /\ buf[e] \in [Offsets -> Cell]
    BY <1>3, FirstEntry DEF CacheHit, TypeOK
  <2>2. Copy(e, buf[e]) /\ (UNCHANGED rank \/ Touch(e))
    BY <1>3 DEF CacheHit
  <2>3. rank' \in [Entries -> 0 .. NumPages]
    BY <2>1, <2>2, TouchType DEF TypeOK
  <2> HIDE DEF e
  <2> QED  BY <1>3, <2>1, <2>2, <2>3, CopyType DEF CacheHit, TypeOK, bounds
<1>4. CASE CacheMiss
  BY <1>4 DEF CacheMiss, TypeOK, cacheVars, bounds
<1>5. CASE EvictDone
  BY <1>5 DEF EvictDone, TypeOK, bounds
<1>6. CASE Fill
  <2>1. app.ent \in Entries /\ PageOf(app.sector) \in Pages
    <3>1. app.sector \in Sectors
      BY <1>6, NorCacheAssumption DEF Fill, TypeOK, Sectors
    <3> QED  BY <3>1, PageArithmetic DEF TypeOK
  <2> DEFINE b == [o \in Offsets |->
                     IF \E s \in SectorsOf(PageOf(app.sector)) : OffsetOf(s) = o
                     THEN disk[CHOOSE s \in SectorsOf(PageOf(app.sector)) : OffsetOf(s) = o]
                     ELSE buf[app.ent][o]]
  <2>2. Copy(app.ent, b) /\ Touch(app.ent)
    BY <1>6 DEF Fill
  <2>3. b \in [Offsets -> Cell]
    BY <2>1, PageDataType
  <2> HIDE DEF b
  <2>4. tag' \in [Entries -> Pages \union {CACHE_FREE}]
    BY <1>6, <2>1 DEF Fill, TypeOK
  <2> QED  BY <1>6, <2>1, <2>2, <2>3, <2>4, TouchType, CopyType DEF Fill, TypeOK, bounds
<1>7. CASE FlushReturns \/ DisableFlush
  <2>1. /\ app.pc = "after" /\ app' = NoRequest /\ life' \in {"up", "freed", "down"}
        /\ UNCHANGED <<cacheVars, disk, nor, fl, latest, bounds>>
    BY <1>7 DEF FlushReturns, DisableFlush, TypeOK
  <2>2. TypeOK'
    BY <2>1, IdleTypes DEF TypeOK, cacheVars, bounds
  <2>3. fl.by # App /\ (nor.by # Nobody => Flushing(nor.by))
    BY <2>1
  <2> QED  BY <2>1, <2>2, <2>3, IdleTypes
<1>8. CASE Invalidate \/ FreeCache
  <2>1. /\ app.pc = "after" /\ EmptyCache /\ life' \in {"up", "freed", "down"}
        /\ app' \in {app, NoRequest} /\ latest' = disk
        /\ UNCHANGED <<disk, nor, fl, bounds>>
    BY <1>8 DEF Invalidate, FreeCache, TypeOK
  <2>2. TypeOK'
    BY <2>1, IdleTypes, EmptyCacheType DEF TypeOK, bounds
  <2>3. fl.by # App /\ (nor.by # Nobody => Flushing(nor.by))
    BY <2>1
  <2>4. CASE app' = app
    BY <2>1, <2>2, <2>4
  <2>5. CASE app' = NoRequest
    BY <2>1, <2>2, <2>3, <2>5, IdleTypes
  <2> QED  BY <2>1, <2>4, <2>5
<1>9. ASSUME NEW t \in {App, Idle}, FlushLock(t) PROVE TypeInv'
  BY <1>9, IdleTypes DEF FlushLock, TypeOK, cacheVars, bounds, NoFlush
<1>10. CASE FlushCheck
  <2>1. fl.i \in Entries
    BY <1>10, NorCacheAssumption DEF FlushCheck, TypeOK, Entries
  <2>2. fl' \in FlushState /\ fl'.i = fl.i
    BY <1>10, <2>1 DEF FlushCheck, TypeOK, FlushState
  <2> QED  BY <1>10, <2>1, <2>2 DEF FlushCheck, TypeOK, cacheVars, bounds
<1>11. CASE FlushClear
  <2>1. fl.i \in Entries
    BY <1>11 DEF FlushClear
  <2>2. fl.i + 1 \in 0 .. NumPages
    BY <2>1, NorCacheAssumption DEF Entries
  <2>3. fl' \in FlushState /\ fl'.pc = "check"
    BY <1>11, <2>2 DEF FlushClear, TypeOK, FlushState
  <2> QED  BY <1>11, <2>1, <2>3 DEF FlushClear, TypeOK, bounds
<1>12. CASE FlushEnd
  BY <1>12, IdleTypes
     DEF FlushEnd, FlushUnlock, TypeOK, cacheVars, bounds, NoFlush
<1>13. ASSUME NEW t \in {App, Idle}, NorErase(t) PROVE TypeInv'
  <2>1. \A p : SectorsOf(p) \in SUBSET Sectors
    BY PageArithmetic
  <2>2. fl.pc = "write" => fl.i \in Entries
    OBVIOUS
  <2> QED
    BY <1>13, <2>1, <2>2, IdleTypes
       DEF NorErase, TypeOK, cacheVars, bounds
<1>14. CASE NorProgram
  <2>1. PICK s \in nor.todo :
             /\ disk' = [disk EXCEPT ![s] = buf[nor.ent][OffsetOf(s)]]
             /\ nor' = [nor EXCEPT !.todo = @ \ {s}]
    BY <1>14 DEF NorProgram
  <2>2. buf[nor.ent][OffsetOf(s)] \in Cell
    BY PageArithmetic DEF TypeOK, NorState
  <2> QED  BY <1>14, <2>1, <2>2 DEF NorProgram, TypeOK, cacheVars, bounds
<1>15. ASSUME NEW t \in {App, Idle, Nobody}, NEW ok \in BOOLEAN, NorReturn(t, ok),
              Evicting(t) \/ fl.pc = "write",
              nor' = NoWrite, UNCHANGED <<cacheVars, disk, life, latest, writes, crashes>>,
              faults' \in 0 .. MaxFaults
       PROVE  TypeInv'
  <2>0. /\ tag' = tag /\ dirty' = dirty /\ buf' = buf /\ rank' = rank /\ disk' = disk
        /\ life' = life /\ latest' = latest /\ writes' = writes /\ crashes' = crashes
        /\ nor' = NoWrite
    BY <1>15 DEF cacheVars
  <2>1. CASE Evicting(t)
    <3>1. app' = NoRequest \/ app' = [app EXCEPT !.pc = "clean"]
      BY <1>15, <2>1 DEF NorReturn
    <3>2. /\ app' \in AppState /\ app'.sector + app'.left <= NumSectors
          /\ app'.pc \in {"loop", "evict", "clean", "fill"} => app'.left > 0
      BY <2>1, <3>1, IdleTypes DEF TypeOK, NoRequest
    <3>3. fl' = fl /\ fl.by # App
      BY <1>15, <2>1 DEF NorReturn
    <3>4. TypeOK'
      BY <1>15, <2>0, <3>2, <3>3, IdleTypes DEF TypeOK
    <3> QED  BY <2>0, <3>2, <3>3, <3>4, IdleTypes
  <2>2. CASE ~Evicting(t) /\ fl.pc = "write"
    <3>1. \/ fl' = [fl EXCEPT !.pc = "clear"] /\ app' = app
          \/ /\ fl' = NoFlush
             /\ app' = app \/ app' = [app EXCEPT !.pc = "after"]
      BY <1>15, <2>2 DEF NorReturn, FlushUnlock
    <3>2. CASE app' = app
      <4>1. /\ app' \in AppState /\ app'.sector + app'.left <= NumSectors
            /\ app'.pc \in {"loop", "evict", "clean", "fill"} => app'.left > 0
        BY ONLY <3>2, TypeInv DEF TypeInv, TypeOK
      <4>2. /\ fl' \in FlushState /\ (fl'.pc # "check" => fl'.i \in Entries)
            /\ fl'.by = App => app'.pc = "flush"
        BY <2>2, <3>1, <3>2, IdleTypes DEF TypeOK
      <4>3. TypeOK'
        BY ONLY TypeInv, <1>15, <2>0, <4>1, <4>2, IdleTypes DEF TypeInv, TypeOK
      <4> QED  BY <2>0, <4>1, <4>2, <4>3, IdleTypes
    <3>3. CASE fl' = NoFlush /\ app' = [app EXCEPT !.pc = "after"]
      <4>1. /\ app' \in AppState /\ app'.pc = "after"
            /\ app'.sector = app.sector /\ app'.left = app.left
        BY ONLY <3>3, TypeInv DEF TypeInv, TypeOK, AppState
      <4>2. /\ fl' \in FlushState /\ fl'.pc = "check" /\ fl'.by = Nobody
        BY <3>3, IdleTypes
      <4>3. TypeOK'
        BY ONLY TypeInv, <1>15, <2>0, <4>1, <4>2, IdleTypes DEF TypeInv, TypeOK
      <4> QED  BY <2>0, <4>1, <4>2, <4>3, IdleTypes
    <3> QED  BY <3>1, <3>2, <3>3
  <2> QED  BY <1>15, <2>1, <2>2
<1>16. CASE NorDone
  <2>1. nor.by \in {App, Idle, Nobody} /\ faults \in 0 .. MaxFaults
    BY DEF TypeOK
  <2> QED  BY <1>15, <1>16, <2>1 DEF NorDone, bounds
<1>17. ASSUME NEW t \in {App, Idle}, NorFails(t) PROVE TypeInv'
  <2>1. faults' \in 0 .. MaxFaults
    BY <1>17, NorCacheAssumption DEF NorFails, TypeOK
  <2> QED  BY <1>15, <1>17, <2>1 DEF NorFails
<1>18. ASSUME NEW k \in Offsets, FillFails(k) PROVE TypeInv'
  <2>1. faults' \in 0 .. MaxFaults
    BY <1>18, NorCacheAssumption DEF FillFails, TypeOK
  <2>2. buf' \in [Entries -> [Offsets -> Cell]]
    BY <1>18, PageDataType DEF FillFails, TypeOK
  <2> QED  BY <1>18, <2>1, <2>2, IdleTypes DEF FillFails, TypeOK, NoRequest
<1>19. CASE PowerLoss
  BY <1>19, IdleTypes, EmptyCacheType, NorCacheAssumption
     DEF PowerLoss, TypeOK, NoRequest, NoFlush
<1>20. CASE UNCHANGED vars
  BY <1>20 DEF vars, TypeOK
<1> QED
  BY <1>1, <1>2, <1>3, <1>4, <1>5, <1>6, <1>7, <1>8, <1>9, <1>10, <1>11, <1>12,
     <1>13, <1>14, <1>16, <1>17, <1>18, <1>19, <1>20
     DEF Next, AppStep, FlushStep, NorStep, Fault

\* In every reachable state, with any constants, every variable has its type.
THEOREM TypeCorrect == Spec => []TypeOK
<1>1. TypeInv => TypeOK
  BY DEF TypeInv
<1> QED  BY <1>1, InitType, NextType, PTL DEF Spec
-----------------------------------------------------------------------------
(***************************************************************************)
(* One thread at a time: the idle flusher is configured out, page reads do *)
(* not fail, and the file system stays clear of the last sector.  Each of  *)
(* the three is needed: a run finds a counterexample without it.           *)
(***************************************************************************)

Sequential ==
  /\ IdleFlush = FALSE
  /\ ReadFaults = FALSE
  /\ \A s \in AppSectors : s < endOfPartition

\* Pages not in the cache, and clean pages, are on the flash; cached data is
\* the latest.
DataInv ==
  /\ NoAlias
  /\ \A e \in Entries : dirty[e] => tag[e] # CACHE_FREE
  /\ \A e \in Entries, s \in Sectors :
       Covers(e, s) => buf[e][OffsetOf(s)] = latest[s]
  /\ OnlyDirtyPagesAreAtRisk

\* The page of entry e, but for the sectors in S, is on the flash.
OnFlash(e, S) ==
  \A s \in Sectors : Covers(e, s) /\ s \notin S => disk[s] = latest[s]

\* What App's local variables say of the cache while it is in getPage.
AppInv ==
  /\ app.pc \in {"loop", "evict", "clean", "fill"} =>
       /\ life = "up"
       /\ app.left > 0
       /\ app.sector + app.left <= endOfPartition
  /\ app.pc \in {"evict", "clean", "fill"} => ~Hit(app.sector)
  /\ app.pc = "evict" => dirty[app.ent]
  /\ app.pc = "clean" => OnFlash(app.ent, {})
  /\ app.pc = "fill" => ~dirty[app.ent]
  /\ app.pc = "flush" => life = "up"
  /\ app.pc = "after" => life = "up" \/ (life = "freed" /\ app.op = "release")

\* The flush belongs to App; the entries before i are clean.
FlushInv ==
  /\ fl.by \in {Nobody, App}
  /\ fl.by = Nobody => fl = NoFlush
  /\ fl.by = App =>
       /\ app.pc = "flush"
       /\ \A e \in Entries : e < fl.i => ~dirty[e]
       /\ fl.pc # "check" => fl.i \in Entries
       /\ fl.pc = "write" => dirty[fl.i] /\ fl.page = tag[fl.i]
       /\ fl.pc = "clear" => OnFlash(fl.i, {})

\* The NorWrite in progress writes a dirty page; what it has programmed is
\* the latest.
NorInv ==
  /\ nor.by \in {Nobody, App}
  /\ nor.by = App =>
       /\ \/ app.pc = "evict" /\ nor.ent = app.ent
          \/ fl.by = App /\ fl.pc = "write" /\ nor.ent = fl.i
       /\ nor.todo \subseteq SectorsOf(tag[nor.ent])
       /\ OnFlash(nor.ent, nor.todo)

\* Without a mounted cache there are no pages.
DownInv == life # "up" => \A e \in Entries : tag[e] = CACHE_FREE

IInv == TypeInv /\ DataInv /\ AppInv /\ FlushInv /\ NorInv /\ DownInv
-----------------------------------------------------------------------------

\* Every state begins with a clean, empty, unmounted cache.
LEMMA InitIInv == Init => IInv
<1> SUFFICES ASSUME Init PROVE IInv
  OBVIOUS
<1>1. TypeInv
  BY InitType
<1>2. \A e \in Entries : tag[e] = CACHE_FREE /\ ~dirty[e]
  BY DEF Init
<1>3. disk = latest /\ life = "down" /\ app.pc = "idle" /\ fl = NoFlush /\ nor = NoWrite
  BY DEF Init, NoRequest
<1>4. DataInv
  BY <1>2, <1>3 DEF DataInv, NoAlias, OnlyDirtyPagesAreAtRisk, Covers
<1> QED
  BY <1>1, <1>2, <1>3, <1>4, IdleTypes DEF IInv, AppInv, FlushInv, NorInv, DownInv

\* What a step that touches neither the cache nor the flash preserves.
LEMMA DataUnchanged ==
  ASSUME DataInv, UNCHANGED <<tag, dirty, buf, disk, latest>>
  PROVE  /\ DataInv'
         /\ \A s : Hit(s)' = Hit(s)
         /\ \A e, S : OnFlash(e, S)' = OnFlash(e, S)
BY DEF DataInv, NoAlias, OnlyDirtyPagesAreAtRisk, OnFlash, Hit, Covers

\* An empty cache over a flash whose content is the latest.
LEMMA EmptyData ==
  ASSUME EmptyCache, \A s \in Partition : disk'[s] = latest'[s]
  PROVE  DataInv' /\ \A e \in Entries : tag'[e] = CACHE_FREE
<1>1. \A e \in Entries : tag'[e] = CACHE_FREE /\ ~dirty'[e]
  BY DEF EmptyCache
<1> QED  BY <1>1 DEF DataInv, NoAlias, OnlyDirtyPagesAreAtRisk, Covers

\* A page that is cached and clean is on the flash.
LEMMA CleanPage ==
  ASSUME DataInv, NEW e \in Entries, ~dirty[e]
  PROVE  OnFlash(e, {})
BY DEF DataInv, OnFlash, NoAlias, OnlyDirtyPagesAreAtRisk, Covers, SectorsOf

\* Cleaning an entry whose page is on the flash puts no sector at risk.
LEMMA CleanEntry ==
  ASSUME TypeOK, DataInv, NEW e \in Entries, OnFlash(e, {}),
         dirty' = [dirty EXCEPT ![e] = FALSE],
         UNCHANGED <<tag, buf, disk, latest>>
  PROVE  DataInv'
<1>1. \A x \in Entries : dirty'[x] = (dirty[x] /\ x # e)
  BY DEF TypeOK
<1> QED
  BY <1>1, PageArithmetic DEF DataInv, OnFlash, NoAlias, OnlyDirtyPagesAreAtRisk, Covers

\* After a copy into entry e the entries hold the latest data, and what is newer
\* than before is in e, which is dirty.
Copied(e) ==
  /\ \A x \in Entries : dirty'[x] => tag'[x] # CACHE_FREE
  /\ \A x \in Entries : dirty[x] => dirty'[x]
  /\ \A x \in Entries, s \in Sectors : Covers(x, s)' => buf'[x][OffsetOf(s)] = latest'[s]
  /\ \A s \in Sectors : latest'[s] # latest[s] => Covers(e, s)' /\ dirty'[e]

\* So does a copy into an entry that holds, or has just been given, the page of
\* the request's next sector.
LEMMA CopyPages ==
  ASSUME TypeInv, app.sector \in Sectors,
         NEW e \in Entries, NEW b \in [Offsets -> Cell], Copy(e, b),
         tag'[e] = PageOf(app.sector),
         NoAlias',
         \A x \in Entries : dirty[x] => tag'[x] # CACHE_FREE,
         \A x \in Entries, s \in Sectors :
            x # e /\ Covers(x, s)' => buf[x][OffsetOf(s)] = latest[s],
         \A s \in SectorsOf(tag'[e]) : b[OffsetOf(s)] = latest[s]
  PROVE  Copied(e)
<1> DEFINE p == PageOf(app.sector)
<1>1. p \in Pages /\ p # CACHE_FREE
  BY PageArithmetic
<1>2. \A r, s \in SectorsOf(p) : OffsetOf(r) = OffsetOf(s) => r = s
  BY PageArithmetic DEF SectorsOf
<1>3. Chunk \subseteq SectorsOf(p) /\ SectorsOf(p) \subseteq Sectors
  BY PageArithmetic DEF Chunk
<1>4. \A x \in Entries, s \in Sectors :
        Covers(x, s)' <=> tag'[x] # CACHE_FREE /\ s \in SectorsOf(tag'[x])
  BY DEF Covers
<1>5. \A x \in Entries, s \in SectorsOf(p) : Covers(x, s)' => x = e
  BY <1>1, <1>4, PageArithmetic DEF NoAlias, SectorsOf
<1>6. \A s \in Sectors : Covers(e, s)' <=> s \in SectorsOf(p)
  BY <1>1, <1>4
<1>7. CASE app.op = "write"
  <2>1. /\ \A x \in Entries : x # e => buf'[x] = buf[x] /\ dirty'[x] = dirty[x]
        /\ dirty'[e] = TRUE
        /\ \A s \in Sectors : latest'[s] = IF s \in Chunk THEN app.data ELSE latest[s]
        /\ \A o \in Offsets :
             buf'[e][o] = IF \E s \in Chunk : OffsetOf(s) = o THEN app.data ELSE b[o]
    BY <1>7 DEF Copy, TypeInv, TypeOK
  <2>2. \A s \in SectorsOf(p) : buf'[e][OffsetOf(s)] = latest'[s]
    <3>1. \A s \in SectorsOf(p) : OffsetOf(s) \in Offsets /\ s \in Sectors
      BY <1>3, PageArithmetic
    <3>2. \A s \in SectorsOf(p) : (\E r \in Chunk : OffsetOf(r) = OffsetOf(s)) <=> s \in Chunk
      BY <1>2, <1>3
    <3> QED  BY <2>1, <3>1, <3>2
  <2>3. \A x \in Entries, s \in Sectors : Covers(x, s)' => buf'[x][OffsetOf(s)] = latest'[s]
    BY <1>3, <1>5, <1>6, <2>1, <2>2
  <2>4. \A s \in Sectors : latest'[s] # latest[s] => Covers(e, s)' /\ dirty'[e]
    BY <1>3, <1>6, <2>1
  <2>5. \A x \in Entries : (dirty'[x] => tag'[x] # CACHE_FREE) /\ (dirty[x] => dirty'[x])
    BY <1>1, <2>1
  <2> QED  BY <2>3, <2>4, <2>5 DEF Copied
<1>8. CASE app.op # "write"
  <2>1. /\ buf' = [buf EXCEPT ![e] = b]
        /\ UNCHANGED <<dirty, latest>>
    BY <1>8 DEF Copy
  <2>2. buf'[e] = b /\ \A x \in Entries : x # e => buf'[x] = buf[x]
    BY <2>1 DEF TypeInv, TypeOK
  <2>3. \A x \in Entries, s \in Sectors : Covers(x, s)' => buf'[x][OffsetOf(s)] = latest'[s]
    BY <1>6, <2>1, <2>2
  <2> QED  BY <2>1, <2>3 DEF Copied
<1> QED  BY <1>7, <1>8

\* Such a copy keeps what is not on the flash in a dirty page.
LEMMA CopyData ==
  ASSUME TypeInv, app.sector \in Sectors,
         NEW e \in Entries, NEW b \in [Offsets -> Cell], Copy(e, b),
         tag'[e] = PageOf(app.sector),
         NoAlias',
         \A x \in Entries : dirty[x] => tag'[x] # CACHE_FREE,
         \A x \in Entries, s \in Sectors :
            x # e /\ Covers(x, s)' => buf[x][OffsetOf(s)] = latest[s],
         \A s \in SectorsOf(tag'[e]) : b[OffsetOf(s)] = latest[s],
         \A s \in Partition : disk[s] # latest[s] =>
            \E x \in Entries : Covers(x, s)' /\ dirty[x],
         disk' = disk
  PROVE  DataInv'
<1>1. Copied(e)
  BY CopyPages
<1> QED  BY <1>1, PageArithmetic DEF Copied, DataInv, OnlyDirtyPagesAreAtRisk

\* A copy leaves App between chunks or idle, with the request no longer than
\* it was.
LEMMA CopyApp ==
  ASSUME IInv, TypeInv', app.pc \in {"loop", "fill"}, NEW e, NEW b, Copy(e, b),
         UNCHANGED <<fl, nor, life>>
  PROVE  AppInv' /\ FlushInv' /\ NorInv' /\ DownInv'
<1> DEFINE done == Cardinality(Chunk)
<1>1. /\ app.sector \in Sectors \union {NumSectors} /\ app.left \in Nat
      /\ NumSectors \in Nat /\ endOfPartition \in Int
      /\ life = "up" /\ app.sector + app.left <= endOfPartition
  BY NorCacheAssumption DEF IInv, TypeInv, TypeOK, AppInv, endOfPartition
<1>2. done \in Nat
  BY <1>1, ChunkSize
<1>3. app'.pc \in {"loop", "idle"} /\ (app'.pc = "loop" => app'.sector + app'.left <= endOfPartition)
  <2> HIDE DEF done
  <2>1. app' = IF app.left = done THEN NoRequest
               ELSE [app EXCEPT !.pc = "loop", !.sector = @ + done, !.left = @ - done]
    BY DEF Copy, done
  <2>2. CASE app.left = done
    BY <2>1, <2>2, IdleTypes
  <2>3. CASE app.left # done
    <3>1. app'.pc = "loop" /\ app'.sector = app.sector + done /\ app'.left = app.left - done
      BY <2>1, <2>3 DEF IInv, TypeInv, TypeOK
    <3>2. app'.sector + app'.left = app.sector + app.left
      BY <3>1, <1>1, <1>2 DEF Sectors
    <3> QED  BY <1>1, <3>1, <3>2
  <2> QED  BY <2>2, <2>3
<1>4. AppInv'
  BY <1>1, <1>3 DEF AppInv, TypeInv
<1>5. fl.by = Nobody /\ nor.by = Nobody
  BY DEF IInv, FlushInv, NorInv
<1> QED  BY <1>1, <1>4, <1>5 DEF IInv, FlushInv, NorInv, DownInv

\* The data of a page that is not cached is on the flash.
LEMMA UncachedPage ==
  ASSUME NEW t \in Sectors, t < endOfPartition, ~Hit(t),
         \A s \in Partition : disk[s] # latest[s] => Hit(s)
  PROVE  /\ \A s \in SectorsOf(PageOf(t)) : disk[s] = latest[s]
         /\ \A e \in Entries : tag[e] # PageOf(t)
<1>1. t \in SectorsOf(PageOf(t)) /\ PageOf(t) # CACHE_FREE
  BY PageArithmetic DEF SectorsOf, Partition
<1>2. \A e \in Entries : tag[e] # PageOf(t)
  BY <1>1 DEF Hit, Covers
<1>3. \A s \in SectorsOf(PageOf(t)) : s \in Partition /\ PageOf(s) = PageOf(t)
  BY DEF SectorsOf
<1>4. \A e \in Entries, s \in SectorsOf(PageOf(t)) : ~Covers(e, s)
  BY <1>2, <1>3 DEF Covers, SectorsOf
<1> QED  BY <1>2, <1>3, <1>4 DEF Hit

\* A request served from the cache preserves the invariant.
LEMMA CacheHitStep ==
  ASSUME Sequential, IInv, TypeInv', CacheHit
  PROVE  IInv'
<1> DEFINE e == FirstHit(app.sector)
<1>1. e \in Entries /\ Covers(e, app.sector) /\ Copy(e, buf[e])
  BY FirstEntry DEF CacheHit
<1>2. app.sector \in Sectors /\ tag[e] = PageOf(app.sector) /\ buf[e] \in [Offsets -> Cell]
  BY <1>1, PageArithmetic DEF Covers, SectorsOf, IInv, TypeInv, TypeOK
<1>3. UNCHANGED <<tag, disk, nor, fl, life>> /\ app.pc = "loop"
  BY DEF CacheHit
<1> HIDE DEF e
<1>4. \A x, s : Covers(x, s)' = Covers(x, s)
  BY <1>3 DEF Covers
<1>5. \A s \in SectorsOf(tag[e]) : s \in Sectors /\ Covers(e, s)
  BY <1>1, PageArithmetic DEF Covers
<1>6. DataInv'
  <2>1. NoAlias' /\ \A x \in Entries : dirty[x] => tag'[x] # CACHE_FREE
    BY <1>3 DEF IInv, DataInv, NoAlias
  <2>2. /\ \A x \in Entries, s \in Sectors :
             x # e /\ Covers(x, s)' => buf[x][OffsetOf(s)] = latest[s]
        /\ \A s \in SectorsOf(tag'[e]) : buf[e][OffsetOf(s)] = latest[s]
    BY <1>1, <1>3, <1>4, <1>5 DEF IInv, DataInv
  <2>3. \A s \in Partition : disk[s] # latest[s] =>
            \E x \in Entries : Covers(x, s)' /\ dirty[x]
    BY <1>4 DEF IInv, DataInv, OnlyDirtyPagesAreAtRisk
  <2> QED  BY <1>1, <1>2, <1>3, <2>1, <2>2, <2>3, CopyData DEF IInv
<1> QED  BY <1>1, <1>3, <1>6, CopyApp DEF IInv

\* Reading a page into the clean entry that was chosen preserves the invariant.
LEMMA FillStep ==
  ASSUME Sequential, IInv, TypeInv', Fill
  PROVE  IInv'
<1> DEFINE v == app.ent
           p == PageOf(app.sector)
           b == [o \in Offsets |->
                   IF \E s \in SectorsOf(p) : OffsetOf(s) = o
                   THEN disk[CHOOSE s \in SectorsOf(p) : OffsetOf(s) = o]
                   ELSE buf[v][o]]
<1>1. v \in Entries /\ app.sector \in Sectors /\ app.sector < endOfPartition
  BY NorCacheAssumption
     DEF IInv, AppInv, TypeInv, TypeOK, Fill, Sectors, endOfPartition
<1>2. /\ app.pc = "fill" /\ ~Hit(app.sector) /\ ~dirty[v]
      /\ tag' = [tag EXCEPT ![v] = p] /\ Copy(v, b)
      /\ UNCHANGED <<disk, nor, fl, life>>
  BY DEF Fill, IInv, AppInv
<1>3. b \in [Offsets -> Cell]
  BY <1>1, PageDataType DEF IInv, TypeInv
<1>4. /\ \A s \in SectorsOf(p) : disk[s] = latest[s]
      /\ \A x \in Entries : tag[x] # p
  <2>1. \A s \in Partition : disk[s] # latest[s] => Hit(s)
    BY DEF IInv, DataInv, OnlyDirtyPagesAreAtRisk, Hit
  <2> QED  BY <1>1, <1>2, <2>1, UncachedPage
<1>5. \A s \in SectorsOf(p) : b[OffsetOf(s)] = latest[s]
  <2>1. ASSUME NEW s \in SectorsOf(p) PROVE b[OffsetOf(s)] = disk[s]
    BY SectorAt
  <2> HIDE DEF b
  <2> QED  BY <1>4, <2>1
<1>6. /\ tag'[v] = p /\ p # CACHE_FREE
      /\ \A x \in Entries : x # v => tag'[x] = tag[x]
  BY <1>1, <1>2, PageArithmetic DEF IInv, TypeInv, TypeOK
<1> HIDE DEF v, b
<1>7. \A s : \A x \in Entries : x # v => Covers(x, s)' = Covers(x, s)
  BY <1>6 DEF Covers
<1>8. DataInv'
  <2>1. NoAlias'
    BY <1>4, <1>6 DEF IInv, DataInv, NoAlias
  <2>2. \A x \in Entries : dirty[x] => tag'[x] # CACHE_FREE
    BY <1>6 DEF IInv, DataInv
  <2>3. \A x \in Entries, s \in Sectors :
          x # v /\ Covers(x, s)' => buf[x][OffsetOf(s)] = latest[s]
    BY <1>7 DEF IInv, DataInv
  <2>4. \A s \in Partition : disk[s] # latest[s] =>
            \E x \in Entries : Covers(x, s)' /\ dirty[x]
    BY <1>2, <1>7 DEF IInv, DataInv, OnlyDirtyPagesAreAtRisk
  <2> HIDE DEF p
  <2>5. \A s \in SectorsOf(tag'[v]) : b[OffsetOf(s)] = latest[s]
    BY <1>5, <1>6
  <2>6. tag'[v] = PageOf(app.sector)
    BY <1>6 DEF p
  <2> QED  BY <1>1, <1>2, <1>3, <1>6, <2>1, <2>2, <2>3, <2>4, <2>5, <2>6, CopyData DEF IInv
<1> QED  BY <1>2, <1>8, CopyApp DEF IInv

\* The driver erases the block of the dirty page it was called for.
LEMMA NorEraseStep ==
  ASSUME Sequential, IInv, TypeInv', NEW t \in {App, Idle}, NorErase(t)
  PROVE  IInv'
<1>1. PICK e \in Entries :
      /\ t = App /\ dirty[e]
      /\ e = IF Evicting(t) THEN app.ent ELSE fl.i
      /\ \/ app.pc = "evict" /\ e = app.ent /\ fl.by = Nobody
         \/ app.pc = "flush" /\ fl.by = App /\ fl.pc = "write" /\ e = fl.i
  BY DEF NorErase, IInv, AppInv, FlushInv, TypeInv, TypeOK
<1>2. /\ nor' = [by |-> App, ent |-> e, todo |-> SectorsOf(tag[e])]
      /\ disk' = [s \in Sectors |-> IF s \in BlockOf(tag[e]) THEN Torn ELSE disk[s]]
      /\ UNCHANGED <<tag, dirty, buf, app, fl, life, latest>>
  BY <1>1 DEF NorErase, IInv, FlushInv, cacheVars
<1>3. \A x, s : Covers(x, s)' = Covers(x, s)
  BY <1>2 DEF Covers
<1>4. tag[e] # CACHE_FREE /\ \A s \in SectorsOf(tag[e]) : Covers(e, s)
  BY <1>1 DEF IInv, DataInv, Covers
<1>e. \A s \in Partition : disk'[s] = IF s \in SectorsOf(tag[e]) THEN Torn ELSE disk[s]
  BY <1>2, EraseInPartition
<1>5. DataInv'
  <2>1. NoAlias'
    BY <1>2 DEF IInv, DataInv, NoAlias
  <2>2. OnlyDirtyPagesAreAtRisk'
    BY <1>1, <1>2, <1>3, <1>4, <1>e DEF IInv, DataInv, OnlyDirtyPagesAreAtRisk
  <2> QED  BY <1>2, <1>3, <2>1, <2>2 DEF IInv, DataInv
<1>6. NorInv'
  <2>1. OnFlash(e, SectorsOf(tag[e]))'
    BY <1>2, <1>3 DEF OnFlash, Covers
  <2> QED  BY <1>1, <1>2, <2>1 DEF NorInv
<1>7. AppInv' /\ FlushInv' /\ DownInv'
  <2>1. \A s : Hit(s)' = Hit(s)
    BY <1>3 DEF Hit
  <2> QED  BY <1>1, <1>2, <2>1 DEF IInv, AppInv, FlushInv, DownInv
<1> QED  BY <1>5, <1>6, <1>7 DEF IInv

\* A programmed sector is the latest.
LEMMA NorProgramStep ==
  ASSUME Sequential, IInv, TypeInv', NorProgram
  PROVE  IInv'
<1>1. PICK e \in Entries :
      /\ nor.by = App /\ nor.ent = e /\ dirty[e]
      /\ \/ app.pc = "evict" /\ e = app.ent /\ fl.by = Nobody
         \/ app.pc = "flush" /\ fl.by = App /\ fl.pc = "write" /\ e = fl.i
      /\ nor.todo \subseteq SectorsOf(tag[e]) /\ OnFlash(e, nor.todo)
  BY DEF NorProgram, IInv, AppInv, FlushInv, NorInv, TypeInv, TypeOK
<1>2. PICK s \in nor.todo :
        /\ disk' = [disk EXCEPT ![s] = buf[e][OffsetOf(s)]]
        /\ nor' = [nor EXCEPT !.todo = @ \ {s}]
  BY <1>1 DEF NorProgram
<1>3. UNCHANGED <<tag, dirty, buf, app, fl, life, latest>>
  BY DEF NorProgram, cacheVars
<1>4. nor'.by = App /\ nor'.ent = e /\ nor'.todo = nor.todo \ {s}
  BY <1>1, <1>2 DEF IInv, TypeInv, TypeOK
<1>5. s \in Sectors /\ Covers(e, s)
  BY <1>1, PageArithmetic DEF IInv, DataInv, Covers
<1>6. disk'[s] = latest'[s] /\ \A r \in Sectors : r # s => disk'[r] = disk[r]
  BY <1>1, <1>2, <1>3, <1>5 DEF IInv, TypeInv, TypeOK, DataInv
<1>7. \A x, r : Covers(x, r)' = Covers(x, r)
  BY <1>3 DEF Covers
<1>8. DataInv'
  BY <1>3, <1>6, <1>7, PageArithmetic DEF IInv, DataInv, NoAlias, OnlyDirtyPagesAreAtRisk
<1>9. NorInv'
  <2>1. \A r \in Sectors :
          Covers(e, r)' /\ r \notin nor'.todo => disk'[r] = latest'[r]
    BY <1>1, <1>3, <1>4, <1>6, <1>7 DEF OnFlash
  <2> QED  BY <1>1, <1>3, <1>4, <2>1 DEF NorInv, OnFlash
<1>10. AppInv' /\ FlushInv' /\ DownInv'
  <2>1. \A r : Hit(r)' = Hit(r)
    BY <1>7 DEF Hit
  <2> QED  BY <1>1, <1>3, <2>1 DEF IInv, AppInv, FlushInv, DownInv
<1> QED  BY <1>8, <1>9, <1>10 DEF IInv

\* A write-back that returns: on success the page is on the flash; on failure
\* it is still cached and dirty.
LEMMA NorReturnStep ==
  ASSUME Sequential, IInv, TypeInv', NEW ok \in BOOLEAN,
         Evicting(App) \/ Flushing(App), NorReturn(App, ok),
         IF ok THEN nor.by = App /\ nor.todo = {} ELSE TRUE,
         nor' = NoWrite,
         UNCHANGED <<tag, dirty, buf, disk, life, latest>>
  PROVE  IInv'
<1>1. /\ DataInv' /\ \A s : Hit(s)' = Hit(s)
      /\ \A e, S : OnFlash(e, S)' = OnFlash(e, S)
  BY DataUnchanged DEF IInv
<1>2. NorInv' /\ DownInv'
  BY IdleTypes DEF NorInv, DownInv, IInv
<1>3. CASE Evicting(App)
  <2>1. fl.by = Nobody /\ UNCHANGED fl /\ app.pc = "evict"
    BY <1>3 DEF NorReturn, IInv, FlushInv
  <2>2. CASE ok
    <3>1. PICK e \in Entries : app.ent = e /\ OnFlash(e, {})
      BY <2>1, <2>2 DEF IInv, NorInv, TypeInv, TypeOK
    <3>2. app' = [app EXCEPT !.pc = "clean"]
      BY <1>3, <2>2 DEF NorReturn
    <3>3. /\ app'.pc = "clean" /\ app'.ent = e /\ app'.sector = app.sector
          /\ app'.left = app.left
      BY <3>1, <3>2 DEF IInv, TypeInv, TypeOK
    <3>4. \A s \in Sectors : Covers(e, s)' => disk'[s] = latest'[s]
      BY <3>1 DEF OnFlash, Covers
    <3>5. AppInv'
      BY <1>1, <2>1, <3>3, <3>4 DEF IInv, AppInv, OnFlash
    <3> QED  BY <1>1, <1>2, <2>1, <3>5 DEF IInv, FlushInv
  <2>3. CASE ~ok
    <3>1. app'.pc = "idle"
      BY <1>3, <2>3, IdleTypes DEF NorReturn
    <3> QED  BY <1>1, <1>2, <2>1, <3>1 DEF IInv, AppInv, FlushInv
  <2> QED  BY <2>2, <2>3
<1>4. CASE ~Evicting(App)
  <2>1. fl.by = App /\ fl.pc = "write" /\ app.pc = "flush" /\ life = "up" /\ fl.i \in Entries
    BY <1>4 DEF IInv, FlushInv, AppInv
  <2>2. CASE ok
    <3>1. PICK e \in Entries : fl.i = e /\ OnFlash(e, {})
      BY <2>1, <2>2 DEF IInv, NorInv
    <3>2. fl' = [fl EXCEPT !.pc = "clear"] /\ UNCHANGED app
      BY <1>4, <2>2 DEF NorReturn
    <3>3. fl'.by = App /\ fl'.pc = "clear" /\ fl'.i = e
      BY <2>1, <3>1, <3>2 DEF IInv, TypeInv, TypeOK
    <3>4. \A s \in Sectors : Covers(e, s)' => disk'[s] = latest'[s]
      BY <3>1 DEF OnFlash, Covers
    <3>5. FlushInv'
      BY <1>1, <2>1, <3>2, <3>3, <3>4 DEF IInv, FlushInv, OnFlash
    <3>6. AppInv'
      BY <2>1, <3>2 DEF AppInv
    <3> QED  BY <1>1, <1>2, <3>5, <3>6 DEF IInv
  <2>3. CASE ~ok
    <3>1. fl' = NoFlush /\ app' = [app EXCEPT !.pc = "after"]
      BY <1>4, <2>1, <2>3 DEF NorReturn, FlushUnlock
    <3>2. app'.pc = "after"
      BY <3>1 DEF IInv, TypeInv, TypeOK
    <3> QED  BY <1>1, <1>2, <2>1, <3>1, <3>2, IdleTypes DEF IInv, AppInv, FlushInv
  <2> QED  BY <2>2, <2>3
<1> QED  BY <1>3, <1>4

\* Looking at the next entry of a flush preserves the invariant: an entry that
\* is not dirty has its page on the flash.
LEMMA FlushCheckStep ==
  ASSUME Sequential, IInv, TypeInv', FlushCheck
  PROVE  IInv'
<1>1. PICK i \in Entries : fl.i = i
  BY NorCacheAssumption DEF FlushCheck, IInv, TypeInv, TypeOK, Entries
<1>2. fl.by = App /\ app.pc = "flush" /\ nor.by = Nobody /\ life = "up"
  BY DEF FlushCheck, IInv, FlushInv, NorInv
<1>3. UNCHANGED <<tag, dirty, buf, disk, nor, app, life, latest>>
  BY DEF FlushCheck, cacheVars
<1>4. DataInv' /\ \A s : Hit(s)' = Hit(s)
  BY <1>3, DataUnchanged DEF IInv
<1>5. FlushInv'
  <2>1. CASE dirty[i]
    <3>1. fl'.pc = "write" /\ fl'.i = i /\ fl'.by = App /\ fl'.page = tag[i]
      BY <1>1, <1>2, <2>1 DEF FlushCheck, IInv, TypeInv, TypeOK
    <3> QED  BY <1>1, <1>2, <1>3, <2>1, <3>1 DEF IInv, FlushInv
  <2>2. CASE ~dirty[i]
    <3>1. fl'.pc = "clear" /\ fl'.i = i /\ fl'.by = App
      BY <1>1, <1>2, <2>2 DEF FlushCheck, IInv, TypeInv, TypeOK
    <3>2. \A s \in Sectors : Covers(i, s)' => disk'[s] = latest'[s]
      BY <1>3, <2>2, CleanPage DEF IInv, OnFlash, Covers
    <3> QED  BY <1>1, <1>2, <1>3, <3>1, <3>2 DEF IInv, FlushInv, OnFlash
  <2> QED  BY <2>1, <2>2
<1> QED  BY <1>2, <1>3, <1>4, <1>5 DEF IInv, AppInv, NorInv, DownInv

\* Clearing the dirty flag of a page that was written preserves the invariant.
LEMMA FlushClearStep ==
  ASSUME Sequential, IInv, TypeInv', FlushClear
  PROVE  IInv'
<1>1. PICK i \in Entries : fl.i = i
  BY DEF FlushClear, IInv, TypeInv
<1>2. fl.by = App /\ fl.pc = "clear" /\ app.pc = "flush" /\ nor.by = Nobody /\ life = "up"
  BY IdleTypes DEF FlushClear, IInv, FlushInv, NorInv
<1>3. UNCHANGED <<tag, buf, disk, nor, app, life, latest>> /\ dirty' = [dirty EXCEPT ![i] = FALSE]
  BY <1>1 DEF FlushClear, cacheVars
<1>4. OnFlash(i, {})
  BY <1>1, <1>2 DEF IInv, FlushInv
<1>5. DataInv'
  BY <1>3, <1>4, CleanEntry DEF IInv, TypeInv
<1>6. fl'.by = App /\ fl'.pc = "check" /\ fl'.i = i + 1
  BY <1>1, <1>2 DEF FlushClear, IInv, TypeInv, TypeOK
<1>7. \A e \in Entries : e < i + 1 => ~dirty'[e]
  <2>1. \A e \in Entries : e < i + 1 => e < i \/ e = i
    BY NorCacheAssumption DEF Entries
  <2>2. \A e \in Entries : e < i => ~dirty[e]
    BY <1>1, <1>2 DEF IInv, FlushInv
  <2> QED  BY <1>3, <2>1, <2>2 DEF IInv, TypeInv, TypeOK
<1> QED  BY <1>2, <1>3, <1>5, <1>6, <1>7 DEF IInv, AppInv, FlushInv, NorInv, DownInv

\* The invariant is inductive when one thread uses the cache.
LEMMA NextIInv == Sequential /\ IInv /\ [Next]_vars => IInv'
<1> SUFFICES ASSUME Sequential, IInv, [Next]_vars PROVE IInv'
  OBVIOUS
<1>t. TypeInv'
  BY NextType DEF IInv
<1>n. /\ app.pc \notin {"evict", "flush"} => nor.by = Nobody
      /\ app.pc # "flush" => fl.by = Nobody
  BY DEF IInv, FlushInv, NorInv
<1>1. CASE Mount
  <2>1. \A s \in Partition : disk[s] = latest[s]
    BY <1>1 DEF Mount, IInv, DownInv, DataInv, OnlyDirtyPagesAreAtRisk, Covers, TypeInv, TypeOK
  <2>2. DataInv' /\ app'.pc = "idle" /\ UNCHANGED <<fl, nor>> /\ life' = "up"
    BY <1>1, <2>1, EmptyData DEF Mount
  <2> QED  BY <1>1, <1>t, <1>n, <2>2 DEF Mount, IInv, AppInv, FlushInv, NorInv, DownInv
<1>2. CASE Request
  <2>1. /\ UNCHANGED <<tag, dirty, buf, disk, nor, fl, life, latest>>
        /\ app.pc = "idle" /\ life = "up"
    BY <1>2 DEF Request, ReadRequest, WriteRequest, FlushRequest, cacheVars
  <2>2. DataInv'
    BY <2>1, DataUnchanged DEF IInv
  <2>3. \/ app'.pc = "flush"
        \/ app'.pc = "loop" /\ app'.sector + app'.left <= endOfPartition
    <3>1. ASSUME NEW s \in AppSectors, NEW n \in 1 .. MaxSpan, s + n - 1 \in AppSectors,
                 ReadRequest(s, n) \/ WriteRequest(s, n)
          PROVE  app'.pc = "loop" /\ app'.sector + app'.left <= endOfPartition
      <4>1. app'.pc = "loop" /\ app'.sector = s /\ app'.left = n
        BY <3>1 DEF ReadRequest, WriteRequest, NoRequest
      <4>2. s \in Int /\ n \in Int /\ s + n - 1 < endOfPartition /\ endOfPartition \in Int
        BY <3>1, NorCacheAssumption DEF Sequential, endOfPartition
      <4> QED  BY <4>1, <4>2
    <3>2. ASSUME NEW op, FlushRequest(op) PROVE app'.pc = "flush"
      BY <3>2 DEF FlushRequest, NoRequest
    <3> QED  BY <1>2, <3>1, <3>2 DEF Request
  <2>4. AppInv'
    BY <1>t, <2>1, <2>3 DEF AppInv, TypeInv
  <2> QED  BY <1>t, <1>n, <2>1, <2>2, <2>4 DEF IInv, FlushInv, NorInv, DownInv
<1>3. CASE CacheMiss
  <2>1. PICK v \in Entries :
          app' = [app EXCEPT !.ent = v, !.pc = IF tag[v] # CACHE_FREE /\ dirty[v]
                                               THEN "evict" ELSE "fill"]
    BY <1>3 DEF CacheMiss
  <2>2. UNCHANGED <<tag, dirty, buf, disk, nor, fl, life, latest>>
    BY <1>3 DEF CacheMiss, cacheVars
  <2>3. DataInv' /\ \A s : Hit(s)' = Hit(s)
    BY <2>2, DataUnchanged DEF IInv
  <2>4. /\ app'.ent = v /\ app'.sector = app.sector /\ app'.left = app.left
        /\ \/ app'.pc = "evict" /\ dirty[v]
           \/ app'.pc = "fill" /\ ~dirty[v]
    BY <2>1 DEF IInv, TypeInv, TypeOK, DataInv
  <2>5. app.pc = "loop" /\ ~Hit(app.sector)
    BY <1>3 DEF CacheMiss
  <2>6. ~(\E e \in Entries : tag'[e] # CACHE_FREE /\ app'.sector \in SectorsOf(tag'[e]))
    BY <2>2, <2>4, <2>5 DEF Hit, Covers
  <2>7. AppInv'
    BY <1>t, <2>2, <2>4, <2>5, <2>6 DEF IInv, AppInv, Hit, Covers
  <2> QED  BY <1>t, <1>n, <2>2, <2>3, <2>5, <2>7 DEF IInv, FlushInv, NorInv, DownInv
<1>4. CASE EvictDone
  <2>1. PICK e \in Entries : app.ent = e /\ OnFlash(e, {})
    BY <1>4 DEF EvictDone, IInv, AppInv, TypeInv, TypeOK
  <2>2. /\ app.pc = "clean" /\ dirty' = [dirty EXCEPT ![e] = FALSE]
        /\ UNCHANGED <<tag, buf, disk, nor, fl, life, latest>>
    BY <1>4, <2>1 DEF EvictDone
  <2>3. DataInv'
    BY <2>1, <2>2, CleanEntry DEF IInv, TypeInv
  <2>4. /\ app'.pc = "fill" /\ app'.ent = e /\ app'.sector = app.sector
        /\ app'.left = app.left /\ ~dirty'[e]
    BY <1>4, <2>1, <2>2 DEF EvictDone, IInv, TypeInv, TypeOK
  <2>5. ~(\E x \in Entries : tag'[x] # CACHE_FREE /\ app'.sector \in SectorsOf(tag'[x]))
    BY <2>2, <2>4 DEF IInv, AppInv, Hit, Covers
  <2>6. AppInv'
    BY <1>t, <2>2, <2>4, <2>5 DEF IInv, AppInv, Hit, Covers
  <2> QED  BY <1>t, <1>n, <2>2, <2>3, <2>6 DEF IInv, FlushInv, NorInv, DownInv
<1>5. CASE FlushReturns \/ DisableFlush
  <2>1. /\ UNCHANGED <<tag, dirty, buf, disk, nor, fl, latest>>
        /\ app.pc = "after" /\ app'.pc = "idle"
        /\ life' = life \/ life # "up"
    BY <1>5, IdleTypes DEF FlushReturns, DisableFlush, cacheVars
  <2>2. DataInv'
    BY <2>1, DataUnchanged DEF IInv
  <2> QED  BY <1>t, <1>n, <2>1, <2>2 DEF IInv, AppInv, FlushInv, NorInv, DownInv
<1>6. CASE Invalidate \/ FreeCache
  <2>1. /\ UNCHANGED <<disk, nor, fl>> /\ app.pc = "after"
        /\ \/ app'.pc = "idle"
           \/ app' = app /\ life' = "freed" /\ app.op = "release"
    BY <1>6, IdleTypes DEF Invalidate, FreeCache
  <2>2. DataInv' /\ \A e \in Entries : tag'[e] = CACHE_FREE
    BY <1>6, EmptyData DEF Invalidate, FreeCache
  <2> QED  BY <1>t, <1>n, <2>1, <2>2 DEF IInv, AppInv, FlushInv, NorInv, DownInv
<1>7. ASSUME NEW t \in {App, Idle}, FlushLock(t) PROVE IInv'
  <2>1. /\ t = App /\ app.pc = "flush" /\ fl' = [NoFlush EXCEPT !.by = App]
        /\ UNCHANGED <<tag, dirty, buf, disk, nor, app, life, latest>>
    BY <1>7 DEF FlushLock, Sequential, cacheVars
  <2>2. DataInv' /\ AppInv'
    BY <2>1, DataUnchanged DEF IInv, AppInv
  <2>3. fl'.by = App /\ fl'.i = 0 /\ fl'.pc = "check"
    BY <2>1 DEF NoFlush
  <2>4. \A e \in Entries : ~(e < 0)
    BY NorCacheAssumption DEF Entries
  <2>5. fl.by = Nobody /\ nor.by = Nobody
    BY <1>7, <2>1 DEF FlushLock, IInv, NorInv
  <2> QED  BY <1>t, <2>1, <2>2, <2>3, <2>4, <2>5 DEF IInv, FlushInv, NorInv, DownInv
<1>8. CASE FlushEnd
  <2>1. /\ fl.by = App /\ fl' = NoFlush /\ app' = [app EXCEPT !.pc = "after"]
        /\ UNCHANGED <<tag, dirty, buf, disk, nor, life, latest>>
        /\ app.pc = "flush" /\ fl.pc = "check"
    BY <1>8 DEF FlushEnd, FlushUnlock, IInv, FlushInv, cacheVars
  <2>2. app'.pc = "after" /\ nor.by = Nobody
    BY <2>1 DEF IInv, TypeInv, TypeOK, NorInv
  <2>3. DataInv'
    BY <2>1, DataUnchanged DEF IInv
  <2> QED  BY <1>t, <2>1, <2>2, <2>3, IdleTypes DEF IInv, AppInv, FlushInv, NorInv, DownInv
<1>9. CASE NorDone
  <2>1. nor.by = App /\ nor.todo = {} /\ nor' = NoWrite /\ NorReturn(App, TRUE)
        /\ UNCHANGED <<tag, dirty, buf, disk, life, latest>>
    BY <1>9 DEF NorDone, IInv, NorInv, cacheVars
  <2>2. Evicting(App) \/ Flushing(App)
    BY <2>1 DEF IInv, TypeInv
  <2> QED  BY <1>t, <2>1, <2>2, NorReturnStep
<1>10. ASSUME NEW t \in {App, Idle}, NorFails(t) PROVE IInv'
  <2>1. t = App
    BY <1>10 DEF NorFails, IInv, FlushInv, NorInv
  <2>2. nor' = NoWrite /\ NorReturn(App, FALSE)
        /\ UNCHANGED <<tag, dirty, buf, disk, life, latest>>
    BY <1>10, <2>1 DEF NorFails, cacheVars
  <2>3. Evicting(App) \/ Flushing(App)
    BY <1>10, <2>1 DEF NorFails, IInv, TypeInv
  <2> QED  BY <1>t, <2>2, <2>3, NorReturnStep
<1>11. CASE PowerLoss
  <2>1. app'.pc = "idle" /\ fl' = NoFlush /\ nor' = NoWrite /\ life' = "down"
    BY <1>11, IdleTypes DEF PowerLoss
  <2>2. DataInv' /\ \A e \in Entries : tag'[e] = CACHE_FREE
    BY <1>11, EmptyData DEF PowerLoss
  <2> QED  BY <1>t, <2>1, <2>2, IdleTypes DEF IInv, AppInv, FlushInv, NorInv, DownInv
<1>12. ASSUME NEW k \in Offsets, FillFails(k) PROVE IInv'
  BY <1>12 DEF FillFails, Sequential
<1>13. CASE UNCHANGED vars
  <2>1. UNCHANGED <<tag, dirty, buf, disk, nor, app, fl, life, latest>>
    BY <1>13 DEF vars
  <2>2. DataInv' /\ (\A s : Hit(s)' = Hit(s)) /\ (\A e, S : OnFlash(e, S)' = OnFlash(e, S))
    BY <2>1, DataUnchanged DEF IInv
  <2> QED
    BY <1>t, <2>1, <2>2
       DEF IInv, AppInv, FlushInv, NorInv, DownInv, OnFlash, Hit, Covers
<1> QED
  BY <1>t, <1>1, <1>2, <1>3, <1>4, <1>5, <1>6, <1>7, <1>8, <1>9, <1>10, <1>11,
     <1>12, <1>13, CacheHitStep, FillStep, FlushCheckStep, FlushClearStep,
     NorEraseStep, NorProgramStep
     DEF Next, AppStep, FlushStep, NorStep, Fault

\* The inductive invariant holds in every reachable state.
LEMMA Invariant == Sequential => (Spec => []IInv)
<1> SUFFICES ASSUME Sequential PROVE Spec => []IInv
  OBVIOUS
<1> QED  BY InitIInv, NextIInv, PTL DEF Spec
-----------------------------------------------------------------------------
\* What is cached is the latest, and what is not cached is on the flash: a
\* read returns the latest data.
LEMMA ViewIsLatest ==
  ASSUME TypeOK,
         \A e \in Entries, s \in Sectors : Covers(e, s) => buf[e][OffsetOf(s)] = latest[s],
         \A s \in Partition : disk[s] # latest[s] => Hit(s)
  PROVE  CacheHoldsLatest
<1>1. ASSUME NEW s \in Partition PROVE View[s] = latest[s]
  <2>0. s \in Sectors
    BY PageArithmetic
  <2>1. CASE Hit(s)
    <3>1. View[s] = buf[FirstHit(s)][OffsetOf(s)]
      BY <2>0, <2>1 DEF View
    <3> QED  BY <2>0, <2>1, <3>1, FirstEntry
  <2>2. CASE ~Hit(s)
    BY <2>0, <2>2 DEF View
  <2> QED  BY <2>1, <2>2
<1> QED  BY <1>1 DEF CacheHoldsLatest

LEMMA ReadsLatest == IInv => CacheHoldsLatest
<1>1. IInv => \A s \in Partition : disk[s] # latest[s] => Hit(s)
  BY DEF IInv, DataInv, OnlyDirtyPagesAreAtRisk, Hit
<1> QED  BY <1>1, ViewIsLatest DEF IInv, TypeInv, DataInv

\* When the flush loop has passed the last entry no sector is at risk.
LEMMA FlushedAll ==
  ASSUME IInv, fl.by = App, fl.i = NumPages
  PROVE  \A s \in Partition : disk[s] = latest[s]
<1>1. \A e \in Entries : ~dirty[e]
  <2>1. \A e \in Entries : e < NumPages
    BY NorCacheAssumption DEF Entries
  <2> QED  BY <2>1 DEF IInv, FlushInv
<1> QED  BY <1>1 DEF IInv, DataInv, OnlyDirtyPagesAreAtRisk

\* A flush that no device error ends has passed the last entry, and then all is
\* on the flash.
LEMMA FlushStepIsDurable ==
  ASSUME IInv, [Next]_vars, app.pc = "flush", app'.pc = "after", faults' = faults
  PROVE  \A s \in Partition : disk'[s] = latest'[s]
<1>1. CASE FlushEnd
  <2>1. fl.by = App /\ fl.i = NumPages /\ UNCHANGED <<disk, latest>>
    BY <1>1 DEF FlushEnd, IInv, FlushInv
  <2> QED  BY <2>1, FlushedAll
<1>2. CASE UNCHANGED app
  BY <1>2
<1>3. ASSUME NEW t \in {App, Idle}, NorFails(t) PROVE FALSE
  BY <1>3 DEF NorFails, IInv, TypeInv, TypeOK
<1>4. CASE NorDone
  <2>1. NorReturn(nor.by, TRUE) /\ ~Evicting(nor.by)
    BY <1>4 DEF NorDone
  <2> QED  BY <2>1 DEF NorReturn
<1>5. CASE PowerLoss
  BY <1>5, IdleTypes DEF PowerLoss
<1>6. CASE Request \/ CacheHit \/ CacheMiss \/ EvictDone \/ Fill \/ FlushReturns
           \/ Invalidate \/ FreeCache \/ DisableFlush \/ \E k \in Offsets : FillFails(k)
  BY <1>6 DEF Request, ReadRequest, WriteRequest, FlushRequest, CacheHit, CacheMiss,
       EvictDone, Fill, FlushReturns, Invalidate, FreeCache, DisableFlush, FillFails
<1> QED
  BY <1>1, <1>2, <1>3, <1>4, <1>5, <1>6
     DEF Next, AppStep, FlushStep, NorStep, Fault, vars, Mount, FlushLock,
         FlushCheck, FlushClear, NorErase, NorProgram

\* While one thread uses the cache, a read returns what was last written,
\* the only sectors not on the flash are those of dirty pages, and no page is
\* held twice.
THEOREM Coherent ==
  Sequential => (Spec => [](CacheHoldsLatest /\ OnlyDirtyPagesAreAtRisk /\ NoAlias))
<1> SUFFICES ASSUME Sequential
             PROVE  Spec => [](CacheHoldsLatest /\ OnlyDirtyPagesAreAtRisk /\ NoAlias)
  OBVIOUS
<1>1. IInv => CacheHoldsLatest /\ OnlyDirtyPagesAreAtRisk /\ NoAlias
  BY ReadsLatest DEF IInv, DataInv
<1>2. Spec => []IInv
  BY Invariant
<1> QED  BY <1>1, <1>2, PTL

\* While one thread uses the cache, the only sectors whose last data is not on
\* the flash are those of dirty pages, whatever fails and whenever the power goes.
THEOREM OnlyDirtyAtRisk == Sequential => (Spec => []OnlyDirtyPagesAreAtRisk)
BY Coherent, PTL

\* While one thread uses the cache, no page is held by two entries.
THEOREM OnePlacePerPage == Sequential => (Spec => []NoAlias)
BY Coherent, PTL

\* While one thread uses the cache, a flush that no device error ends leaves
\* nothing behind: the flash holds the last data of every sector of the
\* partition.
THEOREM FlushDurable == Sequential => (Spec => FlushIsDurable)
<1> SUFFICES ASSUME Sequential PROVE Spec => FlushIsDurable
  OBVIOUS
<1>1. IInv /\ [Next]_vars =>
        [app.pc = "flush" /\ app'.pc = "after" /\ faults' = faults
           => \A s \in Partition : disk'[s] = latest'[s]]_vars
  BY FlushStepIsDurable
<1>2. Spec => []IInv
  BY Invariant
<1> QED  BY <1>1, <1>2, PTL DEF Spec, FlushIsDurable
-----------------------------------------------------------------------------
(***************************************************************************)
(* The cache implements NorDisk.  By coherence the content of the device   *)
(* is `latest'.                                                            *)
(***************************************************************************)

\* giveUp, as KeepsPromise maps it.
MayDrop == life # "up" \/ (app.pc = "after" /\ app.op = "invalidate")

\* A step that keeps the promise, stated on NorCache's variables.
PromiseStep ==
  \/ \* Write
     /\ \E d \in Data : \A s \in Sectors : latest'[s] \in {latest[s], d}
     /\ ~MayDrop /\ UNCHANGED disk /\ MayDrop' = MayDrop
  \/ \* Destage
     /\ \A s \in Partition : disk'[s] \in {disk[s], latest[s], Torn}
     /\ UNCHANGED latest /\ MayDrop' = MayDrop
  \/ \* Drop
     /\ MayDrop \/ MayDrop'
     /\ latest' = disk /\ UNCHANGED disk
  \/ \* Turn, or a stutter
     UNCHANGED <<latest, disk>>

\* The initial state is an initial state of the promised device.
LEMMA InitPromise == Init => Promise!Init
<1> SUFFICES ASSUME Init PROVE Promise!Init
  OBVIOUS
<1>1. (\A s \in Partition : View[s] = latest[s]) /\ IInv
  BY InitIInv, ReadsLatest DEF CacheHoldsLatest
<1>2. latest \in [Sectors -> Cell] /\ disk = latest /\ life = "down"
  BY <1>1 DEF Init, IInv, TypeInv, TypeOK
<1> QED  BY <1>1, <1>2, PageArithmetic DEF Promise!Init, Promise!Cell, Cell

\* A copy changes the content of some sectors to one piece of data.
LEMMA CopyPromise ==
  ASSUME IInv, NEW e, NEW b, Copy(e, b)
  PROVE  \E d \in Data : \A s \in Sectors : latest'[s] \in {latest[s], d}
<1>1. app.data \in Data
  BY DEF IInv, TypeInv, TypeOK
<1>2. \A s \in Sectors : latest'[s] \in {latest[s], app.data}
  BY DEF Copy, IInv, TypeInv, TypeOK
<1> QED  BY <1>1, <1>2

\* Every step of the cache is a step of the promise.
LEMMA NextPromise ==
  ASSUME Sequential, IInv, IInv', [Next]_vars
  PROVE  PromiseStep
<1>1. CASE CacheHit \/ Fill
  <2>1. life = "up" /\ UNCHANGED <<disk, life>> /\ app.pc \in {"loop", "fill"}
    BY <1>1 DEF CacheHit, Fill, IInv, AppInv
  <2>2. PICK e, b : Copy(e, b)
    BY <1>1 DEF CacheHit, Fill
  <2>3. app'.pc \in {"idle", "loop"}
    BY <2>2, IdleTypes DEF Copy, IInv, TypeInv, TypeOK
  <2> QED  BY <2>1, <2>2, <2>3, CopyPromise DEF PromiseStep, MayDrop
<1>2. CASE Invalidate \/ FreeCache
  BY <1>2 DEF Invalidate, FreeCache, PromiseStep, MayDrop
<1>3. CASE PowerLoss
  BY <1>3 DEF PowerLoss, PromiseStep, MayDrop
<1>4. ASSUME NEW t \in {App, Idle}, NorErase(t) PROVE PromiseStep
  <2>1. \A s \in Partition : disk'[s] \in {disk[s], Torn}
    BY <1>4, PageArithmetic DEF NorErase
  <2> QED  BY <1>4, <2>1 DEF NorErase, PromiseStep, MayDrop
<1>5. CASE NorProgram
  <2>1. PICK s \in nor.todo : disk' = [disk EXCEPT ![s] = buf[nor.ent][OffsetOf(s)]]
    BY <1>5 DEF NorProgram
  <2>2. nor.by = App /\ nor.ent \in Entries /\ dirty[nor.ent]
        /\ nor.todo \subseteq SectorsOf(tag[nor.ent])
    BY <1>5 DEF NorProgram, IInv, NorInv, AppInv, FlushInv, TypeInv, TypeOK
  <2>3. s \in Sectors /\ Covers(nor.ent, s)
    BY <2>2, PageArithmetic DEF IInv, DataInv, Covers
  <2>4. buf[nor.ent][OffsetOf(s)] = latest[s]
    BY <2>2, <2>3 DEF IInv, DataInv
  <2>5. \A r \in Partition : disk'[r] \in {disk[r], latest[r], Torn}
    BY <2>1, <2>3, <2>4, PageArithmetic DEF IInv, TypeInv, TypeOK
  <2> QED  BY <1>5, <2>5 DEF NorProgram, PromiseStep, MayDrop
<1>6. CASE \E k \in Offsets : FillFails(k)
  BY <1>6 DEF FillFails, PromiseStep
<1> QED
  BY <1>1, <1>2, <1>3, <1>4, <1>5, <1>6
     DEF Next, Mount, Request, ReadRequest, WriteRequest, FlushRequest, AppStep,
         CacheMiss, EvictDone, FlushReturns, DisableFlush, FlushLock, FlushStep,
         FlushCheck, FlushClear, FlushEnd, NorStep, NorDone, Fault, NorFails,
         PromiseStep, vars

\* A write request is never number 0, which is the data of a sector nobody wrote.
WriteInv == app.op = "write" => app.data # 0

LEMMA NextWrite == TypeInv /\ WriteInv /\ [Next]_vars => WriteInv'
<1> SUFFICES ASSUME TypeInv, WriteInv, [Next]_vars PROVE WriteInv'
  OBVIOUS
<1>0. app \in AppState /\ writes \in Nat
  BY NorCacheAssumption DEF TypeInv, TypeOK
<1>1. CASE app' = NoRequest
  BY <1>1 DEF NoRequest, WriteInv
<1>2. CASE app'.op = app.op /\ app'.data = app.data
  BY <1>2 DEF WriteInv
<1>3. CASE Request
  <2>1. ASSUME NEW s, NEW n, ReadRequest(s, n) PROVE WriteInv'
    BY <2>1 DEF ReadRequest, NoRequest, WriteInv
  <2>2. ASSUME NEW s, NEW n, WriteRequest(s, n) PROVE WriteInv'
    BY <1>0, <2>2 DEF WriteRequest, NoRequest, WriteInv
  <2>3. ASSUME NEW op \in {"flush", "invalidate", "release"}, FlushRequest(op) PROVE WriteInv'
    BY <2>3 DEF FlushRequest, NoRequest, WriteInv
  <2> QED  BY <1>3, <2>1, <2>2, <2>3 DEF Request
<1>4. CASE CacheHit \/ Fill
  <2>1. PICK e, b : Copy(e, b)
    BY <1>4 DEF CacheHit, Fill
  <2> QED  BY <1>0, <1>1, <1>2, <2>1 DEF Copy
<1>5. CASE UNCHANGED app
  BY <1>2, <1>5
<1>6. CASE CacheMiss \/ EvictDone
  BY <1>0, <1>2, <1>6 DEF CacheMiss, EvictDone, AppState
<1>7. CASE FlushReturns \/ Invalidate \/ DisableFlush \/ PowerLoss \/ \E k \in Offsets : FillFails(k)
  BY <1>1, <1>7 DEF FlushReturns, Invalidate, DisableFlush, PowerLoss, FillFails
<1>8. CASE FlushEnd
  BY <1>0, <1>2, <1>5, <1>8 DEF FlushEnd, FlushUnlock, AppState
<1>9. ASSUME NEW t, NEW ok, NorReturn(t, ok) PROVE WriteInv'
  BY <1>0, <1>1, <1>2, <1>5, <1>9 DEF NorReturn, FlushUnlock, AppState
<1>10. CASE NorDone \/ \E t \in {App, Idle} : NorFails(t)
  BY <1>9, <1>10 DEF NorDone, NorFails
<1>11. CASE Mount \/ FreeCache \/ FlushLock(App) \/ FlushLock(Idle) \/ FlushCheck \/ FlushClear
  BY <1>5, <1>11 DEF Mount, FreeCache, FlushLock, FlushCheck, FlushClear
<1>12. CASE NorProgram \/ \E t \in {App, Idle} : NorErase(t)
  BY <1>5, <1>12 DEF NorProgram, NorErase
<1>13. CASE UNCHANGED vars
  BY <1>5, <1>13 DEF vars
<1> QED
  BY <1>3, <1>4, <1>6, <1>7, <1>8, <1>10, <1>11, <1>12, <1>13
     DEF Next, AppStep, FlushStep, NorStep, Fault

\* A sector nobody wrote stays so, or becomes a written one.
LEMMA UntouchedStep ==
  ASSUME Sequential, IInv, IInv', WriteInv, NeverWrittenIsUntouched, [Next]_vars
  PROVE  NeverWrittenIsUntouched'
<1>1. CASE CacheHit \/ Fill
  <2>1. PICK e, b : Copy(e, b)
    BY <1>1 DEF CacheHit, Fill
  <2>2. UNCHANGED disk
    BY <1>1 DEF CacheHit, Fill
  <2>3. \A s \in Sectors : latest'[s] = 0 => latest[s] = 0
    BY <2>1 DEF Copy, WriteInv
  <2> QED  BY <2>2, <2>3, PageArithmetic DEF NeverWrittenIsUntouched
<1>2. CASE UNCHANGED latest
  <2>1. PromiseStep
    BY NextPromise
  <2>2. \A s \in Partition : disk'[s] \in {disk[s], latest[s], Torn}
    BY <1>2, <2>1 DEF PromiseStep
  <2> QED  BY <1>2, <2>2 DEF NeverWrittenIsUntouched
<1>3. CASE latest' = disk /\ UNCHANGED disk
  BY <1>3 DEF NeverWrittenIsUntouched
<1> QED
  BY <1>1, <1>2, <1>3
     DEF Next, Mount, Request, ReadRequest, WriteRequest, FlushRequest, AppStep,
         CacheMiss, EvictDone, FlushReturns, Invalidate, FreeCache, DisableFlush,
         FlushLock, FlushStep, FlushCheck, FlushClear, FlushEnd, NorStep, NorErase,
         NorProgram, NorDone, Fault, FillFails, NorFails, PowerLoss, vars

\* While one thread uses the cache, a sector no request has written holds what
\* it held, or is open because its own page is being rewritten: no page is
\* ever written over another, whatever fails and whenever the power goes.
THEOREM UntouchedStays == Sequential => (Spec => []NeverWrittenIsUntouched)
<1> SUFFICES ASSUME Sequential PROVE Spec => []NeverWrittenIsUntouched
  OBVIOUS
<1> DEFINE J == IInv /\ WriteInv /\ NeverWrittenIsUntouched
<1>1. Init => J
  BY InitIInv, PageArithmetic DEF Init, NoRequest, WriteInv, NeverWrittenIsUntouched
<1>2. J /\ [Next]_vars => J'
  <2> SUFFICES ASSUME J, [Next]_vars PROVE J'
    OBVIOUS
  <2>1. IInv'
    BY NextIInv
  <2>2. WriteInv'
    BY NextWrite DEF IInv
  <2>3. NeverWrittenIsUntouched'
    BY <2>1, UntouchedStep
  <2> QED  BY <2>1, <2>2, <2>3
<1>3. J => NeverWrittenIsUntouched
  OBVIOUS
<1> QED  BY <1>1, <1>2, <1>3, PTL DEF Spec

\* A PromiseStep is a step of NorDisk under the mapping of KeepsPromise.
LEMMA StepPromise ==
  Sequential /\ IInv /\ IInv' /\ [Next]_vars => [Promise!Next]_(Promise!vars)
<1> SUFFICES ASSUME Sequential, IInv, IInv', [Next]_vars
             PROVE  [Promise!Next]_(Promise!vars)
  OBVIOUS
<1>1. /\ [s \in Partition |-> View[s]] = [s \in Partition |-> latest[s]]
      /\ [s \in Partition |-> View'[s]] = [s \in Partition |-> latest'[s]]
  <2>1. CacheHoldsLatest
    BY ReadsLatest
  <2>2. CacheHoldsLatest'
    BY ReadsLatest, PTL
  <2> QED  BY <2>1, <2>2 DEF CacheHoldsLatest
<1>2. PromiseStep
  BY NextPromise
<1>3. /\ latest' \in [Sectors -> Cell] /\ disk' \in [Sectors -> Cell]
      /\ MayDrop \in BOOLEAN /\ MayDrop' \in BOOLEAN
      /\ Partition \subseteq Sectors
  BY PageArithmetic DEF IInv, TypeInv, TypeOK, MayDrop
<1>4. CASE \E d \in Data : /\ \A s \in Sectors : latest'[s] \in {latest[s], d}
                          /\ ~MayDrop /\ UNCHANGED disk /\ MayDrop' = MayDrop
  <2>1. Promise!Write
    BY <1>1, <1>3, <1>4 DEF Promise!Write, Promise!Cell, Cell, MayDrop
  <2> QED  BY <2>1 DEF Promise!Next
<1>5. CASE /\ \A s \in Partition : disk'[s] \in {disk[s], latest[s], Torn}
           /\ UNCHANGED latest /\ MayDrop' = MayDrop
  <2>1. Promise!Destage
    BY <1>1, <1>3, <1>5 DEF Promise!Destage, Promise!Cell, Cell, MayDrop
  <2> QED  BY <2>1 DEF Promise!Next
<1>6. CASE (MayDrop \/ MayDrop') /\ latest' = disk /\ UNCHANGED disk
  <2>1. Promise!Drop
    BY <1>1, <1>3, <1>6 DEF Promise!Drop, MayDrop
  <2> QED  BY <2>1 DEF Promise!Next
<1>7. CASE UNCHANGED <<latest, disk>>
  <2>1. CASE MayDrop' = MayDrop
    BY <1>1, <1>7, <2>1 DEF Promise!vars, MayDrop
  <2>2. CASE MayDrop' # MayDrop
    <3>1. MayDrop' = ~MayDrop
      BY <1>3, <2>2
    <3>2. Promise!Turn
      BY <1>1, <1>7, <3>1 DEF Promise!Turn, MayDrop
    <3> QED  BY <3>2 DEF Promise!Next
  <2> QED  BY <2>1, <2>2
<1> QED  BY <1>2, <1>4, <1>5, <1>6, <1>7 DEF PromiseStep

\* While one thread uses the cache it implements NorDisk: accepted data
\* reaches the flash or stays readable, no sector goes back to older data,
\* and a power loss leaves what NorDisk allows.
THEOREM ImplementsNorDisk == Sequential => (Spec => KeepsPromise)
<1> SUFFICES ASSUME Sequential PROVE Spec => KeepsPromise
  OBVIOUS
<1>1. Spec => []IInv
  BY Invariant
<1> QED  BY <1>1, InitPromise, StepPromise, PTL DEF Spec, KeepsPromise, Promise!Spec
-----------------------------------------------------------------------------
(***************************************************************************)
(* Beside the idle flusher, with page reads that fail: what the file       *)
(* system works on fits in the cache, so that no entry is replaced, and it *)
(* neither invalidates nor releases the cache.  Without either condition a *)
(* run finds a counterexample.                                             *)
(***************************************************************************)

\* The sectors of the requests, and their pages.
WorkingSet   == {s \in Sectors : \E a, b \in AppSectors : a <= s /\ s <= b}
WorkingPages == {PageOf(s) : s \in WorkingSet}

Fitting ==
  /\ \A s \in AppSectors : s < endOfPartition
  /\ AppOps \subseteq {"read", "write", "flush"}
  /\ Cardinality(WorkingPages) <= NumPages

\* The pages cached are of the working set; what is cached is the latest, what
\* is not is on the flash.
CachedInv ==
  /\ NoAlias
  /\ \A e \in Entries : tag[e] \in WorkingPages \union {CACHE_FREE}
  /\ \A e \in Entries : dirty[e] => tag[e] # CACHE_FREE
  /\ \A e \in Entries, s \in Sectors :
       Covers(e, s) => buf[e][OffsetOf(s)] = latest[s]
  /\ \A s \in Partition : disk[s] # latest[s] => Hit(s)

\* A request stays in the working set, and finds a free entry for a page that
\* is not cached.
RequestInv ==
  /\ app.op \in {"read", "write", "flush"}
  /\ app.pc \notin {"evict", "clean"}
  /\ app.pc \in {"loop", "fill"} =>
       app.sector \in WorkingSet /\ app.sector + app.left - 1 \in WorkingSet
  /\ app.pc = "fill" => tag[app.ent] = CACHE_FREE /\ ~Hit(app.sector)

\* A flush, and a NorWrite, is of a page that is cached.
WritingInv ==
  /\ fl.by # Nobody /\ fl.pc = "write" => fl.page # CACHE_FREE /\ tag[fl.i] = fl.page
  /\ nor.by # Nobody =>
       tag[nor.ent] # CACHE_FREE /\ nor.todo \subseteq SectorsOf(tag[nor.ent])

\* Without a mounted cache nothing is going on.
DriveInv ==
  /\ life \in {"up", "down"}
  /\ life = "down" => /\ app.pc = "idle" /\ fl.by = Nobody /\ nor.by = Nobody
                      /\ \A e \in Entries : tag[e] = CACHE_FREE

SharedInv == TypeInv /\ CachedInv /\ RequestInv /\ WritingInv /\ DriveInv

LEMMA WorkingFacts ==
  ASSUME Fitting
  PROVE  /\ AppSectors \subseteq WorkingSet /\ WorkingSet \subseteq Sectors
         /\ \A s \in WorkingSet : s < endOfPartition
         /\ \A r, s \in WorkingSet, t \in Int : r <= t /\ t <= s => t \in WorkingSet
         /\ CACHE_FREE \notin WorkingPages
         /\ IsFiniteSet(WorkingPages)
<1>1. /\ AppSectors \subseteq Sectors /\ Sectors \subseteq Int
      /\ NumSectors \in Int /\ endOfPartition \in Int
  BY NorCacheAssumption DEF Sectors, endOfPartition
<1>2. AppSectors \subseteq WorkingSet /\ WorkingSet \subseteq Sectors
  BY <1>1 DEF WorkingSet
<1>3. \A s \in WorkingSet : s < endOfPartition
  BY <1>1 DEF WorkingSet, Fitting
<1>4. ASSUME NEW r \in WorkingSet, NEW s \in WorkingSet, NEW t \in Int, r <= t, t <= s
      PROVE  t \in WorkingSet
  <2>1. PICK a \in AppSectors, b \in AppSectors : a <= r /\ s <= b
    BY DEF WorkingSet
  <2>2. a <= t /\ t <= b /\ t \in Sectors
    BY <1>1, <1>2, <1>4, <2>1 DEF Sectors
  <2> QED  BY <2>2 DEF WorkingSet
<1>5. WorkingPages \subseteq Pages
  BY <1>2 DEF WorkingPages, Pages
<1>6. IsFiniteSet(WorkingPages)
  <2>1. IsFiniteSet(Sectors)
    BY FS_Interval, NorCacheAssumption DEF Sectors
  <2>2. IsFiniteSet(WorkingSet)
    BY <1>2, <2>1, FS_Subset
  <2> DEFINE f == [x \in WorkingSet |-> PageOf(x)]
  <2>3. f \in Surjection(WorkingSet, WorkingPages)
    BY DEF WorkingPages, Surjection
  <2> QED  BY <2>2, <2>3, FS_Surjection
<1> QED  BY <1>2, <1>3, <1>4, <1>5, <1>6, PageArithmetic

\* As long as a page of the working set is not cached, an entry is free.
LEMMA FreeEntry ==
  ASSUME Fitting, TypeInv, CachedInv, NEW t \in WorkingSet, ~Hit(t)
  PROVE  \E e \in Entries : tag[e] = CACHE_FREE
<1> SUFFICES ASSUME \A e \in Entries : tag[e] # CACHE_FREE PROVE FALSE
  OBVIOUS
<1> DEFINE T == WorkingPages \ {PageOf(t)}
<1>1. PageOf(t) \in WorkingPages /\ t \in Sectors /\ t < endOfPartition
  BY WorkingFacts DEF WorkingPages
<1>2. \A e \in Entries : tag[e] # PageOf(t)
  BY <1>1 DEF Hit, Covers, SectorsOf, Partition
<1>3. tag \in [Entries -> T]
  BY <1>2 DEF CachedInv, TypeInv, TypeOK
<1>4. IsFiniteSet(T) /\ Cardinality(T) < NumPages
  <2>1. IsFiniteSet(WorkingPages) /\ Cardinality(WorkingPages) <= NumPages
    BY WorkingFacts DEF Fitting
  <2>2. IsFiniteSet(T) /\ Cardinality(T) = Cardinality(WorkingPages) - 1
    BY <1>1, <2>1, FS_RemoveElement
  <2>3. Cardinality(WorkingPages) \in Nat /\ NumPages \in Nat
    BY <2>1, FS_CardinalityType, NorCacheAssumption
  <2> QED  BY <2>1, <2>2, <2>3
<1>5. IsFiniteSet(Entries) /\ Cardinality(Entries) = NumPages
  BY FS_Interval, NorCacheAssumption DEF Entries
<1> HIDE DEF T
<1>6. \E x, y \in Entries : x # y /\ tag[x] = tag[y]
  BY <1>3, <1>4, <1>5, FS_PigeonHole
<1> QED  BY <1>6 DEF CachedInv, NoAlias

LEMMA InitShared == Init => SharedInv
<1> SUFFICES ASSUME Init PROVE SharedInv
  OBVIOUS
<1>1. TypeInv
  BY InitType
<1>2. /\ \A e \in Entries : tag[e] = CACHE_FREE /\ ~dirty[e]
      /\ disk = latest /\ life = "down" /\ app = NoRequest /\ fl = NoFlush /\ nor = NoWrite
  BY DEF Init
<1>3. CachedInv
  BY <1>2 DEF CachedInv, NoAlias, Covers, Hit
<1> QED
  BY <1>1, <1>2, <1>3, IdleTypes
     DEF SharedInv, RequestInv, WritingInv, DriveInv, NoRequest, NoFlush, NoWrite

\* A step that touches neither the entries' pages nor data, and of the flash
\* only what is cached.
LEMMA CachedUnchanged ==
  ASSUME CachedInv, UNCHANGED <<tag, buf, latest>>,
         \A e \in Entries : dirty'[e] => dirty[e],
         \A s \in Partition : disk'[s] = disk[s] \/ Hit(s)
  PROVE  CachedInv' /\ \A s : Hit(s)' = Hit(s)
<1>1. (\A e, s : Covers(e, s)' = Covers(e, s)) /\ \A s : Hit(s)' = Hit(s)
  BY DEF Covers, Hit
<1> QED  BY <1>1 DEF CachedInv, NoAlias

\* What App's chunk leaves of a request is in the working set.
LEMMA CopyRequest ==
  ASSUME Fitting, SharedInv, app.pc \in {"loop", "fill"}, NEW e, NEW b, Copy(e, b)
  PROVE  RequestInv' /\ app'.pc \in {"loop", "idle"}
<1> DEFINE done == Cardinality(Chunk)
<1>1. /\ app.sector \in Sectors /\ app.left \in Nat /\ Sectors \subseteq Int
      /\ app.sector \in WorkingSet /\ app.sector + app.left - 1 \in WorkingSet
  BY WorkingFacts, NorCacheAssumption
     DEF SharedInv, TypeInv, TypeOK, RequestInv, Sectors
<1>2. done \in Nat /\ done <= app.left
  BY <1>1, ChunkSize
<1> HIDE DEF done
<1>3. app' = IF app.left = done THEN NoRequest
             ELSE [app EXCEPT !.pc = "loop", !.sector = @ + done, !.left = @ - done]
  BY DEF Copy, done
<1>4. CASE app.left = done
  BY <1>3, <1>4 DEF RequestInv, NoRequest
<1>5. CASE app.left # done
  <2>1. /\ app'.pc = "loop" /\ app'.op = app.op
        /\ app'.sector = app.sector + done /\ app'.left = app.left - done
    BY <1>3, <1>5 DEF SharedInv, TypeInv, TypeOK
  <2>2. /\ app'.sector \in Int /\ app.sector <= app'.sector
        /\ app'.sector <= app.sector + app.left - 1
        /\ app'.sector + app'.left - 1 = app.sector + app.left - 1
    <3> DEFINE x == app.sector
               n == app.left
    <3>1. /\ x \in Int /\ n \in Nat /\ done < n
          /\ app'.sector = x + done /\ app'.left = n - done
      <4>1. x \in Int /\ n \in Nat
        BY <1>1
      <4>2. done < n
        BY <1>2, <1>5, <4>1
      <4> QED  BY <2>1, <4>1, <4>2
    <3> HIDE DEF x, n
    <3>2. /\ app'.sector \in Int /\ x <= app'.sector /\ app'.sector <= x + n - 1
          /\ app'.sector + app'.left - 1 = x + n - 1
      BY <1>2, <3>1
    <3> QED  BY <3>2 DEF x, n
  <2>3. app'.sector \in WorkingSet
    BY <1>1, <2>2, WorkingFacts
  <2> QED  BY <1>1, <2>1, <2>2, <2>3 DEF SharedInv, RequestInv
<1> QED  BY <1>4, <1>5

\* A request served from the cache.
LEMMA SharedHitStep ==
  ASSUME Fitting, SharedInv, CacheHit
  PROVE  CachedInv' /\ RequestInv' /\ WritingInv' /\ DriveInv'
<1>1. PICK e \in Entries : Covers(e, app.sector) /\ Copy(e, buf[e])
  BY FirstEntry DEF CacheHit
<1>2. app.sector \in Sectors /\ tag[e] = PageOf(app.sector) /\ buf[e] \in [Offsets -> Cell]
  BY <1>1, PageArithmetic DEF Covers, SectorsOf, SharedInv, TypeInv, TypeOK
<1>3. UNCHANGED <<tag, disk, nor, fl, life>> /\ app.pc = "loop"
  BY DEF CacheHit
<1>4. (\A x, s : Covers(x, s)' = Covers(x, s)) /\ \A s : Hit(s)' = Hit(s)
  BY <1>3 DEF Covers, Hit
<1>5. \A s \in SectorsOf(tag[e]) : s \in Sectors /\ Covers(e, s)
  BY <1>1, PageArithmetic DEF Covers
<1>6. CachedInv'
  <2>1. NoAlias' /\ \A x \in Entries : dirty[x] => tag'[x] # CACHE_FREE
    BY <1>3 DEF SharedInv, CachedInv, NoAlias
  <2>2. /\ \A x \in Entries, s \in Sectors :
             x # e /\ Covers(x, s)' => buf[x][OffsetOf(s)] = latest[s]
        /\ \A s \in SectorsOf(tag'[e]) : buf[e][OffsetOf(s)] = latest[s]
    BY <1>1, <1>3, <1>4, <1>5 DEF SharedInv, CachedInv
  <2>3. Copied(e)
    BY <1>1, <1>2, <1>3, <2>1, <2>2, CopyPages DEF SharedInv
  <2>4. \A s \in Partition : disk'[s] # latest'[s] => Hit(s)'
    <3> SUFFICES ASSUME NEW s \in Partition, disk'[s] # latest'[s] PROVE Hit(s)'
      OBVIOUS
    <3>1. CASE latest'[s] # latest[s]
      BY <1>1, <2>3, <3>1, PageArithmetic DEF Copied, Hit, Covers
    <3>2. CASE latest'[s] = latest[s]
      BY <1>3, <1>4, <3>2 DEF SharedInv, CachedInv
    <3> QED  BY <3>1, <3>2
  <2> QED  BY <1>3, <2>1, <2>3, <2>4 DEF SharedInv, CachedInv, Copied
<1>7. RequestInv'
  BY <1>1, <1>3, CopyRequest
<1> QED  BY <1>3, <1>6, <1>7 DEF SharedInv, WritingInv, DriveInv

\* Reading a page into a free entry, beside a flush of others.
LEMMA SharedFillStep ==
  ASSUME Fitting, SharedInv, Fill
  PROVE  CachedInv' /\ RequestInv' /\ WritingInv' /\ DriveInv'
<1>0. PICK v \in Entries : v = app.ent
  BY DEF SharedInv, TypeInv, TypeOK
<1> DEFINE p == PageOf(app.sector)
           b == [o \in Offsets |->
                   IF \E s \in SectorsOf(p) : OffsetOf(s) = o
                   THEN disk[CHOOSE s \in SectorsOf(p) : OffsetOf(s) = o]
                   ELSE buf[v][o]]
<1>1. /\ app.pc = "fill" /\ ~Hit(app.sector) /\ tag[v] = CACHE_FREE /\ nor.by = Nobody
      /\ tag' = [tag EXCEPT ![v] = p] /\ Copy(v, b)
      /\ UNCHANGED <<disk, nor, fl, life>>
  BY <1>0 DEF Fill, SharedInv, RequestInv
<1>2. /\ v \in Entries /\ app.sector \in WorkingSet /\ app.sector \in Sectors
      /\ app.sector < endOfPartition /\ p \in WorkingPages
  BY <1>1, WorkingFacts DEF SharedInv, RequestInv, TypeInv, TypeOK, WorkingPages
<1>3. b \in [Offsets -> Cell]
  BY <1>2, PageDataType DEF SharedInv, TypeInv
<1>4. /\ \A s \in SectorsOf(p) : disk[s] = latest[s]
      /\ \A x \in Entries : tag[x] # p
  BY <1>1, <1>2, UncachedPage DEF SharedInv, CachedInv
<1>5. \A s \in SectorsOf(p) : b[OffsetOf(s)] = latest[s]
  <2>1. ASSUME NEW s \in SectorsOf(p) PROVE b[OffsetOf(s)] = disk[s]
    BY SectorAt
  <2> HIDE DEF b
  <2> QED  BY <1>4, <2>1
<1>6. /\ tag'[v] = p /\ p # CACHE_FREE
      /\ \A x \in Entries : x # v => tag'[x] = tag[x]
  BY <1>1, <1>2, PageArithmetic DEF SharedInv, TypeInv, TypeOK
<1> HIDE DEF b
<1>7. /\ \A s : \A x \in Entries : x # v => Covers(x, s)' = Covers(x, s)
      /\ \A s : Hit(s) => Hit(s)'
  BY <1>1, <1>6 DEF Covers, Hit
<1>8. CachedInv'
  <2>1. NoAlias'
    BY <1>4, <1>6 DEF SharedInv, CachedInv, NoAlias
  <2>2. \A x \in Entries : dirty[x] => tag'[x] # CACHE_FREE
    BY <1>6 DEF SharedInv, CachedInv
  <2>3. \A x \in Entries, s \in Sectors :
          x # v /\ Covers(x, s)' => buf[x][OffsetOf(s)] = latest[s]
    BY <1>7 DEF SharedInv, CachedInv
  <2>4. \A x \in Entries : tag'[x] \in WorkingPages \union {CACHE_FREE}
    BY <1>2, <1>6 DEF SharedInv, CachedInv
  <2> HIDE DEF p
  <2>5. \A s \in SectorsOf(tag'[v]) : b[OffsetOf(s)] = latest[s]
    BY <1>5, <1>6
  <2>6. tag'[v] = PageOf(app.sector)
    BY <1>6 DEF p
  <2>7. Copied(v)
    BY <1>1, <1>2, <1>3, <2>1, <2>2, <2>3, <2>5, <2>6, CopyPages DEF SharedInv
  <2>8. \A s \in Partition : disk'[s] # latest'[s] => Hit(s)'
    <3> SUFFICES ASSUME NEW s \in Partition, disk'[s] # latest'[s] PROVE Hit(s)'
      OBVIOUS
    <3>1. CASE latest'[s] # latest[s]
      BY <1>2, <2>7, <3>1, PageArithmetic DEF Copied, Hit, Covers
    <3>2. CASE latest'[s] = latest[s]
      BY <1>1, <1>7, <3>2 DEF SharedInv, CachedInv
    <3> QED  BY <3>1, <3>2
  <2> QED  BY <2>1, <2>4, <2>7, <2>8 DEF CachedInv, Copied
<1>9. RequestInv'
  BY <1>1, CopyRequest
<1>10. WritingInv'
  <2>1. fl.by # Nobody /\ fl.pc = "write" => fl.i \in Entries /\ fl.i # v
    BY <1>1 DEF SharedInv, WritingInv, TypeInv
  <2> QED  BY <1>1, <1>6, <2>1 DEF SharedInv, WritingInv
<1>11. DriveInv'
  BY <1>1 DEF SharedInv, DriveInv
<1> QED  BY <1>8, <1>9, <1>10, <1>11

\* Every other step of the file system's thread.
LEMMA SharedAppStep ==
  ASSUME Fitting, SharedInv,
         \/ Mount \/ Request \/ CacheMiss \/ EvictDone
         \/ FlushReturns \/ Invalidate \/ FreeCache \/ DisableFlush
  PROVE  CachedInv' /\ RequestInv' /\ WritingInv' /\ DriveInv'
<1> USE DEF SharedInv
<1>1. CASE Mount
  <2>1. /\ life = "down" /\ life' = "up" /\ EmptyCache
        /\ UNCHANGED <<disk, nor, app, fl, latest>>
    BY <1>1 DEF Mount
  <2>2. \A e \in Entries : tag[e] = CACHE_FREE /\ tag'[e] = CACHE_FREE /\ ~dirty'[e]
    BY <2>1 DEF DriveInv, EmptyCache
  <2>3. CachedInv'
    BY <2>1, <2>2 DEF CachedInv, NoAlias, Covers, Hit
  <2> QED  BY <2>1, <2>3 DEF RequestInv, WritingInv, DriveInv
<1>2. CASE Request
  <2> DEFINE Asked ==
        /\ UNCHANGED <<tag, dirty, buf, disk, nor, fl, life, latest>>
        /\ life = "up" /\ app'.pc \in {"loop", "flush"}
        /\ app'.op \in {"read", "write", "flush"}
        /\ app'.pc = "loop" =>
             app'.sector \in AppSectors /\ app'.sector + app'.left - 1 \in AppSectors
  <2>1. Asked
    <3>1. ASSUME NEW s \in AppSectors, NEW n \in 1 .. MaxSpan, s + n - 1 \in AppSectors,
                 ReadRequest(s, n) \/ WriteRequest(s, n)
          PROVE  Asked
      BY <3>1 DEF ReadRequest, WriteRequest, NoRequest, cacheVars
    <3>2. ASSUME NEW op \in {"flush", "invalidate", "release"}, FlushRequest(op)
          PROVE  Asked
      BY <3>2 DEF FlushRequest, NoRequest, cacheVars, Fitting
    <3> QED  BY <1>2, <3>1, <3>2 DEF Request
  <2>2. CachedInv'
    BY <2>1, CachedUnchanged
  <2> QED  BY <2>1, <2>2, WorkingFacts DEF RequestInv, WritingInv, DriveInv
<1>3. CASE CacheMiss
  <2>1. /\ app.pc = "loop" /\ ~Hit(app.sector) /\ app.sector \in WorkingSet
        /\ UNCHANGED <<tag, dirty, buf, disk, nor, fl, life, latest>>
    BY <1>3 DEF CacheMiss, RequestInv, cacheVars
  <2>2. PICK v \in Entries :
          /\ IsVictim(v)
          /\ app' = [app EXCEPT !.ent = v,
                       !.pc = IF tag[v] # CACHE_FREE /\ dirty[v] THEN "evict" ELSE "fill"]
    BY <1>3 DEF CacheMiss
  <2>3. tag[v] = CACHE_FREE
    BY <2>1, <2>2, FreeEntry DEF IsVictim
  <2>4. /\ app'.pc = "fill" /\ app'.ent = v /\ app'.op = app.op
        /\ app'.sector = app.sector /\ app'.left = app.left
    BY <2>2, <2>3 DEF TypeInv, TypeOK
  <2>5. CachedInv' /\ \A s : Hit(s)' = Hit(s)
    BY <2>1, CachedUnchanged
  <2>6. ~Hit(app.sector)'
    BY <2>1, <2>4 DEF Hit, Covers
  <2> QED  BY <2>1, <2>3, <2>4, <2>5, <2>6 DEF RequestInv, WritingInv, DriveInv
<1>4. CASE FlushReturns
  <2>1. app' = NoRequest /\ UNCHANGED <<tag, dirty, buf, disk, nor, fl, life, latest>>
    BY <1>4 DEF FlushReturns, cacheVars
  <2>2. CachedInv'
    BY <2>1, CachedUnchanged
  <2> QED  BY <2>1, <2>2 DEF RequestInv, WritingInv, DriveInv, NoRequest
<1>5. CASE EvictDone \/ Invalidate \/ FreeCache \/ DisableFlush
  BY <1>5 DEF EvictDone, Invalidate, FreeCache, DisableFlush, RequestInv, DriveInv
<1> QED  BY <1>1, <1>2, <1>3, <1>4, <1>5

\* The steps of a flush, of either thread, and of the flash driver.
LEMMA SharedFlushStep ==
  ASSUME Fitting, SharedInv,
         \/ \E t \in {App, Idle} : FlushLock(t) \/ NorErase(t) \/ NorFails(t)
         \/ FlushStep \/ NorProgram \/ NorDone
  PROVE  CachedInv' /\ RequestInv' /\ WritingInv' /\ DriveInv'
<1> USE DEF SharedInv
<1>1. CASE \E t \in {App, Idle} : FlushLock(t)
  <2>1. PICK t \in {App, Idle} : FlushLock(t)
    BY <1>1
  <2>2. /\ fl'.pc = "check" /\ life # "down"
        /\ UNCHANGED <<tag, dirty, buf, disk, nor, app, life, latest>>
    BY <2>1 DEF FlushLock, NoFlush, cacheVars
  <2>3. CachedInv' /\ \A s : Hit(s)' = Hit(s)
    BY <2>2, CachedUnchanged
  <2> QED  BY <2>2, <2>3 DEF RequestInv, WritingInv, DriveInv, Hit, Covers
<1>2. CASE FlushCheck
  <2>1. fl.i \in Entries
    BY <1>2, NorCacheAssumption DEF FlushCheck, TypeInv, TypeOK, Entries
  <2>2. /\ life = "up" /\ UNCHANGED <<tag, dirty, buf, disk, nor, app, life, latest>>
        /\ \/ dirty[fl.i] /\ fl' = [fl EXCEPT !.pc = "write", !.page = tag[fl.i]]
           \/ fl' = [fl EXCEPT !.pc = "clear"]
    BY <1>2 DEF FlushCheck, cacheVars
  <2>3. CachedInv' /\ \A s : Hit(s)' = Hit(s)
    BY <2>2, CachedUnchanged
  <2>4. fl'.pc = "write" => fl'.page = tag[fl'.i] /\ tag[fl'.i] # CACHE_FREE
    <3>1. CASE dirty[fl.i] /\ fl' = [fl EXCEPT !.pc = "write", !.page = tag[fl.i]]
      <4>1. fl'.page = tag[fl.i] /\ fl'.i = fl.i
        BY <3>1 DEF TypeInv, TypeOK
      <4> QED  BY <2>1, <3>1, <4>1 DEF CachedInv
    <3>2. CASE fl' = [fl EXCEPT !.pc = "clear"]
      BY <3>2 DEF TypeInv, TypeOK
    <3> QED  BY <2>2, <3>1, <3>2
  <2>5. RequestInv'
    BY <2>2, <2>3 DEF RequestInv, Hit, Covers
  <2>6. WritingInv'
    BY <2>2, <2>4 DEF WritingInv
  <2>7. DriveInv'
    BY <2>2 DEF DriveInv
  <2> QED  BY <2>3, <2>5, <2>6, <2>7
<1>3. CASE FlushClear
  <2>1. /\ fl'.pc = "check" /\ life = "up"
        /\ UNCHANGED <<tag, buf, disk, nor, app, life, latest>>
        /\ \A e \in Entries : dirty'[e] => dirty[e]
    BY <1>3 DEF FlushClear, TypeInv, TypeOK
  <2>2. CachedInv' /\ \A s : Hit(s)' = Hit(s)
    BY <2>1, CachedUnchanged
  <2> QED  BY <2>1, <2>2 DEF RequestInv, WritingInv, DriveInv, Hit, Covers
\* The end of a flush, or a failure in it: App goes on behind it.
<1>4. ASSUME UNCHANGED <<tag, dirty, buf, disk, life, latest>>,
             fl' = NoFlush \/ (fl'.by = fl.by /\ fl'.pc = "clear"),
             \/ app' = app
             \/ fl.by = App /\ app' = [app EXCEPT !.pc = "after"],
             nor' \in {nor, NoWrite}
      PROVE  CachedInv' /\ RequestInv' /\ WritingInv' /\ DriveInv'
  <2>1. CachedInv' /\ \A s : Hit(s)' = Hit(s)
    BY <1>4, CachedUnchanged
  <2>2. app' = app \/ (fl.by = App /\ app'.pc = "after" /\ app'.op = app.op)
    BY <1>4 DEF TypeInv, TypeOK
  <2>3. app' = app => Hit(app.sector)' = Hit(app.sector)
    BY <1>4 DEF Hit, Covers
  <2>4. RequestInv'
    BY <1>4, <2>2, <2>3 DEF RequestInv
  <2>5. fl'.by \in {fl.by, Nobody} /\ nor'.by \in {nor.by, Nobody} /\ fl'.pc # "write"
    BY <1>4, IdleTypes
  <2>6. WritingInv'
    BY <1>4, <2>5, IdleTypes DEF WritingInv
  <2>7. DriveInv'
    BY <1>4, <2>2, <2>5 DEF DriveInv
  <2> QED  BY <2>1, <2>4, <2>6, <2>7
<1>5. CASE FlushEnd
  BY <1>4, <1>5 DEF FlushEnd, FlushUnlock, cacheVars
<1>6. ASSUME NEW t \in {App, Idle}, NEW ok \in BOOLEAN, NorReturn(t, ok), Flushing(t),
             nor' = NoWrite, UNCHANGED <<cacheVars, disk, life, latest>>
      PROVE  CachedInv' /\ RequestInv' /\ WritingInv' /\ DriveInv'
  <2>1. ~Evicting(t)
    BY DEF RequestInv
  <2>2. \/ app' = app /\ fl' = [fl EXCEPT !.pc = "clear"]
        \/ /\ fl' = NoFlush
           /\ app' = IF fl.by = App THEN [app EXCEPT !.pc = "after"] ELSE app
    BY <1>6, <2>1 DEF NorReturn, FlushUnlock
  <2>3. fl' = NoFlush \/ (fl'.by = fl.by /\ fl'.pc = "clear")
    BY <2>2 DEF TypeInv, TypeOK
  <2> QED  BY <1>4, <1>6, <2>2, <2>3 DEF cacheVars
<1>7. ASSUME nor.by # Nobody PROVE nor.by \in {App, Idle} /\ Flushing(nor.by)
  BY <1>7 DEF TypeInv, TypeOK, RequestInv
<1>8. CASE NorDone
  BY <1>6, <1>7, <1>8 DEF NorDone
<1>9. ASSUME NEW t \in {App, Idle}, NorFails(t)
      PROVE  CachedInv' /\ RequestInv' /\ WritingInv' /\ DriveInv'
  <2>1. Flushing(t)
    BY <1>7, <1>9 DEF NorFails, RequestInv
  <2> QED  BY <1>6, <1>9, <2>1 DEF NorFails
<1>10. ASSUME NEW t \in {App, Idle}, NorErase(t)
       PROVE  CachedInv' /\ RequestInv' /\ WritingInv' /\ DriveInv'
  <2>1. fl.by = t /\ fl.pc = "write" /\ ~Evicting(t)
    BY <1>10 DEF NorErase, RequestInv
  <2>2. fl.i \in Entries /\ fl.page = tag[fl.i] /\ fl.page # CACHE_FREE
    BY <2>1 DEF TypeInv, WritingInv
  <2>3. /\ nor' = [by |-> t, ent |-> fl.i, todo |-> SectorsOf(tag[fl.i])]
        /\ disk' = [s \in Sectors |-> IF s \in BlockOf(tag[fl.i]) THEN Torn ELSE disk[s]]
        /\ UNCHANGED <<tag, dirty, buf, app, fl, life, latest>>
    BY <1>10, <2>1, <2>2 DEF NorErase, cacheVars
  <2>e. \A s \in Partition : disk'[s] = IF s \in SectorsOf(tag[fl.i]) THEN Torn ELSE disk[s]
    BY <2>3, EraseInPartition
  <2>4. \A s \in Partition : disk'[s] = disk[s] \/ Hit(s)
    BY <2>2, <2>e DEF Hit, Covers
  <2>5. CachedInv' /\ \A s : Hit(s)' = Hit(s)
    BY <2>3, <2>4, CachedUnchanged
  <2> QED  BY <2>1, <2>2, <2>3, <2>5 DEF RequestInv, WritingInv, DriveInv, Hit, Covers
<1>11. CASE NorProgram
  <2>1. PICK s \in nor.todo :
          /\ disk' = [disk EXCEPT ![s] = buf[nor.ent][OffsetOf(s)]]
          /\ nor' = [nor EXCEPT !.todo = @ \ {s}]
    BY <1>11 DEF NorProgram
  <2>2. nor.by # Nobody /\ UNCHANGED <<tag, dirty, buf, app, fl, life, latest>>
    BY <1>11 DEF NorProgram, cacheVars
  <2>3. /\ s \in Sectors /\ Hit(s)
        /\ nor'.by = nor.by /\ nor'.ent = nor.ent /\ nor'.todo \subseteq nor.todo
    BY <2>1, <2>2 DEF WritingInv, TypeInv, TypeOK, Hit, Covers
  <2>4. \A r \in Partition : disk'[r] = disk[r] \/ Hit(r)
    BY <2>1, <2>3, PageArithmetic DEF TypeInv, TypeOK
  <2>5. CachedInv' /\ \A r : Hit(r)' = Hit(r)
    BY <2>2, <2>4, CachedUnchanged
  <2> QED  BY <2>2, <2>3, <2>5 DEF RequestInv, WritingInv, DriveInv, Hit, Covers
<1> QED  BY <1>1, <1>2, <1>3, <1>5, <1>8, <1>9, <1>10, <1>11 DEF FlushStep

\* A read that fails leaves a free entry free.
LEMMA SharedFaultStep ==
  ASSUME Fitting, SharedInv, (\E k \in Offsets : FillFails(k)) \/ PowerLoss
  PROVE  CachedInv' /\ RequestInv' /\ WritingInv' /\ DriveInv'
<1> USE DEF SharedInv
<1>1. CASE \E k \in Offsets : FillFails(k)
  <2>1. /\ app.pc = "fill" /\ app' = NoRequest
        /\ \A e \in Entries : e # app.ent => buf'[e] = buf[e]
        /\ UNCHANGED <<tag, dirty, disk, nor, fl, life, latest>>
    BY <1>1 DEF FillFails, TypeInv, TypeOK
  <2>2. tag[app.ent] = CACHE_FREE
    BY <2>1 DEF RequestInv
  <2>3. (\A e, s : Covers(e, s)' = Covers(e, s)) /\ \A s : Hit(s)' = Hit(s)
    BY <2>1 DEF Covers, Hit
  <2>4. CachedInv'
    BY <2>1, <2>2, <2>3 DEF CachedInv, NoAlias, Covers
  <2> QED  BY <2>1, <2>4 DEF RequestInv, WritingInv, DriveInv, NoRequest
<1>2. CASE PowerLoss
  <2>1. /\ EmptyCache /\ latest' = disk /\ disk' = disk
        /\ nor' = NoWrite /\ app' = NoRequest /\ fl' = NoFlush /\ life' = "down"
    BY <1>2 DEF PowerLoss
  <2>2. \A e \in Entries : tag'[e] = CACHE_FREE /\ ~dirty'[e]
    BY <2>1 DEF EmptyCache
  <2>3. CachedInv'
    BY <2>1, <2>2 DEF CachedInv, NoAlias, Covers, Hit
  <2> QED
    BY <2>1, <2>2, <2>3
       DEF RequestInv, WritingInv, DriveInv, NoRequest, NoFlush, NoWrite
<1> QED  BY <1>1, <1>2

LEMMA NextShared == Fitting /\ SharedInv /\ [Next]_vars => SharedInv'
<1> SUFFICES ASSUME Fitting, SharedInv, [Next]_vars PROVE SharedInv'
  OBVIOUS
<1>1. TypeInv'
  BY NextType DEF SharedInv
<1>2. CASE UNCHANGED vars
  <2>1. UNCHANGED <<tag, dirty, buf, disk, nor, app, fl, life, latest>>
    BY <1>2 DEF vars
  <2>2. CachedInv'
    BY <2>1, CachedUnchanged DEF SharedInv
  <2> QED
    BY <1>1, <2>1, <2>2 DEF SharedInv, RequestInv, WritingInv, DriveInv, Hit, Covers
<1>3. CASE Next
  <2>1. CachedInv' /\ RequestInv' /\ WritingInv' /\ DriveInv'
    BY <1>3, SharedHitStep, SharedFillStep, SharedAppStep, SharedFlushStep, SharedFaultStep
       DEF Next, AppStep, NorStep, Fault
  <2> QED  BY <1>1, <2>1 DEF SharedInv
<1> QED  BY <1>2, <1>3

\* Beside the idle flusher, a file system whose working set fits in the cache
\* reads the last data written, although the flusher looks at and clears dirty
\* flags without a lock, and although page reads and writes fail.
THEOREM ReadsBesideFlusher == Fitting => (Spec => []CacheHoldsLatest)
<1> SUFFICES ASSUME Fitting PROVE Spec => []CacheHoldsLatest
  OBVIOUS
<1>1. SharedInv => CacheHoldsLatest
  BY ViewIsLatest DEF SharedInv, TypeInv, CachedInv
<1> QED  BY <1>1, InitShared, NextShared, PTL DEF Spec
=============================================================================
