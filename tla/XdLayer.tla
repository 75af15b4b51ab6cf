------------------------------ MODULE XdLayer ------------------------------
(***************************************************************************)
(* The translation layer of the xD card (driver/xd/xd_mlayer.c) over the   *)
(* card driver (driver/xd/xd.c).                                           *)
(*                                                                         *)
(* The card is divided into zones.  A write of some sectors of a logical   *)
(* block takes an erased block from a heap, copies the old block into it   *)
(* page by page with the new sectors in place, erases the old block, and   *)
(* points the translation table at the new one.  The table and the heap    *)
(* describe one zone and are rebuilt, by scanning the zone's blocks, when  *)
(* another zone is used and after a restart: the logical address in the    *)
(* spare area of a page is all that survives.                              *)
(*                                                                         *)
(* One request runs at a time.  A card operation that times out fails      *)
(* (XD_ERROR); its effect on the flash is one of the possible ones.  An    *)
(* ECC error is no failure: XD_ReadPage ends with XD_OK or XD_ERASED.      *)
(*                                                                         *)
(* Block n of zone z is block z * 0x400 + n of the card; the code keeps n  *)
(* (& 0x3FF) in the table and the heap and adds z * 0x400 to use the card. *)
(* A page is [la, data]: the logical address in its spare area and its     *)
(* data, which is the number of the write request that produced it.        *)
(***************************************************************************)
EXTENDS Integers, FiniteSets

CONSTANTS
  NumZones,    \* zones of the card
  Physical,    \* XD_PHYSIC_BLOCK_PER_ZONE
  Logical,     \* XD_LOGIC_BLOCK_PER_ZONE
  PerBlock,    \* XD_PAGEPERBLOCK
  CisBlock,    \* g_CisBlock: the blocks up to it are not used
  MaxSpan,     \* bound: most sectors of one request
  Restarts,    \* TRUE: the drive is released and initialised while idle
  Faults,      \* the card operations that may fail
  CrashAt,     \* the points of a request at which the power may go
  MaxWrites,   \* bound: write requests
  MaxFaults,   \* bound: failed card operations
  MaxCrashes   \* bound: power losses

FaultKinds == {"read", "spare", "program", "erase", "removed", "memory"}
Points     == {"idle", "map", "scan", "go", "program"}

ASSUME XdAssumption ==
  /\ NumZones \in Nat \ {0} /\ Logical \in Nat \ {0} /\ PerBlock \in Nat \ {0}
  /\ CisBlock \in Nat /\ Physical \in Nat
  /\ CisBlock + 1 < Physical
  /\ MaxSpan \in Nat \ {0}
  /\ Restarts \in BOOLEAN
  /\ Faults \subseteq FaultKinds
  /\ CrashAt \subseteq Points
  /\ MaxWrites \in Nat /\ MaxFaults \in Nat /\ MaxCrashes \in Nat

VARIABLES
  flash,     \* zone -> block of the zone -> page -> what it holds
  table,     \* g_TranslationTable: logical block -> block of the zone, or None
  free,      \* g_pXdEraseBlockHeap: block of the zone -> occurrences in the heap
  lastZone,  \* g_LastUseZone, or None
  scan,      \* GenerateTranslationTable: zone, next block
  req,       \* the request and where it is
  maybe,     \* history: sector -> the data a read of it may return
  writes, faults, crashes   \* counts, for the bounds

bounds == <<writes, faults, crashes>>
ram    == <<table, free, lastZone, scan>>
vars   == <<flash, table, free, lastZone, scan, req, maybe, writes, faults, crashes>>
-----------------------------------------------------------------------------
Numbers  == 0 .. (Physical - 1)              \* a block's number in its zone
LogicalBlocks == 0 .. (Logical - 1)
Pages    == 0 .. (PerBlock - 1)
Zones    == 0 .. (NumZones - 1)
Sectors  == 0 .. (NumZones * Logical * PerBlock - 1)   \* xddrv_getphy

None   == -1     \* XD_INVALID_BLOCK_NUMBER, XD_INVALID_ZONE_NUMBER
NoLa   == -1     \* spare area all ones
BadLa  == -2     \* spare area from which GetLogicalAddress gets nothing
Blank  == 0      \* 0xFF, erased or never written
Filler == -1     \* 0x55
Junk   == -2     \* a half programmed page
Data   == (0 .. MaxWrites) \union {Filler, Junk}

Page     == [la : LogicalBlocks \union {NoLa, BadLa}, data : Data]
ErasedPage == [la |-> NoLa, data |-> Blank]
ErasedBlock == [p \in Pages |-> ErasedPage]

ZoneOf(s) == (s \div PerBlock) \div Logical
LbOf(s)   == (s \div PerBlock) % Logical
PageOf(s) == s % PerBlock

\* The first block GenerateTranslationTable looks at.
StartBlock(z) == IF z = 0 THEN CisBlock + 1 ELSE 0

NoTable == [l \in LogicalBlocks |-> None]
NoHeap  == [n \in Numbers |-> 0]
NoScan  == [zone |-> 0, i |-> 0, phy |-> None]
\* pages: how many pages of the block the current round of a write replaces;
\* ok: whether the last request succeeded, once idle.
NoRequest == [pc |-> "idle", op |-> "read", multi |-> FALSE, sector |-> 0, left |-> 0,
              data |-> 0, old |-> None, new |-> None, page |-> 0, pages |-> 0,
              ok |-> TRUE]

Insert(n) == free' = [free EXCEPT ![n] = @ + 1]     \* XD_HeapInsertElement

Init ==
  /\ flash = [z \in Zones |-> [n \in Numbers |-> ErasedBlock]]
  /\ table = NoTable
  /\ free = NoHeap
  /\ lastZone = None
  /\ scan = NoScan
  /\ req = NoRequest
  /\ maybe = [s \in Sectors |-> {Blank}]
  /\ writes = 0 /\ faults = 0 /\ crashes = 0
-----------------------------------------------------------------------------
\* A card operation of the given kind fails.
Fault(kind) ==
  /\ kind \in Faults
  /\ faults < MaxFaults
  /\ faults' = faults + 1

\* xddrv_readsector, xddrv_readmultiplesector.
ReadRequest(s, n, multi) ==
  /\ req.pc = "idle"
  /\ req' = [NoRequest EXCEPT !.pc = "map", !.multi = multi, !.sector = s, !.left = n]
  /\ UNCHANGED <<flash, ram, maybe, bounds>>

\* xddrv_writesector, xddrv_writemultiplesector.
WriteRequest(s, n, multi) ==
  /\ req.pc = "idle"
  /\ writes < MaxWrites
  /\ writes' = writes + 1
  /\ req' = [NoRequest EXCEPT !.pc = "map", !.op = "write", !.multi = multi,
               !.sector = s, !.left = n, !.data = writes + 1]
  /\ maybe' = [x \in Sectors |-> IF x \in s .. (s + n - 1)
                                 THEN maybe[x] \union {writes + 1} ELSE maybe[x]]
  /\ UNCHANGED <<flash, ram, faults, crashes>>

\* The request returns.
Returned(ok) == [NoRequest EXCEPT !.ok = ok]

\* The request's current sector fails.  xddrv_readmultiplesector breaks out of
\* its loop and then reads the last sector, whose result it returns.
Fail ==
  req' = IF req.op = "read" /\ req.left > 1
         THEN [req EXCEPT !.pc = "map", !.sector = @ + req.left - 1, !.left = 1,
                          !.old = None]
         ELSE Returned(FALSE)
-----------------------------------------------------------------------------
(***************************************************************************)
(* Finding the block of a sector, GenerateTranslationTable if need be.     *)
(***************************************************************************)

LookUp ==
  /\ req.pc = "map" /\ ZoneOf(req.sector) = lastZone
  /\ req' = [req EXCEPT !.pc = "go", !.old = table[LbOf(req.sector)]]
  /\ UNCHANGED <<flash, ram, maybe, bounds>>

ScanStart ==
  /\ req.pc = "map" /\ ZoneOf(req.sector) # lastZone
  /\ req' = [req EXCEPT !.pc = "scan"]
  /\ scan' = [zone |-> ZoneOf(req.sector), i |-> StartBlock(ZoneOf(req.sector)),
              phy |-> None]
  /\ table' = NoTable
  /\ free' = NoHeap
  /\ UNCHANGED <<flash, lastZone, maybe, bounds>>

\* The new heap cannot be allocated: the old one is gone, the table and
\* g_LastUseZone are still those of the zone used before.
NoMemory ==
  /\ req.pc = "map" /\ ZoneOf(req.sector) # lastZone
  /\ Fault("memory")
  /\ free' = NoHeap
  /\ Fail
  /\ UNCHANGED <<flash, table, lastZone, scan, maybe, writes, crashes>>

Scanning == req.pc = "scan" /\ scan.i < Physical
Scanned(p) == flash[scan.zone][scan.i][p].la
ScanNext == scan' = [scan EXCEPT !.i = @ + 1]

\* Mutant: an erased block does not get into the heap.
ScanErased_NotStored ==
  /\ Scanning /\ Scanned(0) = NoLa
  /\ ScanNext
  /\ UNCHANGED <<flash, table, free, lastZone, req, maybe, bounds>>

\* XD_ERASED: the block goes to the heap.
ScanErased ==
  /\ Scanning /\ Scanned(0) = NoLa
  /\ Insert(scan.i)
  /\ ScanNext
  /\ UNCHANGED <<flash, table, lastZone, req, maybe, bounds>>

\* No logical address: the block is skipped.
ScanBad ==
  /\ Scanning /\ Scanned(0) = BadLa
  /\ ScanNext
  /\ UNCHANGED <<flash, table, free, lastZone, req, maybe, bounds>>

\* The first block found with its logical address is mapped.
ScanMaps ==
  /\ Scanning
  /\ LET l == Scanned(0) IN
       /\ l \in LogicalBlocks /\ table[l] = None
       /\ table' = [table EXCEPT ![l] = scan.i]
       /\ scan' = [scan EXCEPT !.i = @ + 1,
                     !.phy = IF l = LbOf(req.sector) /\ @ = None THEN scan.i ELSE @]
  /\ UNCHANGED <<flash, free, lastZone, req, maybe, bounds>>

Duplicate(l) == Scanned(0) = l /\ l \in LogicalBlocks /\ table[l] # None

\* Mutant: of two blocks the one in the table is erased.
Victim_Mapped(l) == "mapped"

\* Which of two blocks with the same logical address l is erased: the mapped
\* one only if it has two addresses, and none if one of them is unfinished.
\* The number in the table is read as that of a block of zone 0.
Victim(l) ==
  LET last  == Scanned(PerBlock - 1)
      kept0 == flash[0][table[l]][0].la
      keptN == flash[0][table[l]][PerBlock - 1].la IN
  IF last \notin LogicalBlocks THEN "none"
  ELSE IF last # l THEN "scanned"
  ELSE IF kept0 \notin LogicalBlocks \/ keptN \notin LogicalBlocks THEN "none"
  ELSE IF kept0 = keptN THEN "scanned" ELSE "mapped"

\* The block that goes: its zone and its number there.
GoesZone(l)   == IF Victim(l) = "scanned" THEN scan.zone ELSE 0
GoesNumber(l) == IF Victim(l) = "scanned" THEN scan.i ELSE table[l]

\* The block that stays is the one in the table.
Keep(l) == table' = IF Victim(l) = "mapped" THEN [table EXCEPT ![l] = scan.i] ELSE table

ScanLeaves(l) ==
  /\ Scanning /\ Duplicate(l) /\ Victim(l) = "none"
  /\ ScanNext
  /\ UNCHANGED <<flash, table, free, lastZone, req, maybe, bounds>>

ScanErases(l) ==
  /\ Scanning /\ Duplicate(l) /\ Victim(l) # "none"
  /\ flash' = [flash EXCEPT ![GoesZone(l)][GoesNumber(l)] = ErasedBlock]
  /\ Insert(GoesNumber(l))
  /\ Keep(l)
  /\ ScanNext
  /\ UNCHANGED <<lastZone, req, maybe, bounds>>

\* XD_Erase fails, with or without effect.
ScanEraseFails(l) ==
  /\ Scanning /\ Duplicate(l) /\ Victim(l) # "none"
  /\ Fault("erase")
  /\ \/ UNCHANGED flash
     \/ flash' = [flash EXCEPT ![GoesZone(l)][GoesNumber(l)] = ErasedBlock]
  /\ Keep(l)
  /\ ScanNext
  /\ UNCHANGED <<free, lastZone, req, maybe, writes, crashes>>

\* XD_ReadSpare fails and the card is still there: the block is skipped.
ScanReadFails ==
  /\ Scanning /\ Fault("spare")
  /\ ScanNext
  /\ UNCHANGED <<flash, table, free, lastZone, req, maybe, writes, crashes>>

\* XD_ReadSpare fails because the card was removed.
ScanRemoved ==
  /\ Scanning /\ Fault("removed")
  /\ lastZone' = None
  /\ scan' = NoScan
  /\ Fail
  /\ UNCHANGED <<flash, table, free, maybe, writes, crashes>>

ScanEnd ==
  /\ req.pc = "scan" /\ scan.i = Physical
  /\ lastZone' = scan.zone
  /\ req' = [req EXCEPT !.pc = "go", !.old = scan.phy]
  /\ scan' = NoScan
  /\ UNCHANGED <<flash, table, free, maybe, bounds>>
-----------------------------------------------------------------------------
(***************************************************************************)
(* Reading.                                                                *)
(***************************************************************************)

\* What the read of the current sector gives: 0xFF if nothing is mapped.
ReadData == IF req.old = None THEN Blank
            ELSE flash[lastZone][req.old][PageOf(req.sector)].data

ReadSector ==
  /\ req.pc = "go" /\ req.op = "read"
  /\ req' = IF req.left = 1 THEN Returned(TRUE)
            ELSE [req EXCEPT !.pc = "map", !.sector = @ + 1, !.left = @ - 1,
                             !.old = None]
  /\ UNCHANGED <<flash, ram, maybe, bounds>>

\* XD_ReadPage times out.
ReadFails ==
  /\ req.pc = "go" /\ req.op = "read" /\ req.old # None
  /\ Fault("read")
  /\ Fail
  /\ UNCHANGED <<flash, ram, maybe, writes, crashes>>
-----------------------------------------------------------------------------
(***************************************************************************)
(* Writing.                                                                *)
(***************************************************************************)

\* writePageCount: the pages of the block this round of the write replaces.
RoundPages == IF PerBlock - PageOf(req.sector) > req.left
              THEN req.left ELSE PerBlock - PageOf(req.sector)

HeapEmpty == \A n \in Numbers : free[n] = 0
LeastFree(n) == free[n] > 0 /\ \A m \in Numbers : free[m] > 0 => n <= m

NoBlock ==
  /\ req.pc = "go" /\ req.op = "write" /\ HeapEmpty
  /\ Fail
  /\ UNCHANGED <<flash, ram, maybe, bounds>>

\* Mutant: the block stays in the heap.
PopBlock_Kept ==
  /\ req.pc = "go" /\ req.op = "write"
  /\ \E n \in Numbers :
       /\ LeastFree(n)
       /\ UNCHANGED free
       /\ req' = [req EXCEPT !.pc = "program", !.new = n, !.page = 0,
                    !.pages = RoundPages]
  /\ UNCHANGED <<flash, table, lastZone, scan, maybe, bounds>>

\* XD_HeapPopMinElement, and the old block is read back.
PopBlock ==
  /\ req.pc = "go" /\ req.op = "write"
  /\ \E n \in Numbers :
       /\ LeastFree(n)
       /\ free' = [free EXCEPT ![n] = @ - 1]
       /\ req' = [req EXCEPT !.pc = "program", !.new = n, !.page = 0,
                    !.pages = RoundPages]
  /\ UNCHANGED <<flash, table, lastZone, scan, maybe, bounds>>

\* XD_ReadSingle times out while the old block is read back.
ReadBackFails ==
  /\ req.pc = "go" /\ req.op = "write" /\ req.old # None /\ RoundPages < PerBlock
  /\ Fault("read")
  /\ \E n \in Numbers : LeastFree(n) /\ free' = [free EXCEPT ![n] = @ - 1]
  /\ Fail
  /\ UNCHANGED <<flash, table, lastZone, scan, maybe, writes, crashes>>

\* Mutant: the pages behind the new ones are taken from the page before.
NewPage_OffByOne ==
  [la   |-> LbOf(req.sector),
   data |-> IF req.page \in PageOf(req.sector) .. (PageOf(req.sector) + req.pages)
            THEN req.data
            ELSE IF req.old # None THEN flash[lastZone][req.old][req.page].data
            ELSE IF req.multi THEN Filler ELSE Blank]

\* What the next page of the new block is to hold.
NewPage ==
  [la   |-> LbOf(req.sector),
   data |-> IF req.page \in PageOf(req.sector) .. (PageOf(req.sector) + req.pages - 1)
            THEN req.data
            ELSE IF req.old # None THEN flash[lastZone][req.old][req.page].data
            ELSE IF req.multi THEN Filler ELSE Blank]

\* What programming pg leaves of a page: a page takes its data, and its spare
\* area, once.
Over(was, pg) ==
  [la   |-> IF was.la = NoLa THEN pg.la ELSE BadLa,
   data |-> IF was = ErasedPage THEN pg.data ELSE Junk]

\* What an interrupted programming of pg may leave: the spare area may be as it
\* was, half programmed or complete.
Torn(was, pg) == [la : IF was.la = NoLa THEN {NoLa, BadLa, pg.la} ELSE {BadLa}, data : {Junk}]

\* The page being programmed, and the card with pg in its place.
Current == flash[lastZone][req.new][req.page]
WithPage(pg) == [flash EXCEPT ![lastZone][req.new][req.page] = pg]

Programmed  == WithPage(Over(Current, NewPage))
Interrupted == {WithPage(pg) : pg \in Torn(Current, NewPage)}

ProgramPage ==
  /\ req.pc = "program" /\ req.page < PerBlock
  /\ flash' = Programmed
  /\ req' = [req EXCEPT !.page = @ + 1]
  /\ UNCHANGED <<ram, maybe, bounds>>

ProgramFails ==
  /\ req.pc = "program" /\ req.page < PerBlock
  /\ Fault("program")
  /\ flash' \in {flash, Programmed} \union Interrupted
  /\ Fail
  /\ UNCHANGED <<ram, maybe, writes, crashes>>

\* Mutants: the table keeps the block that was erased; the new block's number
\* on the card goes to the table.
Remap_Forgotten == UNCHANGED table
Remap_Unmasked  == table' = [table EXCEPT ![LbOf(req.sector)] =
                                            lastZone * Physical + req.new]

\* g_TranslationTable[pureLogicBlock] = newBlock & 0x3FF
Remap == table' = [table EXCEPT ![LbOf(req.sector)] = req.new]

\* Mutant: the next round is the same as the last.
RoundDone_NoAdvance ==
  /\ maybe' = [s \in Sectors |-> IF s \in req.sector .. (req.sector + req.pages - 1)
                                 THEN {req.data} ELSE maybe[s]]
  /\ req' = IF req.left = req.pages THEN Returned(TRUE)
            ELSE [req EXCEPT !.pc = "map"]

\* The round is complete: its sectors hold the new data; the next round.
RoundDone ==
  /\ maybe' = [s \in Sectors |-> IF s \in req.sector .. (req.sector + req.pages - 1)
                                 THEN {req.data} ELSE maybe[s]]
  /\ req' = IF req.left = req.pages THEN Returned(TRUE)
            ELSE [req EXCEPT !.pc = "map", !.sector = @ + req.pages,
                             !.left = @ - req.pages, !.old = None, !.new = None,
                             !.page = 0, !.pages = 0]

\* Mutant: the old block goes to the heap without being erased.
EraseOld_Skipped ==
  /\ UNCHANGED flash
  /\ Insert(req.old)

\* XD_Erase(phyBlock) == XD_OK
EraseOld ==
  /\ flash' = [flash EXCEPT ![lastZone][req.old] = ErasedBlock]
  /\ Insert(req.old)

\* Step 7 of a write.
Commit ==
  /\ req.pc = "program" /\ req.page = PerBlock
  /\ IF req.old = None THEN UNCHANGED <<flash, free>> ELSE EraseOld
  /\ Remap
  /\ RoundDone
  /\ UNCHANGED <<lastZone, scan, bounds>>

\* The erase fails: the old block is neither mapped nor in the heap.
CommitEraseFails ==
  /\ req.pc = "program" /\ req.page = PerBlock /\ req.old # None
  /\ Fault("erase")
  /\ flash' \in {flash, [flash EXCEPT ![lastZone][req.old] = ErasedBlock]}
  /\ Remap
  /\ RoundDone
  /\ UNCHANGED <<free, lastZone, scan, writes, crashes>>
-----------------------------------------------------------------------------
(***************************************************************************)
(* Restarts.                                                               *)
(***************************************************************************)

\* XD_ML_Terminate deletes the heap.
Release ==
  /\ Restarts /\ req.pc = "idle" /\ lastZone # None
  /\ lastZone' = None
  /\ free' = NoHeap
  /\ UNCHANGED <<flash, table, scan, req, maybe, bounds>>

\* XD_ML_Initialize, mmpxDInitialize clear the table.
Initialize ==
  /\ Restarts /\ req.pc = "idle" /\ lastZone # None
  /\ lastZone' = None
  /\ table' = NoTable
  /\ UNCHANGED <<flash, free, scan, req, maybe, bounds>>

\* The power is lost: a page being programmed may be torn, an erase may have
\* happened; the table and the heap are gone.
PowerLoss ==
  /\ crashes < MaxCrashes
  /\ req.pc \in CrashAt
  /\ crashes' = crashes + 1
  /\ \/ UNCHANGED flash
     \/ /\ req.pc = "program" /\ req.page < PerBlock
        /\ flash' \in Interrupted
     \/ /\ req.pc = "program" /\ req.page = PerBlock /\ req.old # None
        /\ flash' = [flash EXCEPT ![lastZone][req.old] = ErasedBlock]
  /\ table' = NoTable /\ free' = NoHeap /\ lastZone' = None /\ scan' = NoScan
  /\ req' = NoRequest
  /\ UNCHANGED <<maybe, writes, faults>>
-----------------------------------------------------------------------------
Request ==
  \E s \in Sectors, n \in 1 .. MaxSpan, multi \in BOOLEAN :
    /\ s + n - 1 \in Sectors
    /\ n = 1 \/ multi
    /\ ReadRequest(s, n, multi) \/ WriteRequest(s, n, multi)

ScanBlock ==
  \/ ScanErased \/ ScanBad \/ ScanMaps
  \/ \E l \in LogicalBlocks : ScanLeaves(l) \/ ScanErases(l)

Serve ==
  \/ LookUp \/ ScanStart \/ ScanBlock \/ ScanEnd
  \/ ReadSector \/ NoBlock \/ PopBlock \/ ProgramPage \/ Commit

CardFault ==
  \/ \E l \in LogicalBlocks : ScanEraseFails(l)
  \/ NoMemory \/ ScanReadFails \/ ScanRemoved \/ ReadFails
  \/ ReadBackFails \/ ProgramFails \/ CommitEraseFails

Next == Request \/ Serve \/ CardFault \/ Release \/ Initialize \/ PowerLoss

Spec == Init /\ [][Next]_vars

\* The layer runs in its caller's thread: a request that can go on does.
FairSpec == Spec /\ WF_vars(Serve)
-----------------------------------------------------------------------------
(***************************************************************************)
(* Properties.                                                             *)
(***************************************************************************)

ReqType == [pc : Points, op : {"read", "write"}, multi : BOOLEAN,
            sector : Sectors, left : 0 .. MaxSpan, data : 0 .. MaxWrites,
            old : Numbers \union {None}, new : Numbers \union {None},
            page : 0 .. PerBlock, pages : 0 .. PerBlock, ok : BOOLEAN]

\* Every variable has its type.
TypeOK ==
  /\ flash \in [Zones -> [Numbers -> [Pages -> Page]]]
  /\ table \in [LogicalBlocks -> Numbers \union {None}]
  /\ free \in [Numbers -> Nat]
  /\ lastZone \in Zones \union {None}
  /\ scan \in [zone : Zones, i : 0 .. Physical, phy : Numbers \union {None}]
  /\ req \in ReqType
  /\ maybe \in [Sectors -> SUBSET Data]
  /\ writes \in 0 .. MaxWrites
  /\ faults \in 0 .. MaxFaults
  /\ crashes \in 0 .. MaxCrashes

\* The zone the table and the heap describe.
Loaded(z) == IF req.pc = "scan" THEN z = scan.zone ELSE z = lastZone

\* Nothing was ever programmed into a block, but perhaps the data of its first
\* page, when the power went before the spare area changed.
Vacant(block) == /\ block[0].la = NoLa
                 /\ \A p \in Pages \ {0} : block[p] = ErasedPage

\* Every block of the heap is vacant, though the scan looks at the spare area of
\* its first page only (XD_ReadSpare): no write programs a spare area twice, nor
\* any page but the first, and no block with a logical address is handed out.
FreeIsVacant ==
  \A z \in Zones, n \in Numbers : Loaded(z) /\ free[n] > 0 => Vacant(flash[z][n])

\* A block has one owner: it is in the heap once, or mapped by one logical
\* block, or the new block of the write in progress.
OneOwner ==
  /\ \A n \in Numbers : free[n] <= 1
  /\ \A l \in LogicalBlocks : table[l] # None => free[table[l]] = 0
  /\ \A k, l \in LogicalBlocks : table[k] # None /\ table[k] = table[l] => k = l
  /\ req.pc = "program" =>
       /\ free[req.new] = 0
       /\ \A l \in LogicalBlocks : table[l] # req.new

\* Between requests, every block of the zone in use is mapped or in the heap:
\* no number of writes and restarts uses the blocks up.
NoBlockLost ==
  lastZone # None /\ req.pc \in {"idle", "map", "go"} =>
    \A n \in StartBlock(lastZone) .. (Physical - 1) :
      free[n] > 0 \/ \E l \in LogicalBlocks : table[l] = n

\* What the card gives for a sector is the data of the last write of the sector,
\* or of one that did not complete since (0xFF or the filler if there is none).
\* This is about each sector that is read, not about the result of the request:
\* xddrv_readmultiplesector returns the result of its last sector (Fail), so its
\* success says nothing of the sectors before.
ReadsWhatWasWritten ==
  req.pc = "go" /\ req.op = "read" =>
    \/ ReadData \in maybe[req.sector]
    \/ ReadData = Filler /\ Blank \in maybe[req.sector]

\* The same for a sector that was written and that no interrupted write names:
\* the write of another sector of its block does not lose it.
CompletedWriteSurvives ==
  req.pc = "go" /\ req.op = "read" =>
    \A d \in 1 .. MaxWrites : maybe[req.sector] = {d} => ReadData = d

\* Building the table never erases the only complete copy of a logical block.
Complete(z, l) ==
  \E n \in Numbers : \A p \in Pages : flash[z][n][p].la = l
ErasesOnlyDuplicates ==
  [][req.pc = "scan" =>
       \A z \in Zones, l \in LogicalBlocks : Complete(z, l) => Complete(z, l)']_vars

\* Every request returns.
RequestEnds == req.pc # "idle" ~> req.pc = "idle"
=============================================================================
