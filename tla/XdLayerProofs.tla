--------------------------- MODULE XdLayerProofs ---------------------------
(***************************************************************************)
(* For every size of the card, every set of faults and points at which the *)
(* power may go: the variables of XdLayer keep their types, a block never  *)
(* has two owners, and the heap holds vacant blocks only.                  *)
(*                                                                         *)
(* The inductive invariant adds what the layer knows of the card without   *)
(* keeping it: a block whose first page has a blank spare area is vacant,  *)
(* because pages are programmed in ascending order; all the pages of a     *)
(* block name the same logical block, because a block is written for one   *)
(* and erased before it is used again; and the scan owns nothing it has    *)
(* not reached.                                                            *)
(***************************************************************************)
EXTENDS XdLayer, TLAPS

\* The request names sectors of the card and the block it works on is that of
\* the zone in use.
ReqInv ==
  /\ req.pc # "idle" => req.left >= 1 /\ req.sector + req.left - 1 \in Sectors
  /\ req.pc = "scan" => scan.zone = ZoneOf(req.sector)
  /\ req.pc \in {"go", "program"} =>
       lastZone = ZoneOf(req.sector) /\ req.old = table[LbOf(req.sector)]
  /\ req.pc = "program" =>
       req.op = "write" /\ req.new \in Numbers /\ req.pages = RoundPages

\* The scan has put no block in the table or the heap that it has not reached.
ScanInv ==
  req.pc = "scan" =>
    /\ scan.phy = table[LbOf(req.sector)]
    /\ \A n \in Numbers : n >= scan.i =>
         free[n] = 0 /\ \A l \in LogicalBlocks : table[l] # n

\* The pages of a block name one logical block, and the first is the first to
\* be programmed.
BlockInv ==
  \A z \in Zones, n \in Numbers :
    /\ \A p, q \in Pages :
         flash[z][n][p].la \in LogicalBlocks /\ flash[z][n][q].la \in LogicalBlocks
           => flash[z][n][p].la = flash[z][n][q].la
    /\ flash[z][n][0].la = NoLa => Vacant(flash[z][n])

\* The block being written: programmed up to the current page, then vacant.
NewInv ==
  req.pc = "program" =>
    \A p \in Pages :
      IF p < req.page THEN flash[lastZone][req.new][p].la = LbOf(req.sector)
      ELSE IF p = 0 THEN flash[lastZone][req.new][p].la = NoLa
      ELSE flash[lastZone][req.new][p] = ErasedPage

IInv == TypeOK /\ ReqInv /\ ScanInv /\ BlockInv /\ NewInv /\ OneOwner /\ FreeIsVacant
-----------------------------------------------------------------------------
(***************************************************************************)
(* Sectors, logical blocks and pages.                                      *)
(***************************************************************************)

\* Quotient and remainder.
LEMMA Division ==
  ASSUME NEW a \in Nat, NEW k \in Nat \ {0}
  PROVE  a \div k \in Nat /\ a % k \in 0 .. (k - 1) /\ a = k * (a \div k) + (a % k)
OBVIOUS

\* A quotient of a number below a multiple of the divisor.
LEMMA QuotientBound ==
  ASSUME NEW a \in Nat, NEW k \in Nat \ {0}, NEW m \in Nat, a < m * k
  PROVE  a \div k < m
<1>1. a \div k \in Nat /\ a = k * (a \div k) + (a % k) /\ a % k >= 0
  BY Division
<1>2. k * (a \div k) < m * k
  BY <1>1
<1>3. ASSUME a \div k >= m  PROVE FALSE
  <2> DEFINE d == (a \div k) - m
  <2>1. d \in Nat /\ k * (a \div k) = k * m + k * d
    BY <1>1, <1>3
  <2>2. k * d >= 0
    BY <2>1
  <2> QED  BY <1>2, <2>1, <2>2
<1> QED  BY <1>1, <1>3

\* Every sector lies in a zone, a logical block and a page of the card.
LEMMA Address ==
  ASSUME NEW s \in Sectors
  PROVE  ZoneOf(s) \in Zones /\ LbOf(s) \in LogicalBlocks /\ PageOf(s) \in Pages
<1>1. NumZones \in Nat /\ Logical \in Nat \ {0} /\ PerBlock \in Nat \ {0} /\ s \in Nat
  BY XdAssumption DEF Sectors
<1>2. s < NumZones * Logical * PerBlock
  BY <1>1 DEF Sectors
<1>3. NumZones * Logical \in Nat
  BY <1>1
<1>4. s \div PerBlock < NumZones * Logical /\ s \div PerBlock \in Nat
  BY <1>1, <1>2, <1>3, Division, QuotientBound
<1>5. (s \div PerBlock) \div Logical < NumZones /\ (s \div PerBlock) \div Logical \in Nat
  BY <1>1, <1>4, Division, QuotientBound
<1>6. (s \div PerBlock) % Logical \in 0 .. (Logical - 1) /\ s % PerBlock \in 0 .. (PerBlock - 1)
  BY <1>1, <1>4, Division
<1> QED  BY <1>1, <1>5, <1>6 DEF ZoneOf, LbOf, PageOf, Zones, LogicalBlocks, Pages

\* What the proofs below use of the constants: their ranges,
LEMMA Sizes ==
  /\ Physical \in Nat \ {0} /\ PerBlock \in Nat \ {0} /\ MaxSpan \in Nat \ {0}
  /\ MaxWrites \in Nat /\ MaxFaults \in Nat /\ MaxCrashes \in Nat
BY XdAssumption

\* the sectors,
LEMMA SectorNat == (\A s \in Sectors : s \in Nat) /\ 0 \in Sectors
BY XdAssumption DEF Sectors

\* the pages of a block,
LEMMA PageNumbers ==
  /\ 0 \in Pages /\ PerBlock - 1 \in Pages 
  /\ \A p \in Nat : p < PerBlock => p \in Pages
  /\ \A p \in Pages : p \in Nat /\ p < PerBlock
BY XdAssumption DEF Pages

\* the blocks of a zone,
LEMMA BlockNumbers ==
  /\ 0 \in Zones /\ Zones \subseteq Nat
  /\ None \notin Numbers /\ None \notin Zones
  /\ \A n \in Nat : n < Physical => n \in Numbers
  /\ \A n \in Numbers : n \in Nat /\ n < Physical
  /\ \A z \in Zones : StartBlock(z) \in 0 .. Physical
BY XdAssumption DEF Zones, Numbers, None, StartBlock

\* and the logical addresses.
LEMMA LogicalAddresses == NoLa \notin LogicalBlocks /\ BadLa \notin LogicalBlocks
BY XdAssumption DEF LogicalBlocks, NoLa, BadLa

\* The pages of the model are pages.
LEMMA PageTypes ==
  /\ ErasedPage \in Page /\ ErasedBlock \in [Pages -> Page] /\ ErasedPage.la = NoLa
  /\ NoLa # BadLa
BY XdAssumption DEF ErasedPage, ErasedBlock, Page, NoLa, BadLa, Data, Blank

\* An erased block is vacant.
LEMMA ErasedIsVacant == Vacant(ErasedBlock)
BY PageNumbers, PageTypes DEF Vacant, ErasedBlock

-----------------------------------------------------------------------------
(***************************************************************************)
(* Steps that do not use the card for more than reading it.                *)
(***************************************************************************)

\* The sectors below a sector are sectors.
LEMMA LowerSector ==
  ASSUME NEW s \in Sectors, NEW t \in Nat, t <= s
  PROVE  t \in Sectors
BY XdAssumption DEF Sectors

\* The request of an idle layer.
LEMMA NoRequestType == NoRequest \in ReqType /\ NoRequest.pc = "idle"
BY Sizes, SectorNat DEF NoRequest, ReqType, Points

\* A failing request goes idle or goes on with its last sector.
LEMMA FailResult ==
  ASSUME TypeOK, ReqInv, req.pc # "idle", Fail
  PROVE  /\ req' \in ReqType /\ req'.pc \in {"idle", "map"}
         /\ req'.pc # "idle" => req'.left >= 1 /\ req'.sector + req'.left - 1 \in Sectors
<1>1. req \in ReqType /\ req.left >= 1 /\ req.sector + req.left - 1 \in Sectors
  BY DEF TypeOK, ReqInv
<1>3. CASE req.op = "read" /\ req.left > 1
  <2>1. req' = [req EXCEPT !.pc = "map", !.sector = @ + req.left - 1, !.left = 1, !.old = None]
    BY <1>3 DEF Fail
  <2> DEFINE last == req.sector + req.left - 1
  <2>2. last \in Sectors /\ last \in Nat /\ last + 1 - 1 = last
    BY <1>1, SectorNat
  <2>3. req' = [req EXCEPT !.pc = "map", !.sector = last, !.left = 1, !.old = None]
    BY <2>1
  <2> HIDE DEF last
  <2>4. 1 \in 0 .. MaxSpan /\ 1 >= 1
    BY Sizes
  <2>5. req'.pc = "map" /\ req'.sector = last /\ req'.left = 1
    BY <1>1, <2>3 DEF ReqType
  <2>6. req' \in ReqType
    BY <1>1, <2>2, <2>3, <2>4 DEF ReqType, Points
  <2> QED  BY <2>2, <2>4, <2>5, <2>6
<1>4. CASE ~(req.op = "read" /\ req.left > 1)
  <2>1. req' = [NoRequest EXCEPT !.ok = FALSE]
    BY <1>4 DEF Fail, Returned
  <2> QED  BY <2>1, NoRequestType DEF ReqType, Points
<1> QED  BY <1>3, <1>4

\* A returning request goes idle.
LEMMA ReturnResult ==
  ASSUME NEW ok \in BOOLEAN
  PROVE  Returned(ok) \in ReqType /\ Returned(ok).pc = "idle"
BY NoRequestType DEF Returned, ReqType

\* A step after which no block is being written and nothing is scanned keeps
\* the invariant if the card is as it was and the heap and the table only lose
\* blocks.
LEMMA Settles ==
  ASSUME IInv, TypeOK', UNCHANGED flash, req'.pc \in {"idle", "map"},
         req'.pc # "idle" => req'.left >= 1 /\ req'.sector + req'.left - 1 \in Sectors,
         \A n \in Numbers : free'[n] <= free[n],
         table' = table \/ table' = NoTable,
         lastZone' = None \/ (lastZone' = lastZone /\ req.pc # "scan")
  PROVE  IInv'
<1> USE DEF IInv
<1>1. ReqInv'
  BY DEF ReqInv
<1>2. ScanInv' /\ NewInv'
  BY DEF ScanInv, NewInv
<1>3. BlockInv'
  BY DEF BlockInv
<1>4. \A l \in LogicalBlocks : table'[l] = None \/ table'[l] = table[l]
  BY DEF NoTable
<1>5. \A n \in Numbers : free[n] = 0 => free'[n] = 0
  BY DEF TypeOK
<1>6. OneOwner'
  <2>1. \A n \in Numbers : free'[n] <= 1
    BY DEF OneOwner, TypeOK
  <2>2. \A l \in LogicalBlocks : table'[l] # None => free'[table'[l]] = 0
    BY <1>4, <1>5 DEF OneOwner, TypeOK
  <2>3. \A k, l \in LogicalBlocks : table'[k] # None /\ table'[k] = table'[l] => k = l
    BY <1>4 DEF OneOwner
  <2> QED  BY <2>1, <2>2, <2>3 DEF OneOwner
<1>7. FreeIsVacant'
  <2>1. ASSUME NEW z \in Zones, NEW n \in Numbers, Loaded(z)', free'[n] > 0
        PROVE  Vacant(flash'[z][n])
    <3>1. lastZone' = z /\ z # None
      BY <2>1, BlockNumbers DEF Loaded
    <3>2. Loaded(z) /\ free[n] > 0
      BY <2>1, <3>1 DEF Loaded, TypeOK
    <3> QED  BY <3>2 DEF FreeIsVacant
  <2> QED  BY <2>1 DEF FreeIsVacant
<1> QED  BY <1>1, <1>2, <1>3, <1>6, <1>7

\* A request of either kind begins.
LEMMA StepRequest == ASSUME IInv, Request  PROVE IInv'
<1>1. PICK s \in Sectors, n \in 1 .. MaxSpan, multi \in BOOLEAN :
        s + n - 1 \in Sectors /\ (ReadRequest(s, n, multi) \/ WriteRequest(s, n, multi))
  BY DEF Request
<1>2. CASE ReadRequest(s, n, multi)
  <2>1. req' = [NoRequest EXCEPT !.pc = "map", !.multi = multi, !.sector = s, !.left = n]
    BY <1>2 DEF ReadRequest
  <2>2. req' \in ReqType /\ req'.pc = "map" /\ req'.left >= 1 /\ req'.sector + req'.left - 1 \in Sectors
    <3>1. n \in 0 .. MaxSpan /\ n >= 1
      BY <1>1, Sizes
    <3> QED  BY <1>1, <2>1, <3>1, NoRequestType DEF ReqType, Points
  <2>3. TypeOK'
    BY <1>2, <2>2 DEF ReadRequest, IInv, TypeOK, ram, bounds
  <2> QED  BY <1>2, <2>2, <2>3, Settles DEF ReadRequest, IInv, TypeOK, ram
<1>3. CASE WriteRequest(s, n, multi)
  <2>0. writes \in Nat /\ writes + 1 \in 0 .. MaxWrites
    BY <1>3, Sizes DEF WriteRequest, IInv, TypeOK
  <2>1. req' = [NoRequest EXCEPT !.pc = "map", !.op = "write", !.multi = multi,
                  !.sector = s, !.left = n, !.data = writes + 1]
    BY <1>3 DEF WriteRequest
  <2>2. req' \in ReqType /\ req'.pc = "map" /\ req'.left >= 1 /\ req'.sector + req'.left - 1 \in Sectors
    <3>1. n \in 0 .. MaxSpan /\ n >= 1
      BY <1>1, Sizes
    <3> QED  BY <1>1, <2>0, <2>1, <3>1, NoRequestType DEF ReqType, Points
  <2>3. maybe' \in [Sectors -> SUBSET Data]
    BY <1>3, <2>0 DEF WriteRequest, IInv, TypeOK, Data
  <2>4. TypeOK'
    BY <1>3, <2>0, <2>2, <2>3 DEF WriteRequest, IInv, TypeOK, ram
  <2> QED  BY <1>3, <2>2, <2>4, Settles DEF WriteRequest, IInv, TypeOK, ram
<1> QED  BY <1>1, <1>2, <1>3

\* The steps of a read, and a write that finds no block or cannot read the old
\* one back.
LEMMA StepQuiet ==
  ASSUME IInv, ReadSector \/ ReadFails \/ NoBlock \/ ReadBackFails
  PROVE  IInv'
<1> USE DEF IInv
<1>1. CASE ReadSector
  <2>1. req \in ReqType /\ req.left >= 1 /\ req.sector + req.left - 1 \in Sectors
    BY <1>1 DEF ReadSector, TypeOK, ReqInv
  <2>2. /\ req' \in ReqType /\ req'.pc \in {"idle", "map"}
        /\ req'.pc # "idle" => req'.left >= 1 /\ req'.sector + req'.left - 1 \in Sectors
    <3>1. CASE req.left = 1
      BY <1>1, <3>1, ReturnResult DEF ReadSector
    <3>2. CASE req.left # 1
      <4>1. req' = [req EXCEPT !.pc = "map", !.sector = @ + 1, !.left = @ - 1, !.old = None]
        BY <1>1, <3>2 DEF ReadSector
      <4>2. /\ req.left - 1 \in 1 .. MaxSpan /\ req.sector + 1 \in Sectors
            /\ (req.sector + 1) + (req.left - 1) - 1 = req.sector + req.left - 1
        <5>1. req.left \in 2 .. MaxSpan /\ req.sector \in Nat
          BY <2>1, <3>2, Sizes, SectorNat DEF ReqType
        <5>2. req.sector + 1 \in Nat /\ req.sector + 1 <= req.sector + req.left - 1
          BY <5>1
        <5>3. req.sector + 1 \in Sectors
          BY <2>1, <5>2, LowerSector
        <5> QED  BY <5>1, <5>3, Sizes
      <4>3. req' \in ReqType
        <5>1. req.left - 1 \in 0 .. MaxSpan
          BY <4>2, Sizes
        <5> QED  BY <2>1, <4>1, <4>2, <5>1 DEF ReqType, Points
      <4>4. req'.pc = "map" /\ req'.sector = req.sector + 1 /\ req'.left = req.left - 1
        BY <2>1, <4>1 DEF ReqType
      <4>5. req.left - 1 >= 1
        BY <4>2, Sizes
      <4> QED  BY <2>1, <4>2, <4>3, <4>4, <4>5
    <3> QED  BY <3>1, <3>2
  <2>3. TypeOK'
    BY <1>1, <2>2 DEF ReadSector, TypeOK, ram, bounds
  <2>4. \A n \in Numbers : free'[n] <= free[n]
    BY <1>1 DEF ReadSector, TypeOK, ram
  <2> QED  BY <1>1, <2>2, <2>3, <2>4, Settles DEF ReadSector, ram
<1>2. CASE ReadFails
  <2>1. TypeOK'
    BY <1>2, FailResult, Sizes DEF ReadFails, Fault, TypeOK, ram
  <2> QED  BY <1>2, <2>1, FailResult, Settles DEF ReadFails, TypeOK, ram
<1>3. CASE NoBlock
  <2>1. TypeOK'
    BY <1>3, FailResult, Sizes DEF NoBlock, TypeOK, ram, bounds
  <2> QED  BY <1>3, <2>1, FailResult, Settles DEF NoBlock, TypeOK, ram
<1>4. CASE ReadBackFails
  <2>1. free' \in [Numbers -> Nat] /\ \A n \in Numbers : free'[n] <= free[n]
    BY <1>4 DEF ReadBackFails, LeastFree, TypeOK
  <2>2. TypeOK'
    BY <1>4, <2>1, FailResult, Sizes DEF ReadBackFails, Fault, TypeOK
  <2> QED  BY <1>4, <2>1, <2>2, FailResult, Settles DEF ReadBackFails
<1> QED  BY <1>1, <1>2, <1>3, <1>4

\* The table is found or given up, the drive is released or initialised.
LEMMA StepGiveUp ==
  ASSUME IInv, NoMemory \/ ScanRemoved \/ Release \/ Initialize
  PROVE  IInv'
<1> USE DEF IInv
<1>0. /\ NoHeap \in [Numbers -> Nat] /\ NoScan \in [zone : Zones, i : 0 .. Physical, phy : Numbers \union {None}]
      /\ NoTable \in [LogicalBlocks -> Numbers \union {None}]
      /\ \A n \in Numbers : NoHeap[n] = 0 /\ NoHeap[n] <= free[n]
  BY Sizes, BlockNumbers DEF NoHeap, NoScan, NoTable, TypeOK
<1>1. CASE NoMemory
  <2>1. TypeOK'
    BY <1>0, <1>1, FailResult, Sizes DEF NoMemory, Fault, TypeOK
  <2> QED  BY <1>0, <1>1, <2>1, FailResult, Settles DEF NoMemory
<1>2. CASE ScanRemoved
  <2>1. TypeOK'
    BY <1>0, <1>2, FailResult, Sizes DEF ScanRemoved, Scanning, Fault, TypeOK
  <2> QED  BY <1>2, <2>1, FailResult, Settles DEF ScanRemoved, Scanning, TypeOK
<1>3. CASE Release
  <2>1. TypeOK'
    BY <1>0, <1>3 DEF Release, TypeOK, bounds
  <2> QED  BY <1>0, <1>3, <2>1, Settles DEF Release
<1>4. CASE Initialize
  <2>1. TypeOK'
    BY <1>0, <1>4 DEF Initialize, TypeOK, bounds
  <2> QED  BY <1>4, <2>1, Settles DEF Initialize, TypeOK
<1> QED  BY <1>1, <1>2, <1>3, <1>4

-----------------------------------------------------------------------------
(***************************************************************************)
(* Changes of the card.                                                    *)
(***************************************************************************)

\* Erasing a block keeps the blocks in order.
LEMMA EraseBlock ==
  ASSUME TypeOK, BlockInv, NEW y \in Zones, NEW m \in Numbers,
         flash' = [flash EXCEPT ![y][m] = ErasedBlock]
  PROVE  /\ flash' \in [Zones -> [Numbers -> [Pages -> Page]]]
         /\ BlockInv'
         /\ \A z \in Zones, n \in Numbers :
              flash'[z][n] = IF z = y /\ n = m THEN ErasedBlock ELSE flash[z][n]
<1>1. flash \in [Zones -> [Numbers -> [Pages -> Page]]]
  BY DEF TypeOK
<1>2. flash' \in [Zones -> [Numbers -> [Pages -> Page]]]
  BY <1>1, PageTypes
<1>3. \A z \in Zones, n \in Numbers :
        flash'[z][n] = IF z = y /\ n = m THEN ErasedBlock ELSE flash[z][n]
  BY <1>1
<1>4. \A p \in Pages : ErasedBlock[p].la = NoLa
  BY PageTypes DEF ErasedBlock
<1>5. BlockInv'
  <2>1. ASSUME NEW z \in Zones, NEW n \in Numbers
        PROVE  /\ \A p, q \in Pages :
                    flash'[z][n][p].la \in LogicalBlocks /\ flash'[z][n][q].la \in LogicalBlocks
                      => flash'[z][n][p].la = flash'[z][n][q].la
               /\ flash'[z][n][0].la = NoLa => Vacant(flash'[z][n])
    <3>1. CASE z = y /\ n = m
      BY <1>3, <1>4, <3>1, ErasedIsVacant
    <3>2. CASE ~(z = y /\ n = m)
      BY <1>3, <3>2 DEF BlockInv
    <3> QED  BY <3>1, <3>2
  <2> QED  BY <2>1 DEF BlockInv
<1> QED  BY <1>2, <1>3, <1>5

\* Programming the current page of the new block, whole or torn, keeps the
\* blocks in order.
LEMMA ProgramBlock ==
  ASSUME IInv, req.pc = "program", req.page < PerBlock,
         NEW pg \in Page, pg.la \in {LbOf(req.sector), BadLa, NoLa}, flash' = WithPage(pg)
  PROVE  /\ flash' \in [Zones -> [Numbers -> [Pages -> Page]]]
         /\ BlockInv'
         /\ lastZone \in Zones /\ req.new \in Numbers /\ req.page \in Pages
         /\ \A z \in Zones, n \in Numbers :
              z # lastZone \/ n # req.new => flash'[z][n] = flash[z][n]
         /\ \A p \in Pages :
              flash'[lastZone][req.new][p] =
                IF p = req.page THEN pg ELSE flash[lastZone][req.new][p]
<1> USE DEF IInv
<1>1. flash \in [Zones -> [Numbers -> [Pages -> Page]]]
  BY DEF TypeOK
<1>2. /\ req.page \in Pages /\ req.page \in Nat /\ req.new \in Numbers
      /\ req.sector \in Sectors /\ lastZone = ZoneOf(req.sector)
  BY Sizes, PageNumbers DEF TypeOK, ReqInv, ReqType
<1>3. lastZone \in Zones /\ LbOf(req.sector) \in LogicalBlocks
  BY <1>2, Address
<1>5. flash' = [flash EXCEPT ![lastZone][req.new][req.page] = pg]
  BY DEF WithPage
<1>6. flash' \in [Zones -> [Numbers -> [Pages -> Page]]]
  <2> DEFINE block == [flash[lastZone][req.new] EXCEPT ![req.page] = pg]
             zone  == [flash[lastZone] EXCEPT ![req.new] = block]
  <2>1. block \in [Pages -> Page]
    BY <1>1, <1>2, <1>3
  <2>2. zone \in [Numbers -> [Pages -> Page]]
    <3> HIDE DEF block
    <3> QED  BY <1>1, <1>3, <2>1 DEF zone
  <2>3. flash' = [flash EXCEPT ![lastZone] = zone]
    BY <1>1, <1>5
  <2> HIDE DEF zone
  <2> QED  BY <1>1, <2>2, <2>3
<1>7. \A z \in Zones, n \in Numbers :
        z # lastZone \/ n # req.new => flash'[z][n] = flash[z][n]
  BY <1>1, <1>5
<1>8. \A p \in Pages :
        flash'[lastZone][req.new][p] =
          IF p = req.page THEN pg ELSE flash[lastZone][req.new][p]
  BY <1>1, <1>2, <1>3, <1>5
<1>9. \A p \in Pages : flash'[lastZone][req.new][p].la \in {LbOf(req.sector), BadLa, NoLa}
  <2>1. ASSUME NEW p \in Pages
        PROVE  flash'[lastZone][req.new][p].la \in {LbOf(req.sector), BadLa, NoLa}
    <3>1. CASE p = req.page
      BY <1>8, <3>1
    <3>2. CASE p # req.page
      BY <1>8, <3>2, PageTypes DEF NewInv
    <3> QED  BY <3>1, <3>2
  <2> QED  BY <2>1
<1>10. flash'[lastZone][req.new][0].la = NoLa => Vacant(flash'[lastZone][req.new])
  <2>1. CASE req.page = 0
    <3>1. ASSUME NEW p \in Pages \ {0}  PROVE flash'[lastZone][req.new][p] = ErasedPage
      BY <1>2, <1>8, <2>1, <3>1, PageNumbers DEF NewInv
    <3> QED  BY <3>1 DEF Vacant
  <2>2. CASE req.page # 0
    <3>1. 0 < req.page
      BY <1>2, <2>2
    <3>2. flash[lastZone][req.new][0].la = LbOf(req.sector)
      BY <3>1, PageNumbers DEF NewInv
    <3> QED  BY <1>3, <1>8, <2>2, <3>2, PageNumbers, LogicalAddresses
  <2> QED  BY <2>1, <2>2
<1>11. BlockInv'
  <2>1. ASSUME NEW z \in Zones, NEW n \in Numbers
        PROVE  /\ \A p, q \in Pages :
                    flash'[z][n][p].la \in LogicalBlocks /\ flash'[z][n][q].la \in LogicalBlocks
                      => flash'[z][n][p].la = flash'[z][n][q].la
               /\ flash'[z][n][0].la = NoLa => Vacant(flash'[z][n])
    <3>1. CASE z = lastZone /\ n = req.new
      BY <1>9, <1>10, <3>1, LogicalAddresses
    <3>2. CASE ~(z = lastZone /\ n = req.new)
      BY <1>7, <3>2 DEF BlockInv
    <3> QED  BY <3>1, <3>2
  <2> QED  BY <2>1 DEF BlockInv
<1> QED  BY <1>2, <1>3, <1>6, <1>7, <1>8, <1>11

\* The page a write programs next names the logical block of the request.
LEMMA NewPageType ==
  ASSUME IInv, req.pc = "program", req.page < PerBlock
  PROVE  NewPage \in Page /\ NewPage.la = LbOf(req.sector)
<1> USE DEF IInv
<1>1. /\ req.sector \in Sectors /\ req.page \in Pages /\ req.data \in 0 .. MaxWrites
      /\ req.old \in Numbers \union {None} /\ lastZone = ZoneOf(req.sector)
  BY Sizes, PageNumbers DEF TypeOK, ReqInv, ReqType
<1>2. ZoneOf(req.sector) \in Zones /\ LbOf(req.sector) \in LogicalBlocks
  BY <1>1, Address
<1>3. req.old # None => flash[lastZone][req.old][req.page].data \in Data
  BY <1>1, <1>2 DEF TypeOK, Page
<1>4. req.data \in Data /\ Filler \in Data /\ Blank \in Data
  BY <1>1, Sizes DEF Data, Filler, Blank
<1>5. NewPage.data \in Data
  BY <1>3, <1>4 DEF NewPage
<1> QED  BY <1>2, <1>5 DEF NewPage, Page

\* Programming the current page, complete or interrupted.
LEMMA Attempts ==
  ASSUME IInv, req.pc = "program", req.page < PerBlock
  PROVE  /\ Over(Current, NewPage) \in Page /\ Over(Current, NewPage).la = LbOf(req.sector)
         /\ \A pg \in Torn(Current, NewPage) :
              pg \in Page /\ pg.la \in {LbOf(req.sector), BadLa, NoLa}
         /\ Current = ErasedPage => Over(Current, NewPage) = NewPage
<1>1. NewPage \in Page /\ NewPage.la = LbOf(req.sector)
  BY NewPageType
<1>2. req.page \in Pages /\ req.page \in Nat
  BY PageNumbers, Sizes DEF IInv, TypeOK, ReqType
<1>3. Current.la = NoLa
  BY <1>2, PageTypes DEF Current, IInv, NewInv
<1>4. Junk \in Data
  BY DEF Data
<1>5. Over(Current, NewPage) \in Page /\ Over(Current, NewPage).la = LbOf(req.sector)
  BY <1>1, <1>3, <1>4 DEF Over, Page
<1>6. ASSUME NEW pg \in Torn(Current, NewPage)
      PROVE  pg \in Page /\ pg.la \in {LbOf(req.sector), BadLa, NoLa}
  BY <1>1, <1>3, <1>4 DEF Torn, Page
<1>7. Current = ErasedPage => Over(Current, NewPage) = NewPage
  BY <1>1, <1>3 DEF Over, Page
<1> QED  BY <1>5, <1>6, <1>7

\* The power is lost: whatever a torn program or a finished erase leaves, the
\* blocks of the card are in order.
LEMMA StepPowerLoss == ASSUME IInv, PowerLoss  PROVE IInv'
<1> USE DEF IInv
<1>1. /\ NoHeap \in [Numbers -> Nat] /\ NoScan \in [zone : Zones, i : 0 .. Physical, phy : Numbers \union {None}]
      /\ NoTable \in [LogicalBlocks -> Numbers \union {None}]
  BY Sizes, BlockNumbers DEF NoHeap, NoScan, NoTable
<1>2. flash' \in [Zones -> [Numbers -> [Pages -> Page]]] /\ BlockInv'
  <2>1. CASE UNCHANGED flash
    BY <2>1 DEF TypeOK, BlockInv
  <2>2. CASE req.pc = "program" /\ req.page < PerBlock /\ flash' \in Interrupted
    <3>1. PICK pg \in Torn(Current, NewPage) : flash' = WithPage(pg)
      BY <2>2 DEF Interrupted
    <3> QED  BY <2>2, <3>1, Attempts, ProgramBlock
  <2>3. CASE /\ req.pc = "program" /\ req.page = PerBlock /\ req.old # None
             /\ flash' = [flash EXCEPT ![lastZone][req.old] = ErasedBlock]
    <3>1. lastZone \in Zones /\ req.old \in Numbers
      BY <2>3, Address DEF TypeOK, ReqInv, ReqType
    <3> QED  BY <2>3, <3>1, EraseBlock
  <2> QED  BY <2>1, <2>2, <2>3 DEF PowerLoss
<1>3. table' = NoTable /\ free' = NoHeap /\ lastZone' = None /\ req' = NoRequest /\ req'.pc = "idle"
  BY NoRequestType DEF PowerLoss
<1>4. TypeOK'
  BY <1>1, <1>2, NoRequestType, Sizes DEF PowerLoss, TypeOK
<1>5. ReqInv' /\ ScanInv' /\ NewInv'
  BY <1>3 DEF ReqInv, ScanInv, NewInv
<1>6. OneOwner'
  BY <1>3 DEF OneOwner, NoTable, NoHeap
<1>7. FreeIsVacant'
  BY <1>3 DEF FreeIsVacant, NoHeap
<1> QED  BY <1>2, <1>4, <1>5, <1>6, <1>7
-----------------------------------------------------------------------------
(***************************************************************************)
(* Building the table.                                                     *)
(***************************************************************************)

ScanType == [zone : Zones, i : 0 .. Physical, phy : Numbers \union {None}]

\* The block the scan is at: it has no owner yet.
LEMMA ScanPlace ==
  ASSUME IInv, Scanning
  PROVE  /\ scan \in ScanType /\ scan.i \in Numbers /\ scan.i + 1 \in 0 .. Physical
         /\ scan.zone \in Zones /\ LbOf(req.sector) \in LogicalBlocks
         /\ req.pc = "scan" /\ free[scan.i] = 0
         /\ \A l \in LogicalBlocks : table[l] # scan.i
<1> USE DEF IInv
<1>1. scan \in ScanType /\ req \in ReqType /\ req.pc = "scan" /\ scan.i < Physical
  BY DEF TypeOK, ScanType, Scanning
<1>2. scan.i \in Nat /\ scan.i + 1 \in 0 .. Physical /\ scan.i >= scan.i
  BY <1>1, Sizes DEF ScanType
<1>3. scan.i \in Numbers
  BY <1>1, <1>2, BlockNumbers
<1>4. scan.zone \in Zones /\ req.sector \in Sectors
  BY <1>1 DEF ScanType, ReqType
<1> QED  BY <1>1, <1>2, <1>3, <1>4, Address DEF ScanInv

\* The scan never takes the block in the table for the one to erase: as a block
\* of zone 0 it names one logical block.
LEMMA NeverTheMapped ==
  ASSUME IInv, Scanning, NEW l \in LogicalBlocks, Duplicate(l)
  PROVE  Victim(l) # "mapped"
<1>1. table[l] \in Numbers
  BY DEF IInv, TypeOK, Duplicate
<1> QED  BY <1>1, PageNumbers, BlockNumbers DEF IInv, BlockInv, Victim

\* The scan goes on to the next block; the one it leaves is unchanged, or
\* erased, and in the heap only if it is vacant.
LEMMA ScanMoves ==
  ASSUME IInv, Scanning, ScanNext, UNCHANGED <<table, lastZone, req, maybe, writes, crashes>>,
         faults' \in 0 .. MaxFaults, BlockInv',
         flash' \in [Zones -> [Numbers -> [Pages -> Page]]],
         \A n \in Numbers : n # scan.i => flash'[scan.zone][n] = flash[scan.zone][n],
         \/ UNCHANGED free
         \/ Insert(scan.i) /\ Vacant(flash'[scan.zone][scan.i])
  PROVE  IInv'
<1> USE DEF IInv
<1>1. /\ scan \in ScanType /\ scan.i \in Numbers /\ scan.i + 1 \in 0 .. Physical
      /\ scan.zone \in Zones /\ LbOf(req.sector) \in LogicalBlocks
      /\ req.pc = "scan" /\ free[scan.i] = 0
      /\ \A l \in LogicalBlocks : table[l] # scan.i
  BY ScanPlace
<1>2. /\ scan' \in ScanType /\ scan'.i = scan.i + 1 /\ scan'.zone = scan.zone
      /\ scan'.phy = scan.phy
  BY <1>1 DEF ScanNext, ScanType
<1>3. /\ free' \in [Numbers -> Nat]
      /\ \A n \in Numbers : n # scan.i => free'[n] = free[n]
      /\ free'[scan.i] = 0 \/ (free'[scan.i] = 1 /\ Vacant(flash'[scan.zone][scan.i]))
  BY <1>1 DEF Insert, TypeOK
<1>4. TypeOK'
  BY <1>2, <1>3 DEF TypeOK, ScanType
<1>5. ReqInv' /\ NewInv'
  BY <1>1, <1>2 DEF ReqInv, NewInv
<1>6. ScanInv'
  <2>1. ASSUME NEW n \in Numbers, n >= scan'.i
        PROVE  free'[n] = 0 /\ \A l \in LogicalBlocks : table'[l] # n
    <3>1. n >= scan.i /\ n # scan.i
      BY <1>1, <1>2, <2>1, BlockNumbers
    <3> QED  BY <1>1, <1>3, <3>1 DEF ScanInv
  <2>2. scan'.phy = table'[LbOf(req'.sector)]
    BY <1>1, <1>2 DEF ScanInv
  <2> QED  BY <2>1, <2>2 DEF ScanInv
<1>7. OneOwner'
  <2>1. \A n \in Numbers : free'[n] <= 1
    BY <1>3 DEF OneOwner
  <2>2. \A l \in LogicalBlocks : table'[l] # None => free'[table'[l]] = 0
    BY <1>1, <1>3 DEF OneOwner, TypeOK
  <2>3. \A k, l \in LogicalBlocks : table'[k] # None /\ table'[k] = table'[l] => k = l
    BY DEF OneOwner
  <2> QED  BY <1>1, <2>1, <2>2, <2>3 DEF OneOwner
<1>8. FreeIsVacant'
  <2>1. ASSUME NEW z \in Zones, NEW n \in Numbers, Loaded(z)', free'[n] > 0
        PROVE  Vacant(flash'[z][n])
    <3>1. z = scan.zone /\ Loaded(z)
      BY <1>1, <1>2, <2>1 DEF Loaded
    <3>2. CASE n = scan.i
      BY <1>3, <2>1, <3>1, <3>2
    <3>3. CASE n # scan.i
      BY <1>3, <2>1, <3>1, <3>3 DEF FreeIsVacant
    <3> QED  BY <3>2, <3>3
  <2> QED  BY <2>1 DEF FreeIsVacant
<1> QED  BY <1>4, <1>5, <1>6, <1>7, <1>8

\* The scan starts with an empty table and an empty heap.
LEMMA StepScanStart == ASSUME IInv, ScanStart  PROVE IInv'
<1> USE DEF IInv
<1>1. /\ NoHeap \in [Numbers -> Nat] /\ NoTable \in [LogicalBlocks -> Numbers \union {None}]
      /\ \A n \in Numbers : NoHeap[n] = 0
      /\ \A l \in LogicalBlocks : NoTable[l] = None
  BY DEF NoHeap, NoTable
<1>2. req \in ReqType /\ req.pc = "map" /\ req.sector \in Sectors
  BY DEF ScanStart, TypeOK, ReqType
<1>3. ZoneOf(req.sector) \in Zones /\ LbOf(req.sector) \in LogicalBlocks
  BY <1>2, Address
<1>4. req' \in ReqType /\ req'.pc = "scan" /\ req'.sector = req.sector /\ req'.left = req.left
  BY <1>2 DEF ScanStart, ReqType, Points
<1>5. scan' \in ScanType /\ scan'.zone = ZoneOf(req.sector) /\ scan'.phy = None
  BY <1>3, BlockNumbers DEF ScanStart, ScanType
<1>6. TypeOK'
  BY <1>1, <1>4, <1>5 DEF ScanStart, TypeOK, ScanType, bounds
<1>7. ReqInv' /\ NewInv'
  BY <1>2, <1>4, <1>5 DEF ReqInv, NewInv
<1>8. ScanInv'
  BY <1>1, <1>3, <1>4, <1>5, BlockNumbers DEF ScanStart, ScanInv
<1>9. OneOwner' /\ FreeIsVacant'
  BY <1>1, <1>4 DEF ScanStart, OneOwner, FreeIsVacant
<1>10. BlockInv'
  BY DEF ScanStart, BlockInv
<1> QED  BY <1>6, <1>7, <1>8, <1>9, <1>10

\* A block that is skipped, or that is erased already.
LEMMA StepScanPasses ==
  ASSUME IInv,
         \/ ScanErased \/ ScanBad \/ ScanReadFails
         \/ \E l \in LogicalBlocks : ScanLeaves(l)
  PROVE  IInv'
<1> USE DEF IInv
<1>1. /\ Scanning /\ ScanNext /\ UNCHANGED <<flash, table, lastZone, req, maybe, writes, crashes>>
      /\ faults' \in 0 .. MaxFaults
  BY Sizes DEF ScanErased, ScanBad, ScanReadFails, ScanLeaves, bounds, Fault, TypeOK
<1>2. \/ UNCHANGED free
      \/ Insert(scan.i) /\ flash[scan.zone][scan.i][0].la = NoLa
  BY DEF ScanErased, ScanBad, ScanReadFails, ScanLeaves, Scanned
<1>3. scan.zone \in Zones /\ scan.i \in Numbers
  BY <1>1, ScanPlace
<1>4. \/ UNCHANGED free
      \/ Insert(scan.i) /\ Vacant(flash'[scan.zone][scan.i])
  BY <1>1, <1>2, <1>3 DEF BlockInv
<1>5. BlockInv' /\ flash' \in [Zones -> [Numbers -> [Pages -> Page]]]
  BY <1>1 DEF BlockInv, TypeOK
<1> QED  BY <1>1, <1>4, <1>5, ScanMoves

\* One of two blocks with the same logical address is erased, or should be.
LEMMA StepScanErases ==
  ASSUME IInv, NEW l \in LogicalBlocks, ScanErases(l) \/ ScanEraseFails(l)
  PROVE  IInv'
<1> USE DEF IInv
<1>1. /\ Scanning /\ ScanNext /\ Duplicate(l) /\ Victim(l) # "none" /\ Keep(l)
      /\ UNCHANGED <<lastZone, req, maybe, writes, crashes>>
      /\ faults' \in 0 .. MaxFaults
  BY Sizes DEF ScanErases, ScanEraseFails, bounds, Fault, TypeOK
<1>2. Victim(l) = "scanned"
  BY <1>1, NeverTheMapped DEF Victim
<1>3. UNCHANGED table /\ GoesZone(l) = scan.zone /\ GoesNumber(l) = scan.i
  BY <1>1, <1>2 DEF Keep, GoesZone, GoesNumber
<1>4. scan.zone \in Zones /\ scan.i \in Numbers
  BY <1>1, ScanPlace
<1>5. CASE ScanErases(l)
  <2>1. flash' = [flash EXCEPT ![scan.zone][scan.i] = ErasedBlock] /\ Insert(scan.i)
    BY <1>3, <1>5 DEF ScanErases
  <2>2. flash'[scan.zone][scan.i] = ErasedBlock
    BY <1>4, <2>1, EraseBlock
  <2> QED  BY <1>1, <1>3, <1>4, <2>1, <2>2, EraseBlock, ErasedIsVacant, ScanMoves
<1>6. CASE ScanEraseFails(l)
  <2>1. UNCHANGED free
    BY <1>6 DEF ScanEraseFails
  <2>2. CASE UNCHANGED flash
    <3>1. BlockInv' /\ flash' \in [Zones -> [Numbers -> [Pages -> Page]]]
      BY <2>2 DEF BlockInv, TypeOK
    <3> QED  BY <1>1, <1>3, <2>1, <2>2, <3>1, ScanMoves
  <2>3. CASE flash' = [flash EXCEPT ![scan.zone][scan.i] = ErasedBlock]
    BY <1>1, <1>3, <1>4, <2>1, <2>3, EraseBlock, ScanMoves
  <2> QED  BY <1>3, <1>6, <2>2, <2>3 DEF ScanEraseFails
<1> QED  BY <1>5, <1>6

\* The first block found for a logical block is mapped.
LEMMA StepScanMaps == ASSUME IInv, ScanMaps  PROVE IInv'
<1> USE DEF IInv
<1> DEFINE l == Scanned(0)
<1>1. /\ scan \in ScanType /\ scan.i \in Numbers /\ scan.i + 1 \in 0 .. Physical
      /\ scan.zone \in Zones /\ LbOf(req.sector) \in LogicalBlocks
      /\ req.pc = "scan" /\ free[scan.i] = 0
      /\ \A k \in LogicalBlocks : table[k] # scan.i
  BY ScanPlace DEF ScanMaps
<1>2. /\ l \in LogicalBlocks /\ table[l] = None /\ table' = [table EXCEPT ![l] = scan.i]
      /\ scan' = [scan EXCEPT !.i = @ + 1,
                    !.phy = IF l = LbOf(req.sector) /\ @ = None THEN scan.i ELSE @]
      /\ UNCHANGED <<flash, free, lastZone, req, maybe, writes, faults, crashes>>
  BY DEF ScanMaps, bounds
<1> HIDE DEF l
<1>3. /\ table' \in [LogicalBlocks -> Numbers \union {None}]
      /\ table'[l] = scan.i
      /\ \A k \in LogicalBlocks : k # l => table'[k] = table[k]
  BY <1>1, <1>2 DEF TypeOK
<1>4. /\ scan' \in ScanType /\ scan'.i = scan.i + 1 /\ scan'.zone = scan.zone
      /\ scan'.phy = IF l = LbOf(req.sector) /\ scan.phy = None THEN scan.i ELSE scan.phy
  BY <1>1, <1>2 DEF ScanType
<1>5. TypeOK'
  BY <1>2, <1>3, <1>4 DEF TypeOK, ScanType
<1>6. ReqInv' /\ NewInv' /\ BlockInv'
  BY <1>1, <1>2, <1>4 DEF ReqInv, NewInv, BlockInv
<1>7. ScanInv'
  <2>1. ASSUME NEW n \in Numbers, n >= scan'.i
        PROVE  free'[n] = 0 /\ \A k \in LogicalBlocks : table'[k] # n
    <3>1. n >= scan.i /\ n # scan.i
      BY <1>1, <1>4, <2>1, BlockNumbers
    <3> QED  BY <1>1, <1>2, <1>3, <3>1 DEF ScanInv
  <2>2. scan'.phy = table'[LbOf(req'.sector)]
    BY <1>1, <1>2, <1>3, <1>4 DEF ScanInv
  <2> QED  BY <2>1, <2>2 DEF ScanInv
<1>8. OneOwner'
  <2>1. \A k \in LogicalBlocks : table'[k] # None => free'[table'[k]] = 0
    BY <1>1, <1>2, <1>3 DEF OneOwner, TypeOK
  <2>2. ASSUME NEW j \in LogicalBlocks, NEW k \in LogicalBlocks, table'[j] # None,
               table'[j] = table'[k]
        PROVE  j = k
    BY <1>1, <1>3, <2>2 DEF OneOwner
  <2> QED  BY <1>1, <1>2, <2>1, <2>2 DEF OneOwner
<1>9. FreeIsVacant'
  BY <1>2, <1>4 DEF FreeIsVacant, Loaded
<1> QED  BY <1>5, <1>6, <1>7, <1>8, <1>9

\* The request finds its block, in the table there was or in the new one.
LEMMA StepFound == ASSUME IInv, LookUp \/ ScanEnd  PROVE IInv'
<1> USE DEF IInv
<1>1. req \in ReqType /\ req.pc \in {"map", "scan"} /\ req.sector \in Sectors
  BY DEF LookUp, ScanEnd, TypeOK, ReqType
<1>2. ZoneOf(req.sector) \in Zones /\ LbOf(req.sector) \in LogicalBlocks
  BY <1>1, Address
<1>3. /\ req' = [req EXCEPT !.pc = "go", !.old = table[LbOf(req.sector)]]
      /\ lastZone' = ZoneOf(req.sector)
      /\ \A z \in Zones : Loaded(z)' => Loaded(z)
      /\ UNCHANGED <<flash, table, free, maybe, writes, faults, crashes>>
      /\ scan' = scan \/ scan' = NoScan
  <2>1. CASE LookUp
    BY <1>1, <2>1 DEF LookUp, Loaded, ram, bounds, ReqType
  <2>2. CASE ScanEnd
    BY <1>1, <2>2 DEF ScanEnd, Loaded, bounds, ReqInv, ScanInv, ReqType
  <2> QED  BY <2>1, <2>2
<1>4. table[LbOf(req.sector)] \in Numbers \union {None}
  BY <1>2 DEF TypeOK
<1>5. /\ req' \in ReqType /\ req'.pc = "go" /\ req'.sector = req.sector /\ req'.left = req.left
      /\ req'.old = table[LbOf(req.sector)]
  BY <1>1, <1>3, <1>4 DEF ReqType, Points
<1>6. NoScan \in ScanType
  BY Sizes, BlockNumbers DEF NoScan, ScanType
<1>7. TypeOK'
  BY <1>2, <1>3, <1>5, <1>6 DEF TypeOK, ScanType
<1>8. ReqInv' /\ ScanInv' /\ NewInv' /\ BlockInv'
  BY <1>1, <1>3, <1>5 DEF ReqInv, ScanInv, NewInv, BlockInv
<1>9. OneOwner' /\ FreeIsVacant'
  BY <1>3, <1>5 DEF OneOwner, FreeIsVacant
<1> QED  BY <1>7, <1>8, <1>9
-----------------------------------------------------------------------------
(***************************************************************************)
(* Writing a block.                                                        *)
(***************************************************************************)

\* A write takes a block from the heap: it is erased and nobody else's.
LEMMA StepPopBlock == ASSUME IInv, PopBlock  PROVE IInv'
<1> USE DEF IInv
<1>1. PICK n \in Numbers :
        /\ LeastFree(n)
        /\ free' = [free EXCEPT ![n] = @ - 1]
        /\ req' = [req EXCEPT !.pc = "program", !.new = n, !.page = 0, !.pages = RoundPages]
  BY DEF PopBlock
<1>2. /\ req \in ReqType /\ req.pc = "go" /\ req.op = "write" /\ req.sector \in Sectors
      /\ UNCHANGED <<flash, table, lastZone, scan, maybe, writes, faults, crashes>>
  BY DEF PopBlock, TypeOK, ReqType, bounds
<1>3. /\ lastZone = ZoneOf(req.sector) /\ lastZone \in Zones /\ LbOf(req.sector) \in LogicalBlocks
      /\ PageOf(req.sector) \in Pages
  BY <1>2, Address DEF ReqInv
<1>4. free[n] = 1
  BY <1>1 DEF LeastFree, OneOwner, TypeOK
<1>5. /\ free' \in [Numbers -> Nat] /\ free'[n] = 0
      /\ \A m \in Numbers : m # n => free'[m] = free[m]
  BY <1>1, <1>4 DEF TypeOK
<1>6. RoundPages \in 0 .. PerBlock
  <2>1. req.left \in Nat /\ req.left >= 1
    BY <1>2, Sizes DEF ReqType, ReqInv
  <2>2. PageOf(req.sector) \in Nat /\ PageOf(req.sector) < PerBlock
    BY <1>3, PageNumbers
  <2> QED  BY <2>1, <2>2, Sizes DEF RoundPages
<1>7. 0 \in 0 .. PerBlock
  BY Sizes
<1>8. req' \in ReqType
  BY <1>1, <1>2, <1>6, <1>7 DEF ReqType, Points
<1>9. /\ req'.pc = "program" /\ req'.op = "write" /\ req'.new = n /\ req'.page = 0
      /\ req'.sector = req.sector /\ req'.left = req.left /\ req'.old = req.old
      /\ req'.pages = RoundPages
  BY <1>1, <1>2 DEF ReqType
<1>10. TypeOK'
  BY <1>2, <1>5, <1>8 DEF TypeOK
<1>11. ReqInv' /\ ScanInv' /\ BlockInv'
  BY <1>2, <1>3, <1>9 DEF ReqInv, ScanInv, BlockInv, RoundPages
<1>12. NewInv'
  <2>1. Vacant(flash[lastZone][n])
    BY <1>2, <1>3, <1>4 DEF FreeIsVacant, Loaded
  <2> QED  BY <1>2, <1>9, <2>1, PageNumbers DEF NewInv, Vacant
<1>13. OneOwner'
  <2>1. ASSUME NEW m \in Numbers  PROVE free'[m] <= 1
    <3>1. CASE m = n
      BY <1>5, <3>1
    <3>2. CASE m # n
      BY <1>5, <3>2 DEF OneOwner
    <3> QED  BY <3>1, <3>2
  <2>2. \A l \in LogicalBlocks : table[l] # n
    BY <1>4, BlockNumbers DEF OneOwner
  <2>3. \A l \in LogicalBlocks : table'[l] # None => free'[table'[l]] = 0
    BY <1>2, <1>5, <2>2 DEF OneOwner, TypeOK
  <2>4. \A k, l \in LogicalBlocks : table'[k] # None /\ table'[k] = table'[l] => k = l
    BY <1>2 DEF OneOwner
  <2> QED  BY <1>2, <1>5, <1>9, <2>1, <2>2, <2>3, <2>4 DEF OneOwner
<1>14. FreeIsVacant'
  BY <1>2, <1>5, <1>9 DEF FreeIsVacant, Loaded
<1> QED  BY <1>10, <1>11, <1>12, <1>13, <1>14

\* The next page of the new block is programmed.
LEMMA StepProgramPage == ASSUME IInv, ProgramPage  PROVE IInv'
<1> USE DEF IInv
<1>1. /\ req \in ReqType /\ req.pc = "program" /\ req.page < PerBlock
      /\ flash' = WithPage(Over(Current, NewPage)) /\ req' = [req EXCEPT !.page = @ + 1]
      /\ UNCHANGED <<table, free, lastZone, scan, maybe, writes, faults, crashes>>
  BY DEF ProgramPage, Programmed, TypeOK, ram, bounds
<1> DEFINE pg == Over(Current, NewPage)
<1>2. pg \in Page /\ pg.la = LbOf(req.sector) /\ flash' = WithPage(pg)
  BY <1>1, Attempts
<1> HIDE DEF pg
<1>3. /\ flash' \in [Zones -> [Numbers -> [Pages -> Page]]]
      /\ BlockInv'
      /\ lastZone \in Zones /\ req.new \in Numbers /\ req.page \in Pages
      /\ \A z \in Zones, n \in Numbers :
           z # lastZone \/ n # req.new => flash'[z][n] = flash[z][n]
      /\ \A p \in Pages :
           flash'[lastZone][req.new][p] =
             IF p = req.page THEN pg ELSE flash[lastZone][req.new][p]
  BY <1>1, <1>2, ProgramBlock
<1>4. req.page \in Nat /\ req.page + 1 \in 0 .. PerBlock
  BY <1>1, <1>3, PageNumbers, Sizes
<1>5. req' \in ReqType
  BY <1>1, <1>4 DEF ReqType
<1>6. /\ req'.pc = "program" /\ req'.op = req.op /\ req'.new = req.new /\ req'.page = req.page + 1
      /\ req'.sector = req.sector /\ req'.left = req.left /\ req'.old = req.old
      /\ req'.pages = req.pages
  BY <1>1 DEF ReqType
<1>7. TypeOK'
  BY <1>1, <1>3, <1>5 DEF TypeOK
<1>8. ReqInv' /\ ScanInv'
  BY <1>1, <1>6 DEF ReqInv, ScanInv, RoundPages
<1>9. NewInv'
  <2>1. ASSUME NEW p \in Pages
        PROVE  IF p < req.page + 1 THEN flash'[lastZone][req.new][p].la = LbOf(req.sector)
               ELSE IF p = 0 THEN flash'[lastZone][req.new][p].la = NoLa
               ELSE flash'[lastZone][req.new][p] = ErasedPage
    <3>1. p \in Nat
      BY PageNumbers
    <3>2. CASE p = req.page
      BY <1>2, <1>3, <1>4, <3>2
    <3>3. CASE p < req.page
      BY <1>1, <1>3, <1>4, <3>1, <3>3 DEF NewInv
    <3>4. CASE p > req.page
      BY <1>1, <1>3, <1>4, <3>1, <3>4 DEF NewInv
    <3> QED  BY <1>4, <3>1, <3>2, <3>3, <3>4
  <2> QED  BY <1>1, <1>6, <2>1 DEF NewInv
<1>10. OneOwner'
  BY <1>1, <1>6 DEF OneOwner
<1>11. FreeIsVacant'
  <2>1. ASSUME NEW z \in Zones, NEW n \in Numbers, Loaded(z)', free'[n] > 0
        PROVE  Vacant(flash'[z][n])
    <3>1. Loaded(z) /\ free[n] > 0 /\ n # req.new
      BY <1>1, <1>6, <2>1 DEF Loaded, OneOwner
    <3> QED  BY <1>3, <3>1 DEF FreeIsVacant
  <2> QED  BY <2>1 DEF FreeIsVacant
<1> QED  BY <1>3, <1>7, <1>8, <1>9, <1>10, <1>11

\* A failed program: the new block is lost to the table and the heap.
LEMMA StepProgramFails == ASSUME IInv, ProgramFails  PROVE IInv'
<1> USE DEF IInv
<1>1. /\ req.pc = "program" /\ req.page < PerBlock /\ Fail /\ faults' \in 0 .. MaxFaults
      /\ flash' \in {flash, Programmed} \union Interrupted
      /\ UNCHANGED <<table, free, lastZone, scan, maybe, writes, crashes>>
  BY Sizes DEF ProgramFails, Fault, TypeOK, ram
<1>2. /\ req' \in ReqType /\ req'.pc \in {"idle", "map"}
      /\ req'.pc # "idle" => req'.left >= 1 /\ req'.sector + req'.left - 1 \in Sectors
  BY <1>1, FailResult
<1>3. /\ flash' \in [Zones -> [Numbers -> [Pages -> Page]]] /\ BlockInv'
      /\ \A z \in Zones, n \in Numbers : n # req.new => flash'[z][n] = flash[z][n]
  <2>1. CASE flash' = flash
    BY <2>1 DEF BlockInv, TypeOK
  <2>2. CASE flash' \in Interrupted
    <3>1. PICK pg \in Torn(Current, NewPage) : flash' = WithPage(pg)
      BY <2>2 DEF Interrupted
    <3> QED  BY <1>1, <3>1, Attempts, ProgramBlock
  <2>3. CASE flash' = Programmed
    <3>1. PICK pg \in Page : pg.la = LbOf(req.sector) /\ flash' = WithPage(pg)
      BY <1>1, <2>3, Attempts DEF Programmed
    <3> QED  BY <1>1, <3>1, ProgramBlock
  <2> QED  BY <1>1, <2>1, <2>2, <2>3
<1>4. TypeOK'
  BY <1>1, <1>2, <1>3 DEF TypeOK
<1>5. ReqInv' /\ ScanInv' /\ NewInv'
  BY <1>2 DEF ReqInv, ScanInv, NewInv
<1>6. OneOwner'
  BY <1>1, <1>2 DEF OneOwner
<1>7. FreeIsVacant'
  <2>1. ASSUME NEW z \in Zones, NEW n \in Numbers, Loaded(z)', free'[n] > 0
        PROVE  Vacant(flash'[z][n])
    <3>1. Loaded(z) /\ free[n] > 0 /\ n # req.new
      BY <1>1, <1>2, <2>1 DEF Loaded, OneOwner
    <3> QED  BY <1>3, <3>1 DEF FreeIsVacant
  <2> QED  BY <2>1 DEF FreeIsVacant
<1> QED  BY <1>3, <1>4, <1>5, <1>6, <1>7

\* What the end of a round leaves of the request.
LEMMA RoundResult ==
  ASSUME IInv, req.pc = "program", RoundDone
  PROVE  /\ maybe' \in [Sectors -> SUBSET Data]
         /\ req' \in ReqType /\ req'.pc \in {"idle", "map"}
         /\ req'.pc # "idle" => req'.left >= 1 /\ req'.sector + req'.left - 1 \in Sectors
<1> USE DEF IInv
<1>1. /\ req \in ReqType /\ req.left >= 1 /\ req.sector + req.left - 1 \in Sectors
      /\ req.pages = RoundPages /\ req.sector \in Sectors
  BY DEF TypeOK, ReqInv, ReqType
<1>2. maybe' \in [Sectors -> SUBSET Data]
  <2>1. {req.data} \in SUBSET Data
    BY <1>1, Sizes DEF ReqType, Data
  <2> QED  BY <2>1 DEF RoundDone, TypeOK
<1>3. CASE req.left = req.pages
  BY <1>2, <1>3, ReturnResult DEF RoundDone
<1>4. CASE req.left # req.pages
  <2>1. req.left \in 1 .. MaxSpan /\ req.sector \in Nat /\ PageOf(req.sector) \in Pages
    BY <1>1, Address, Sizes, SectorNat DEF ReqType
  <2>2. req.pages \in Nat /\ req.pages >= 1 /\ req.pages < req.left
    <3>1. PageOf(req.sector) \in Nat /\ PageOf(req.sector) < PerBlock
      BY <2>1, PageNumbers
    <3> QED  BY <1>1, <1>4, <2>1, <3>1, Sizes DEF RoundPages
  <2> DEFINE next == req.sector + req.pages
             rest == req.left - req.pages
  <2>3. next \in Nat /\ next <= req.sector + req.left - 1 /\ next + rest - 1 = req.sector + req.left - 1
    BY <2>1, <2>2
  <2>4. next \in Sectors
    BY <1>1, <2>3, LowerSector
  <2>5. rest \in 0 .. MaxSpan /\ rest >= 1
    BY <2>1, <2>2, Sizes
  <2>6. req' = [req EXCEPT !.pc = "map", !.sector = next, !.left = rest, !.old = None,
                  !.new = None, !.page = 0, !.pages = 0]
    BY <1>4 DEF RoundDone
  <2> HIDE DEF next, rest
  <2>7. 0 \in 0 .. PerBlock
    BY Sizes
  <2>8. req' \in ReqType
    BY <1>1, <2>4, <2>5, <2>6, <2>7 DEF ReqType, Points
  <2>9. req'.pc = "map" /\ req'.sector = next /\ req'.left = rest
    BY <1>1, <2>6 DEF ReqType
  <2> QED  BY <1>1, <1>2, <2>3, <2>5, <2>8, <2>9
<1> QED  BY <1>3, <1>4

\* The end of a round: the new block is mapped, and the old one is erased and
\* in the heap, or its erase failed and nobody has it.
LEMMA StepCommit == ASSUME IInv, Commit \/ CommitEraseFails  PROVE IInv'
<1> USE DEF IInv
<1>1. /\ req \in ReqType /\ req.pc = "program" /\ Remap /\ RoundDone
      /\ faults' \in 0 .. MaxFaults
      /\ UNCHANGED <<lastZone, scan, writes, crashes>>
  BY Sizes DEF Commit, CommitEraseFails, Fault, TypeOK, bounds
<1>2. /\ req.sector \in Sectors /\ lastZone = ZoneOf(req.sector) /\ req.new \in Numbers
      /\ req.old = table[LbOf(req.sector)]
  BY <1>1 DEF ReqInv, ReqType
<1>3. lastZone \in Zones /\ LbOf(req.sector) \in LogicalBlocks
  BY <1>2, Address
<1>4. /\ table' \in [LogicalBlocks -> Numbers \union {None}]
      /\ table'[LbOf(req.sector)] = req.new
      /\ \A l \in LogicalBlocks : l # LbOf(req.sector) => table'[l] = table[l]
  BY <1>1, <1>2, <1>3 DEF Remap, TypeOK
<1>5. /\ maybe' \in [Sectors -> SUBSET Data]
      /\ req' \in ReqType /\ req'.pc \in {"idle", "map"}
      /\ req'.pc # "idle" => req'.left >= 1 /\ req'.sector + req'.left - 1 \in Sectors
  BY <1>1, RoundResult
<1>6. req.old # None =>
        /\ req.old \in Numbers /\ req.old # req.new /\ free[req.old] = 0
        /\ \A l \in LogicalBlocks : l # LbOf(req.sector) => table[l] # req.old
  BY <1>1, <1>2, <1>3 DEF OneOwner, ReqType
<1>7. \/ UNCHANGED <<flash, free>>
      \/ req.old # None /\ flash' = [flash EXCEPT ![lastZone][req.old] = ErasedBlock]
           /\ (UNCHANGED free \/ Insert(req.old))
  BY DEF Commit, CommitEraseFails, EraseOld
<1>8. /\ flash' \in [Zones -> [Numbers -> [Pages -> Page]]] /\ BlockInv'
      /\ \A z \in Zones, n \in Numbers :
           flash'[z][n] = flash[z][n] \/ flash'[z][n] = ErasedBlock
  <2>1. CASE UNCHANGED flash
    BY <2>1 DEF BlockInv, TypeOK
  <2>2. CASE req.old # None /\ flash' = [flash EXCEPT ![lastZone][req.old] = ErasedBlock]
    <3>1. lastZone \in Zones /\ req.old \in Numbers
      BY <1>3, <1>6, <2>2
    <3>2. /\ flash' \in [Zones -> [Numbers -> [Pages -> Page]]]
          /\ BlockInv'
          /\ \A z \in Zones, n \in Numbers :
               flash'[z][n] = IF z = lastZone /\ n = req.old THEN ErasedBlock ELSE flash[z][n]
      BY ONLY <2>2, <3>1, EraseBlock, TypeOK, BlockInv, ZenonT(60)
    <3>3. ASSUME NEW z \in Zones, NEW n \in Numbers
          PROVE  flash'[z][n] = flash[z][n] \/ flash'[z][n] = ErasedBlock
      <4>1. CASE z = lastZone /\ n = req.old
        BY ONLY <3>2, <4>1
      <4>2. CASE ~(z = lastZone /\ n = req.old)
        BY ONLY <3>2, <4>2
      <4> QED  BY ONLY <4>1, <4>2
    <3> QED  BY ONLY <3>2, <3>3
  <2> QED  BY <1>7, <2>1, <2>2
<1>9. /\ free' \in [Numbers -> Nat]
      /\ \A n \in Numbers :
           \/ free'[n] = free[n]
           \/ /\ n = req.old /\ n # None /\ free'[n] = 1
              /\ Vacant(flash'[lastZone][n])
  <2>1. CASE UNCHANGED free
    BY <2>1 DEF TypeOK
  <2>2. CASE /\ req.old # None /\ flash' = [flash EXCEPT ![lastZone][req.old] = ErasedBlock]
             /\ Insert(req.old)
    <3>1. flash'[lastZone][req.old] = ErasedBlock
      BY <1>3, <1>6, <2>2, EraseBlock
    <3> QED  BY <1>6, <2>2, <3>1, ErasedIsVacant DEF Insert, TypeOK
  <2> QED  BY <1>7, <2>1, <2>2
<1>10. TypeOK'
  BY <1>1, <1>4, <1>5, <1>8, <1>9 DEF TypeOK
<1>11. ReqInv' /\ ScanInv' /\ NewInv'
  BY <1>5 DEF ReqInv, ScanInv, NewInv
<1>12. OneOwner'
  <2>1. \A n \in Numbers : free'[n] <= 1
    BY <1>9 DEF OneOwner
  <2>2. ASSUME NEW l \in LogicalBlocks, table'[l] # None
        PROVE  free'[table'[l]] = 0
    <3>1. CASE l = LbOf(req.sector)
      BY <1>1, <1>2, <1>4, <1>6, <1>9, <3>1 DEF OneOwner
    <3>2. CASE l # LbOf(req.sector)
      <4>1. table'[l] = table[l] /\ table[l] \in Numbers /\ table[l] # None
        BY <1>4, <2>2, <3>2 DEF TypeOK
      <4>2. free[table[l]] = 0 /\ table[l] # req.old
        BY <1>2, <1>6, <3>2, <4>1 DEF OneOwner
      <4> QED  BY <1>9, <4>1, <4>2
    <3> QED  BY <3>1, <3>2
  <2>3. ASSUME NEW k \in LogicalBlocks, NEW l \in LogicalBlocks, table'[k] # None,
               table'[k] = table'[l]
        PROVE  k = l
    BY <1>1, <1>4, <2>3 DEF OneOwner
  <2> QED  BY <1>5, <2>1, <2>2, <2>3 DEF OneOwner
<1>13. FreeIsVacant'
  <2>1. ASSUME NEW z \in Zones, NEW n \in Numbers, Loaded(z)', free'[n] > 0
        PROVE  Vacant(flash'[z][n])
    <3>1. z = lastZone /\ Loaded(z)
      BY <1>1, <1>5, <2>1 DEF Loaded
    <3>2. free'[n] = free[n] => Vacant(flash'[z][n])
      BY <1>8, <2>1, <3>1, ErasedIsVacant DEF FreeIsVacant
    <3> QED  BY <1>9, <3>1, <3>2
  <2> QED  BY <2>1 DEF FreeIsVacant
<1> QED  BY <1>8, <1>10, <1>11, <1>12, <1>13
-----------------------------------------------------------------------------
(***************************************************************************)
(* The theorems.                                                           *)
(***************************************************************************)

\* The invariant holds of an erased card and an empty layer.
LEMMA InitInv == ASSUME Init  PROVE IInv
<1>1. TypeOK
  <2>1. maybe \in [Sectors -> SUBSET Data]
    BY Sizes DEF Init, Data, Blank
  <2>2. flash \in [Zones -> [Numbers -> [Pages -> Page]]]
    BY PageTypes DEF Init
  <2>3. /\ NoHeap \in [Numbers -> Nat] /\ NoTable \in [LogicalBlocks -> Numbers \union {None}]
        /\ NoScan \in [zone : Zones, i : 0 .. Physical, phy : Numbers \union {None}]
    BY Sizes, BlockNumbers DEF NoHeap, NoTable, NoScan
  <2> QED  BY <2>1, <2>2, <2>3, NoRequestType, Sizes DEF Init, TypeOK
<1>2. req.pc = "idle" /\ table = NoTable /\ free = NoHeap /\ lastZone = None
  BY NoRequestType DEF Init
<1>3. ReqInv /\ ScanInv /\ NewInv
  BY <1>2 DEF ReqInv, ScanInv, NewInv
<1>4. OneOwner /\ FreeIsVacant
  BY <1>2 DEF OneOwner, FreeIsVacant, NoTable, NoHeap
<1>5. BlockInv
  BY PageTypes, LogicalAddresses, ErasedIsVacant DEF Init, BlockInv, ErasedBlock
<1> QED  BY <1>1, <1>3, <1>4, <1>5 DEF IInv

\* Every step keeps it.
LEMMA NextInv == ASSUME IInv, [Next]_vars  PROVE IInv'
<1>1. CASE Request
  BY <1>1, StepRequest
<1>2. CASE Serve
  BY <1>2, StepFound, StepScanStart, StepScanPasses, StepScanMaps, StepScanErases, StepQuiet,
     StepPopBlock, StepProgramPage, StepCommit DEF Serve, ScanBlock
<1>3. CASE CardFault
  BY <1>3, StepScanErases, StepGiveUp, StepScanPasses, StepQuiet, StepProgramFails, StepCommit
     DEF CardFault
<1>4. CASE Release \/ Initialize
  BY <1>4, StepGiveUp
<1>5. CASE PowerLoss
  BY <1>5, StepPowerLoss
<1>6. CASE UNCHANGED vars
  BY <1>6 DEF vars, IInv, TypeOK, ReqInv, ScanInv, BlockInv, NewInv, OneOwner, FreeIsVacant,
     Loaded, RoundPages
<1> QED  BY <1>1, <1>2, <1>3, <1>4, <1>5, <1>6 DEF Next

\* The invariant holds in every state of the layer.
THEOREM Invariance == Spec => []IInv
<1>1. Init => IInv
  BY InitInv
<1>2. IInv /\ [Next]_vars => IInv'
  BY NextInv
<1> QED  BY <1>1, <1>2, PTL DEF Spec

\* Every variable of the layer keeps its type: no request leaves the card, no
\* number in the table, the heap or the scan is outside a zone
\* (xddrv_readsector to GenerateTranslationTable).
THEOREM LayerTypes == Spec => []TypeOK
<1>1. IInv => TypeOK
  BY DEF IInv
<1> QED  BY <1>1, Invariance, PTL

\* A block is in the heap, mapped by one logical block or being written, and
\* never two of these, whatever fails and wherever the power goes
\* (GenerateTranslationTable, steps 3 and 7 of the write functions).
THEOREM OwnedOnce == Spec => []OneOwner
<1>1. IInv => OneOwner
  BY DEF IInv
<1> QED  BY <1>1, Invariance, PTL

\* Every block of the heap is vacant, though XD_ReadSpare looks at the spare area
\* of the first page only: XD_WriteSingle never programs a spare area twice, nor
\* any page but the first, whatever failed and wherever the power went.
THEOREM HeapVacant == Spec => []FreeIsVacant
<1>1. IInv => FreeIsVacant
  BY DEF IInv
<1> QED  BY <1>1, Invariance, PTL
=============================================================================
