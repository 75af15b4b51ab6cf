---------------------------- MODULE XdDataProofs ----------------------------
(***************************************************************************)
(* What the xD layer does with the data on the card, for every size of the *)
(* card: building the table erases no only copy, no block is lost, and a   *)
(* read returns what was written.  Each needs a condition, without which   *)
(* the code does lose copies, blocks or data.                              *)
(***************************************************************************)
EXTENDS XdLayerProofs

\* The first zone is the only one: GenerateTranslationTable reads a mapped
\* duplicate as a block of zone 0.
OneZone == NumZones = 1

\* No program or erase fails, the scan reads every block or is given up, and the
\* power does not go while a block is being written: nothing leaves two blocks
\* with one logical address, or one that the scan does not see.
Harmless == Faults \subseteq {"read", "memory", "removed"} /\ "program" \notin CrashAt

\* No failure leaves a block outside the table and the heap either.
Undisturbed == Harmless /\ Faults \subseteq {"removed"}

\* The table is built once, before anything is written, and kept.
OneTable == OneZone /\ ~Restarts /\ CrashAt = {}

BeingWritten(z, n) == req.pc = "program" /\ z = lastZone /\ n = req.new
Carries(z, n, l) == flash[z][n][0].la = l

\* What a read of a sector may return.
Good(s, d) == d \in maybe[s] \/ (d = Filler /\ Blank \in maybe[s])

\* What a page of the block being written is to hold.
InRound(p) == p \in PageOf(req.sector) .. (PageOf(req.sector) + req.pages - 1)
Content(p) ==
  IF InRound(p) THEN req.data
  ELSE IF req.old # None THEN flash[lastZone][req.old][p].data
  ELSE IF req.multi THEN Filler ELSE Blank

\* The first page of a block of the heap, and of the block being written until
\* it is programmed, is erased: no torn page was taken for one.
FreeErased ==
  \A z \in Zones, n \in Numbers : Loaded(z) /\ free[n] > 0 => flash[z][n][0] = ErasedPage
NewErased ==
  req.pc = "program" /\ req.page = 0 => flash[lastZone][req.new][0] = ErasedPage

\* No first page is torn.
Clean ==
  \A z \in Zones, n \in Numbers : flash[z][n][0].la = NoLa => flash[z][n][0] = ErasedPage

\* The pages programmed so far hold it.
NewData ==
  req.pc = "program" =>
    \A p \in Pages : p < req.page => flash[lastZone][req.new][p].data = Content(p)

\* A page that names a logical block has only such pages before it.
AscInv ==
  \A z \in Zones, n \in Numbers : \A p, q \in Pages :
    p < q /\ flash[z][n][q].la \in LogicalBlocks => flash[z][n][p].la \in LogicalBlocks

\* The scan maps a block under the address it carries.
MapsInv ==
  req.pc = "scan" =>
    \A l \in LogicalBlocks : table[l] # None => Carries(scan.zone, table[l], l)

\* With one table: what is mapped is good, what is not was not written;
MapData ==
  req.pc # "scan" =>
    \A s \in Sectors : ZoneOf(s) = lastZone =>
      IF table[LbOf(s)] = None THEN Blank \in maybe[s]
      ELSE Good(s, flash[lastZone][table[LbOf(s)]][PageOf(s)].data)

\* and until the table is complete there is nothing to map.
FreshInv ==
  /\ lastZone = None =>
       /\ \A z \in Zones, n \in Numbers : flash[z][n] = ErasedBlock
       /\ \A s \in Sectors : Blank \in maybe[s]
  /\ req.pc = "scan" => lastZone = None /\ table = NoTable

\* With harmless faults a logical block has one copy, and the blocks that the
\* scan never looks at have none;
CopyInv ==
  \A z \in Zones :
    /\ \A n \in Numbers : flash[z][n][0].la # BadLa
    /\ \A n \in Numbers : n < StartBlock(z) => flash[z][n][0].la = NoLa
    /\ \A m, n \in Numbers, l \in LogicalBlocks :
         /\ Carries(z, m, l) /\ ~BeingWritten(z, m)
         /\ Carries(z, n, l) /\ ~BeingWritten(z, n)
         => m = n

\* the table maps what the scan has passed, and nothing else;
TableInv ==
  \A z \in Zones : Loaded(z) =>
    /\ \A l \in LogicalBlocks : table[l] # None => Carries(z, table[l], l)
    /\ \A n \in Numbers : free[n] > 0 \/ BeingWritten(z, n) => n >= StartBlock(z)
    /\ req.pc = "scan" => scan.i >= StartBlock(z)
    /\ \A n \in Numbers, l \in LogicalBlocks :
         /\ Carries(z, n, l) /\ ~BeingWritten(z, n)
         /\ req.pc = "scan" => n < scan.i
         => table[l] = n

\* and the copy is good, or there is none and the sector was not written.
CardInv ==
  \A s \in Sectors :
    /\ \A n \in Numbers :
         Carries(ZoneOf(s), n, LbOf(s)) /\ ~BeingWritten(ZoneOf(s), n) =>
           Good(s, flash[ZoneOf(s)][n][PageOf(s)].data)
    /\ (\A n \in Numbers : Carries(ZoneOf(s), n, LbOf(s)) => BeingWritten(ZoneOf(s), n)) =>
         Blank \in maybe[s]

\* Undisturbed, the table and the heap account for every block the scan has
\* passed.
Owned(z, n) == free[n] > 0 \/ BeingWritten(z, n) \/ \E l \in LogicalBlocks : table[l] = n
OwnedInv ==
  \A z \in Zones : Loaded(z) =>
    \A n \in Numbers :
      n >= StartBlock(z) /\ (req.pc = "scan" => n < scan.i) => Owned(z, n)

-----------------------------------------------------------------------------
(* Sectors of one block                                                    *)

\* A number has one quotient and one remainder.
LEMMA DivisionUnique ==
  ASSUME NEW a \in Nat, NEW k \in Nat \ {0}, NEW q \in Nat, NEW r \in Nat, r < k,
         a = k * q + r
  PROVE  a \div k = q /\ a % k = r
<1>1. a \div k \in Nat /\ a % k \in 0 .. (k - 1) /\ a = k * (a \div k) + (a % k)
  BY Division
<1> DEFINE x == a \div k
           y == a % k
<1>2. x \in Nat /\ y \in Nat /\ y < k /\ k * q + r = k * x + y
  BY <1>1
<1> HIDE DEF x, y
<1>3. ASSUME q > x PROVE FALSE
  <2> DEFINE d == q - x
  <2>1. d \in Nat /\ d >= 1 /\ q = x + d
    BY <1>2, <1>3
  <2> HIDE DEF d
  <2>2. k * q = k * x + k * d
    BY <1>2, <2>1
  <2>3. k * d >= k
    BY <2>1
  <2>4. k * q \in Nat /\ k * x \in Nat /\ k * d \in Nat
    BY <1>2, <2>1
  <2> QED  BY <1>2, <2>2, <2>3, <2>4
<1>4. ASSUME q < x PROVE FALSE
  <2> DEFINE d == x - q
  <2>1. d \in Nat /\ d >= 1 /\ x = q + d
    BY <1>2, <1>4
  <2> HIDE DEF d
  <2>2. k * x = k * q + k * d
    BY <1>2, <2>1
  <2>3. k * d >= k
    BY <2>1
  <2>4. k * q \in Nat /\ k * x \in Nat /\ k * d \in Nat
    BY <1>2, <2>1
  <2> QED  BY <1>2, <2>2, <2>3, <2>4
<1>5. q = x
  BY <1>2, <1>3, <1>4
<1>6. k * q \in Nat
  OBVIOUS
<1>7. y = r
  BY <1>2, <1>5, <1>6
<1> QED  BY <1>5, <1>7 DEF x, y

\* Sectors of one logical block are as far apart as their pages.
LEMMA SameBlock ==
  ASSUME NEW s \in Sectors, NEW t \in Sectors, ZoneOf(s) = ZoneOf(t), LbOf(s) = LbOf(t)
  PROVE  s - t = PageOf(s) - PageOf(t)
<1>1. s \in Nat /\ t \in Nat /\ PerBlock \in Nat \ {0} /\ Logical \in Nat \ {0}
  BY SectorNat, XdAssumption
<1> DEFINE a == s \div PerBlock
           b == t \div PerBlock
<1>2. a \in Nat /\ b \in Nat /\ s = PerBlock * a + PageOf(s) /\ t = PerBlock * b + PageOf(t)
      /\ PageOf(s) \in Nat /\ PageOf(t) \in Nat
  <2>1. a \in Nat /\ s = PerBlock * a + PageOf(s)
    BY <1>1, Division DEF PageOf
  <2>2. b \in Nat /\ t = PerBlock * b + PageOf(t)
    BY <1>1, Division DEF PageOf
  <2>3. PageOf(s) \in Nat /\ PageOf(t) \in Nat
    BY Address, PageNumbers
  <2> HIDE DEF a, b
  <2> QED  BY <2>1, <2>2, <2>3
<1>3. a = Logical * (a \div Logical) + (a % Logical)
  BY <1>1, <1>2, Division
<1>4. b = Logical * (b \div Logical) + (b % Logical)
  BY <1>1, <1>2, Division
<1>5. a \div Logical = b \div Logical /\ a % Logical = b % Logical
  BY DEF ZoneOf, LbOf
<1>6. a = b
  BY <1>3, <1>4, <1>5
<1> HIDE DEF a, b
<1>7. PerBlock * a \in Nat
  BY <1>1, <1>2
<1> QED  BY <1>2, <1>6, <1>7

\* A round of a write covers the sectors of its block whose pages it replaces.
LEMMA RoundSectors ==
  ASSUME IInv, req.pc = "program", NEW s \in Sectors
  PROVE  s \in req.sector .. (req.sector + req.pages - 1) <=>
           ZoneOf(s) = lastZone /\ LbOf(s) = LbOf(req.sector) /\ InRound(PageOf(s))
<1> DEFINE t == req.sector
<1>1. /\ req \in ReqType /\ t \in Sectors /\ req.left >= 1 /\ lastZone = ZoneOf(t)
      /\ req.pages = RoundPages
  BY DEF IInv, TypeOK, ReqInv, ReqType
<1>2. /\ s \in Nat /\ t \in Nat /\ PerBlock \in Nat \ {0} /\ req.left \in Nat
      /\ PageOf(t) \in Nat /\ PageOf(t) < PerBlock /\ PageOf(s) \in Nat /\ PageOf(s) < PerBlock
  BY <1>1, SectorNat, Sizes, Address, PageNumbers DEF ReqType
<1>3. req.pages \in Nat /\ PageOf(t) + req.pages <= PerBlock
  BY <1>1, <1>2 DEF RoundPages
<1>4. ASSUME s \in t .. (t + req.pages - 1)
      PROVE  ZoneOf(s) = ZoneOf(t) /\ LbOf(s) = LbOf(t) /\ InRound(PageOf(s))
  <2> DEFINE q == t \div PerBlock
             r == PageOf(t) + (s - t)
  <2>1. q \in Nat /\ t = PerBlock * q + PageOf(t)
    BY <1>2, Division DEF PageOf
  <2>2. r \in Nat /\ r < PerBlock /\ r \in PageOf(t) .. (PageOf(t) + req.pages - 1)
    BY <1>2, <1>3, <1>4
  <2>3. s = PerBlock * q + r
    <3> HIDE DEF q
    <3>1. PerBlock * q \in Nat
      BY <1>2, <2>1
    <3> QED  BY <1>2, <2>1, <3>1
  <2> HIDE DEF r, q
  <2>4. s \div PerBlock = q /\ s % PerBlock = r
    BY <1>2, <2>1, <2>2, <2>3, DivisionUnique
  <2> QED  BY <2>2, <2>4 DEF ZoneOf, LbOf, PageOf, InRound, q
<1>5. ASSUME ZoneOf(s) = ZoneOf(t), LbOf(s) = LbOf(t), InRound(PageOf(s))
      PROVE  s \in t .. (t + req.pages - 1)
  <2>1. s - t = PageOf(s) - PageOf(t)
    BY <1>1, <1>5, SameBlock
  <2> QED  BY <1>2, <1>3, <1>5, <2>1 DEF InRound
<1> QED  BY <1>1, <1>4, <1>5

-----------------------------------------------------------------------------
(* The steps that change the card                                          *)

\* The card changes by the erasure of a block, which during the scan is the
\* block the scan is at, or by a page of the block being written.
LEMMA CardStep ==
  ASSUME IInv, [Next]_vars
  PROVE  \/ UNCHANGED flash
         \/ \E y \in Zones, m \in Numbers :
              /\ flash' = [flash EXCEPT ![y][m] = ErasedBlock]
              /\ req.pc = "scan" =>
                   /\ Scanning /\ y = scan.zone /\ m = scan.i
                   /\ \E l \in LogicalBlocks : Duplicate(l) /\ Victim(l) = "scanned"
         \/ /\ req.pc = "program" /\ req.page < PerBlock
            /\ \E pg \in Page : pg.la \in {LbOf(req.sector), BadLa, NoLa} /\ flash' = WithPage(pg)
<1>1. CASE \E l \in LogicalBlocks : ScanErases(l) \/ ScanEraseFails(l)
  <2>1. PICK l \in LogicalBlocks : ScanErases(l) \/ ScanEraseFails(l)
    BY <1>1
  <2>2. Scanning /\ Duplicate(l) /\ Victim(l) # "none"
    BY <2>1 DEF ScanErases, ScanEraseFails
  <2>3. Victim(l) = "scanned"
    BY <2>2, NeverTheMapped DEF Victim
  <2>4. flash' = flash \/ flash' = [flash EXCEPT ![scan.zone][scan.i] = ErasedBlock]
    BY <2>1, <2>3 DEF ScanErases, ScanEraseFails, GoesZone, GoesNumber
  <2>5. scan.zone \in Zones /\ scan.i \in Numbers
    BY <2>2, ScanPlace
  <2> QED  BY <2>2, <2>3, <2>4, <2>5
<1>2. CASE ProgramPage \/ ProgramFails
  <2>1. /\ req.pc = "program" /\ req.page < PerBlock
        /\ flash' \in {flash, Programmed} \union Interrupted
    BY <1>2 DEF ProgramPage, ProgramFails
  <2> QED  BY <2>1, Attempts DEF Programmed, Interrupted
<1>3. CASE Commit \/ CommitEraseFails \/ PowerLoss
  <2>1. \/ UNCHANGED flash
        \/ req.pc = "program" /\ req.page < PerBlock /\ flash' \in Interrupted
        \/ /\ req.pc = "program" /\ req.old # None
           /\ flash' = [flash EXCEPT ![lastZone][req.old] = ErasedBlock]
    BY <1>3 DEF Commit, CommitEraseFails, EraseOld, PowerLoss
  <2>2. req.pc = "program" /\ req.old # None => lastZone \in Zones /\ req.old \in Numbers
    BY Address DEF IInv, TypeOK, ReqInv, ReqType
  <2>3. CASE req.pc = "program" /\ req.page < PerBlock /\ flash' \in Interrupted
    BY <2>3, Attempts DEF Interrupted
  <2>4. CASE /\ req.pc = "program" /\ req.old # None
             /\ flash' = [flash EXCEPT ![lastZone][req.old] = ErasedBlock]
    BY <2>2, <2>4
  <2> QED  BY <2>1, <2>3, <2>4
<1>4. CASE Request \/ Release \/ Initialize \/ UNCHANGED vars
  BY <1>4 DEF Request, ReadRequest, WriteRequest, Release, Initialize, vars
<1>5. CASE \/ LookUp \/ ScanStart \/ ScanEnd \/ ReadSector \/ NoBlock \/ PopBlock
           \/ ScanErased \/ ScanBad \/ ScanMaps \/ \E l \in LogicalBlocks : ScanLeaves(l)
  BY <1>5 DEF LookUp, ScanStart, ScanEnd, ReadSector, NoBlock, PopBlock, ScanErased, ScanBad,
              ScanMaps, ScanLeaves
<1>6. CASE NoMemory \/ ScanReadFails \/ ScanRemoved \/ ReadFails \/ ReadBackFails
  BY <1>6 DEF NoMemory, ScanReadFails, ScanRemoved, ReadFails, ReadBackFails
<1> QED  BY <1>1, <1>2, <1>3, <1>4, <1>5, <1>6 DEF Next, Serve, ScanBlock, CardFault

\* Only the pop of a block starts the programming of one.
LEMMA ProgramStep ==
  ASSUME IInv, [Next]_vars, req'.pc = "program"
  PROVE  PopBlock \/ ProgramPage \/ UNCHANGED vars
<1>0. req \in ReqType
  BY DEF IInv, TypeOK
<1>1. ~Request
  BY NoRequestType DEF Request, ReadRequest, WriteRequest, ReqType
<1>2. ~Release /\ ~Initialize /\ ~PowerLoss
  BY NoRequestType DEF Release, Initialize, PowerLoss
<1>3. ~LookUp /\ ~ScanStart /\ ~ScanEnd
  BY <1>0 DEF LookUp, ScanStart, ScanEnd, ReqType
<1>4. /\ ~ScanErased /\ ~ScanBad /\ ~ScanMaps /\ ~ScanReadFails
      /\ \A l \in LogicalBlocks : ~ScanLeaves(l) /\ ~ScanErases(l) /\ ~ScanEraseFails(l)
  BY DEF ScanErased, ScanBad, ScanMaps, ScanReadFails, ScanLeaves, ScanErases, ScanEraseFails,
         Scanning
<1>5. ~ReadSector
  BY <1>0, ReturnResult DEF ReadSector, ReqType
<1>6. Fail => req.pc = "idle"
  BY FailResult DEF IInv
<1>7. /\ ~NoBlock /\ ~NoMemory /\ ~ScanRemoved /\ ~ReadFails /\ ~ReadBackFails
      /\ ~ProgramFails
  BY <1>6 DEF NoBlock, NoMemory, ScanRemoved, Scanning, ReadFails, ReadBackFails, ProgramFails
<1>8. ~Commit /\ ~CommitEraseFails
  BY RoundResult DEF Commit, CommitEraseFails
<1> QED  BY <1>1, <1>2, <1>3, <1>4, <1>5, <1>7, <1>8 DEF Next, Serve, ScanBlock, CardFault

\* The page that is programmed next is erased, unless it is a torn first page.
LEMMA CurrentErased ==
  ASSUME IInv, NewErased, req.pc = "program", req.page < PerBlock
  PROVE  Current = ErasedPage
<1>1. req.page \in Pages /\ req.page \in Nat
  BY PageNumbers, Sizes DEF IInv, TypeOK, ReqType
<1> QED  BY <1>1 DEF Current, NewErased, IInv, NewInv

\* The page that is programmed next joins the ones that are as they should be.
LEMMA NewDataStep ==
  ASSUME IInv, NewErased, NewData, [Next]_vars
  PROVE  NewData'
<1> SUFFICES ASSUME req'.pc = "program" PROVE NewData'
  BY DEF NewData
<1>1. CASE PopBlock
  <2>1. req'.page = 0
    BY <1>1 DEF PopBlock, IInv, TypeOK, ReqType
  <2>2. \A p \in Pages : ~(p < 0)
    BY PageNumbers
  <2> QED  BY <2>1, <2>2 DEF NewData
<1>2. CASE ProgramPage
  <2>1. /\ req.pc = "program" /\ req.page < PerBlock /\ req \in ReqType
        /\ flash' = WithPage(NewPage) /\ req' = [req EXCEPT !.page = @ + 1]
        /\ lastZone' = lastZone
    BY <1>2, CurrentErased, Attempts DEF ProgramPage, Programmed, IInv, TypeOK, ram
  <2>2. NewPage \in Page /\ NewPage.la = LbOf(req.sector)
    BY <2>1, NewPageType
  <2>3. /\ lastZone \in Zones /\ req.new \in Numbers /\ req.page \in Pages
        /\ \A z \in Zones, n \in Numbers :
             z # lastZone \/ n # req.new => flash'[z][n] = flash[z][n]
        /\ \A p \in Pages :
             flash'[lastZone][req.new][p] =
               IF p = req.page THEN NewPage ELSE flash[lastZone][req.new][p]
    BY <2>1, <2>2, ProgramBlock
  <2>4. /\ req'.page = req.page + 1 /\ req'.new = req.new /\ req'.old = req.old
        /\ req'.sector = req.sector /\ req'.pages = req.pages /\ req'.data = req.data
        /\ req'.multi = req.multi
    BY <2>1 DEF ReqType
  <2>5. req.old # None => req.old \in Numbers /\ req.old # req.new
    BY <2>1, Address DEF IInv, OneOwner, ReqInv, ReqType
  <2>6. req.old # None => flash'[lastZone][req.old] = flash[lastZone][req.old]
    BY <2>3, <2>5
  <2>7. \A p \in Pages : Content(p)' = Content(p)
    BY <2>1, <2>4, <2>6 DEF Content, InRound
  <2>8. NewPage.data = Content(req.page)
    BY DEF NewPage, Content, InRound
  <2>9. ASSUME NEW p \in Pages, p < req.page + 1
        PROVE  flash'[lastZone][req.new][p].data = Content(p)'
    <3>1. CASE p = req.page
      BY <2>3, <2>7, <2>8, <3>1
    <3>2. CASE p # req.page
      <4>1. p < req.page
        BY <2>3, <2>9, <3>2, PageNumbers
      <4> QED  BY <2>1, <2>3, <2>7, <3>2, <4>1 DEF NewData
    <3> QED  BY <3>1, <3>2
  <2> QED  BY <2>1, <2>4, <2>9 DEF NewData
<1>3. CASE UNCHANGED vars
  BY <1>3 DEF vars, NewData, Content, InRound
<1> QED  BY <1>1, <1>2, <1>3, ProgramStep

\* Programming ascends.
LEMMA AscStep ==
  ASSUME IInv, AscInv, [Next]_vars
  PROVE  AscInv'
<1>1. CASE UNCHANGED flash
  BY <1>1 DEF AscInv
<1>2. ASSUME NEW y \in Zones, NEW m \in Numbers, flash' = [flash EXCEPT ![y][m] = ErasedBlock]
      PROVE  AscInv'
  <2>1. \A z \in Zones, n \in Numbers :
          flash'[z][n] = IF z = y /\ n = m THEN ErasedBlock ELSE flash[z][n]
    BY <1>2, EraseBlock DEF IInv
  <2>2. \A p \in Pages : ErasedBlock[p].la \notin LogicalBlocks
    BY PageTypes, LogicalAddresses DEF ErasedBlock
  <2>3. ASSUME NEW z \in Zones, NEW n \in Numbers, NEW p \in Pages, NEW q \in Pages, p < q,
               flash'[z][n][q].la \in LogicalBlocks
        PROVE  flash'[z][n][p].la \in LogicalBlocks
    BY <2>1, <2>2, <2>3 DEF AscInv
  <2> QED  BY <2>3 DEF AscInv
<1>3. ASSUME req.pc = "program", req.page < PerBlock, NEW pg \in Page,
             pg.la \in {LbOf(req.sector), BadLa, NoLa}, flash' = WithPage(pg)
      PROVE  AscInv'
  <2>1. /\ lastZone \in Zones /\ req.new \in Numbers /\ req.page \in Pages
        /\ \A z \in Zones, n \in Numbers :
             z # lastZone \/ n # req.new => flash'[z][n] = flash[z][n]
        /\ \A p \in Pages :
             flash'[lastZone][req.new][p] =
               IF p = req.page THEN pg ELSE flash[lastZone][req.new][p]
    BY <1>3, ProgramBlock
  <2>2. LbOf(req.sector) \in LogicalBlocks
    BY Address DEF IInv, TypeOK, ReqType
  <2>3. ASSUME NEW p \in Pages, NEW q \in Pages, p < q,
               flash'[lastZone][req.new][q].la \in LogicalBlocks
        PROVE  flash'[lastZone][req.new][p].la \in LogicalBlocks
    <3>1. p \in Nat /\ q \in Nat /\ req.page \in Nat
      BY <2>1, PageNumbers
    <3>2. q <= req.page
      <4> SUFFICES ASSUME q > req.page PROVE FALSE
        BY <3>1
      <4>1. flash'[lastZone][req.new][q] = ErasedPage
        BY <1>3, <2>1, <3>1 DEF IInv, NewInv
      <4> QED  BY <2>3, <4>1, PageTypes, LogicalAddresses
    <3>3. p < req.page
      BY <2>3, <3>1, <3>2
    <3>4. flash[lastZone][req.new][p].la = LbOf(req.sector)
      BY <1>3, <3>3 DEF IInv, NewInv
    <3> QED  BY <2>1, <2>2, <3>1, <3>3, <3>4
  <2>4. ASSUME NEW z \in Zones, NEW n \in Numbers, NEW p \in Pages, NEW q \in Pages, p < q,
               flash'[z][n][q].la \in LogicalBlocks
        PROVE  flash'[z][n][p].la \in LogicalBlocks
    BY <2>1, <2>3, <2>4 DEF AscInv
  <2> QED  BY <2>4 DEF AscInv
<1> QED  BY <1>1, <1>2, <1>3, CardStep

-----------------------------------------------------------------------------
(* Building the table                                                      *)

\* The steps of a scan.
LEMMA ScanStep ==
  ASSUME IInv, [Next]_vars, req'.pc = "scan"
  PROVE  \/ ScanStart \/ UNCHANGED vars
         \/ ScanBlock \/ ScanReadFails
         \/ \E l \in LogicalBlocks : ScanEraseFails(l)
<1>0. req \in ReqType
  BY DEF IInv, TypeOK
<1>1. ~Request
  BY NoRequestType DEF Request, ReadRequest, WriteRequest, ReqType
<1>2. ~Release /\ ~Initialize /\ ~PowerLoss
  BY NoRequestType DEF Release, Initialize, PowerLoss
<1>3. ~LookUp /\ ~ScanEnd /\ ~PopBlock /\ ~ProgramPage
  BY <1>0 DEF LookUp, ScanEnd, PopBlock, ProgramPage, ReqType
<1>4. ~ReadSector
  BY <1>0, ReturnResult DEF ReadSector, ReqType
<1>5. Fail => req.pc = "idle"
  BY FailResult DEF IInv
<1>6. /\ ~NoBlock /\ ~NoMemory /\ ~ScanRemoved /\ ~ReadFails /\ ~ReadBackFails
      /\ ~ProgramFails
  BY <1>5 DEF NoBlock, NoMemory, ScanRemoved, Scanning, ReadFails, ReadBackFails, ProgramFails
<1>7. ~Commit /\ ~CommitEraseFails
  BY RoundResult DEF Commit, CommitEraseFails
<1> QED  BY <1>1, <1>2, <1>3, <1>4, <1>6, <1>7 DEF Next, Serve, CardFault

\* The blocks of the table carry the addresses they are mapped under.
LEMMA MapsStep ==
  ASSUME IInv, MapsInv, [Next]_vars
  PROVE  MapsInv'
<1> SUFFICES ASSUME req'.pc = "scan", NEW l \in LogicalBlocks, table'[l] # None
             PROVE  flash'[scan'.zone][table'[l]][0].la = l
  BY DEF MapsInv, Carries
<1>1. CASE ScanStart
  BY <1>1 DEF ScanStart, NoTable
<1>2. CASE UNCHANGED vars
  BY <1>2 DEF vars, MapsInv, Carries
<1>3. CASE ScanMaps
  <2>1. scan.i \in Numbers /\ scan \in ScanType /\ req.pc = "scan"
    BY <1>3, ScanPlace DEF ScanMaps
  <2>2. flash' = flash /\ scan'.zone = scan.zone
    BY <1>3, <2>1 DEF ScanMaps, ScanType
  <2>3. table' = [table EXCEPT ![Scanned(0)] = scan.i] /\ Scanned(0) \in LogicalBlocks
    BY <1>3 DEF ScanMaps
  <2>4. table'[l] = IF l = Scanned(0) THEN scan.i ELSE table[l]
    BY <2>3 DEF IInv, TypeOK
  <2> QED  BY <2>1, <2>2, <2>4 DEF MapsInv, Carries, Scanned
<1>4. CASE \/ ScanErased \/ ScanBad \/ ScanReadFails
           \/ \E k \in LogicalBlocks : ScanLeaves(k) \/ ScanErases(k) \/ ScanEraseFails(k)
  <2>1. Scanning /\ ScanNext
    BY <1>4 DEF ScanErased, ScanBad, ScanReadFails, ScanLeaves, ScanErases, ScanEraseFails
  <2>2. table' = table
    BY <1>4, NeverTheMapped DEF ScanErased, ScanBad, ScanReadFails, ScanLeaves, ScanErases,
       ScanEraseFails, Keep
  <2>3. scan.zone \in Zones /\ scan.i \in Numbers /\ table[l] # scan.i /\ req.pc = "scan"
        /\ scan \in ScanType
    BY <2>1, ScanPlace
  <2>4. scan'.zone = scan.zone
    BY <2>1, <2>3 DEF ScanNext, ScanType
  <2>5. table[l] \in Numbers
    BY <2>2 DEF IInv, TypeOK
  <2>6. flash'[scan.zone][table[l]] = flash[scan.zone][table[l]]
    <3>1. CASE UNCHANGED flash
      BY <3>1
    <3>2. CASE flash' = [flash EXCEPT ![scan.zone][scan.i] = ErasedBlock]
      BY <2>3, <2>5, <3>2 DEF IInv, TypeOK
    <3> QED  BY <2>3, <3>1, <3>2, CardStep
  <2> QED  BY <2>2, <2>3, <2>4, <2>6 DEF MapsInv, Carries
<1> QED  BY <1>1, <1>2, <1>3, <1>4, ScanStep DEF ScanBlock

\* With one zone the block in the table is as complete as the one that goes.
LEMMA EraseStep ==
  ASSUME OneZone, IInv, AscInv, MapsInv, [Next]_vars, req.pc = "scan",
         NEW z \in Zones, NEW l \in LogicalBlocks, Complete(z, l)
  PROVE  Complete(z, l)'
<1>1. CASE UNCHANGED flash
  BY <1>1 DEF Complete
<1>2. ASSUME NEW y \in Zones, NEW m \in Numbers, flash' = [flash EXCEPT ![y][m] = ErasedBlock],
             Scanning, y = scan.zone, m = scan.i,
             NEW k \in LogicalBlocks, Duplicate(k), Victim(k) = "scanned"
      PROVE  Complete(z, l)'
  <2>1. Zones = {0}
    BY DEF OneZone, Zones
  <2>2. z = 0 /\ scan.zone = 0
    BY <1>2, <2>1
  <2>3. PICK n \in Numbers : \A p \in Pages : flash[0][n][p].la = l
    BY <2>2 DEF Complete
  <2>4. \A i \in Numbers : i # scan.i => flash'[0][i] = flash[0][i]
    BY <1>2, <2>1, <2>2 DEF IInv, TypeOK
  <2>5. CASE n # scan.i
    BY <2>2, <2>3, <2>4, <2>5 DEF Complete
  <2>6. CASE n = scan.i
    <3>1. k = l
      BY <1>2, <2>2, <2>3, <2>6, PageNumbers DEF Duplicate, Scanned
    <3>2. table[l] \in Numbers /\ table[l] # scan.i /\ table[l] # None
      BY <1>2, <3>1, ScanPlace DEF Duplicate, IInv, TypeOK
    <3>3. Scanned(PerBlock - 1) = l
      BY <2>2, <2>3, <2>6, PageNumbers DEF Scanned
    <3>4. flash[0][table[l]][PerBlock - 1].la \in LogicalBlocks
      BY <1>2, <3>1, <3>3 DEF Victim
    <3>5. flash[0][table[l]][0].la = l
      BY <2>2, <3>2 DEF MapsInv, Carries
    <3>6. ASSUME NEW p \in Pages  PROVE flash[0][table[l]][p].la = l
      <4>1. p = PerBlock - 1 \/ p < PerBlock - 1
        BY PageNumbers, Sizes
      <4>2. flash[0][table[l]][p].la \in LogicalBlocks
        BY <2>1, <3>2, <3>4, <4>1, PageNumbers DEF AscInv
      <4>3. 0 \in Zones /\ 0 \in Pages
        BY <2>1, PageNumbers
      <4> QED  BY <3>2, <3>5, <4>2, <4>3 DEF IInv, BlockInv
    <3> QED  BY <2>2, <2>4, <3>2, <3>6 DEF Complete
  <2> QED  BY <2>5, <2>6
<1> QED  BY <1>1, <1>2, CardStep

\* An erased card has nothing in any order.
LEMMA InitAsc == ASSUME Init  PROVE AscInv /\ MapsInv
<1>1. req.pc = "idle"
  BY NoRequestType DEF Init
<1>2. \A z \in Zones, n \in Numbers, q \in Pages : flash[z][n][q].la \notin LogicalBlocks
  BY PageTypes, LogicalAddresses DEF Init, ErasedBlock
<1> QED  BY <1>1, <1>2 DEF AscInv, MapsInv

\* With one zone, building the table never erases the only complete copy of a
\* logical block, whatever failed before and wherever the power went
\* (GenerateTranslationTable, the choice between two blocks of one address).
THEOREM ErasesCopies == OneZone => (Spec => ErasesOnlyDuplicates)
<1> SUFFICES ASSUME OneZone PROVE Spec => ErasesOnlyDuplicates
  OBVIOUS
<1>1. Init => AscInv /\ MapsInv
  BY InitAsc
<1>2. IInv /\ AscInv /\ MapsInv /\ [Next]_vars => AscInv' /\ MapsInv'
  BY AscStep, MapsStep
<1>3. IInv /\ AscInv /\ MapsInv /\ [Next]_vars =>
        [req.pc = "scan" =>
           \A z \in Zones, l \in LogicalBlocks : Complete(z, l) => Complete(z, l)']_vars
  BY EraseStep
<1> QED  BY <1>1, <1>2, <1>3, Invariance, PTL DEF Spec, ErasesOnlyDuplicates

-----------------------------------------------------------------------------
(* The data of a round                                                     *)

\* The history changes by requests, which add to it, and by complete rounds.
LEMMA HistoryStep ==
  ASSUME IInv, [Next]_vars, NEW s \in Sectors
  PROVE  \/ maybe'[s] = maybe[s] \/ (Request /\ maybe[s] \subseteq maybe'[s])
         \/ Commit \/ CommitEraseFails
<1>1. CASE Request
  BY <1>1 DEF Request, ReadRequest, WriteRequest
<1>2. CASE Serve \/ Release \/ Initialize \/ PowerLoss \/ UNCHANGED vars
  BY <1>2 DEF Serve, LookUp, ScanStart, ScanBlock, ScanErased, ScanBad, ScanMaps, ScanLeaves,
     ScanErases, ScanEnd, ReadSector, NoBlock, PopBlock, ProgramPage, Release, Initialize,
     PowerLoss, vars
<1>3. CASE CardFault
  BY <1>3 DEF CardFault, ScanEraseFails, NoMemory, ScanReadFails, ScanRemoved, ReadFails,
     ReadBackFails, ProgramFails
<1> QED  BY <1>1, <1>2, <1>3 DEF Next

\* The new block is good for every sector of its logical block, if the old one
\* was, or if there was none and they were never written.
LEMMA RoundData ==
  ASSUME IInv, NewData, req.pc = "program", req.page = PerBlock, RoundDone,
         NEW s \in Sectors, ZoneOf(s) = lastZone, LbOf(s) = LbOf(req.sector),
         IF req.old = None THEN Blank \in maybe[s]
         ELSE Good(s, flash[lastZone][req.old][PageOf(s)].data),
         NEW d, d = flash[lastZone][req.new][PageOf(s)].data
  PROVE  d \in maybe'[s] \/ (d = Filler /\ Blank \in maybe'[s])
<1>1. PageOf(s) \in Pages /\ PageOf(s) < req.page
  BY Address, PageNumbers
<1>2. d = Content(PageOf(s))
  BY <1>1 DEF NewData
<1>3. maybe'[s] = IF InRound(PageOf(s)) THEN {req.data} ELSE maybe[s]
  BY RoundSectors DEF RoundDone
<1> QED  BY <1>2, <1>3 DEF Content, Good

\* The sectors of the other blocks are not in the round.
LEMMA RoundElsewhere ==
  ASSUME IInv, req.pc = "program", RoundDone, NEW s \in Sectors,
         ZoneOf(s) # lastZone \/ LbOf(s) # LbOf(req.sector)
  PROVE  maybe'[s] = maybe[s]
BY RoundSectors DEF RoundDone

\* What a complete round does to the card and the table.
LEMMA CommitStep ==
  ASSUME IInv, Commit \/ CommitEraseFails
  PROVE  /\ req.pc = "program" /\ req.page = PerBlock /\ RoundDone
         /\ lastZone' = lastZone /\ lastZone \in Zones /\ LbOf(req.sector) \in LogicalBlocks
         /\ req.new \in Numbers /\ req.old = table[LbOf(req.sector)]
         /\ req'.pc \in {"idle", "map"}
         /\ \A l \in LogicalBlocks :
              table'[l] = IF l = LbOf(req.sector) THEN req.new ELSE table[l]
         /\ \A z \in Zones, n \in Numbers :
              flash'[z][n] = flash[z][n]
                \/ (z = lastZone /\ n = req.old /\ flash'[z][n] = ErasedBlock)
         /\ req.old # req.new
<1>1. /\ req.pc = "program" /\ req.page = PerBlock /\ RoundDone /\ Remap /\ lastZone' = lastZone
  BY DEF Commit, CommitEraseFails
<1>2. req \in ReqType /\ lastZone = ZoneOf(req.sector) /\ req.old = table[LbOf(req.sector)]
      /\ req.new \in Numbers /\ req.sector \in Sectors
  BY <1>1 DEF IInv, TypeOK, ReqInv, ReqType
<1>3. lastZone \in Zones /\ LbOf(req.sector) \in LogicalBlocks
  BY <1>2, Address
<1>4. req.old # req.new
  BY <1>1, <1>2, <1>3 DEF IInv, OneOwner
<1>5. \A l \in LogicalBlocks :
        table'[l] = IF l = LbOf(req.sector) THEN req.new ELSE table[l]
  BY <1>1, <1>3 DEF Remap, IInv, TypeOK
<1>6. UNCHANGED flash \/ (req.old # None /\ flash' = [flash EXCEPT ![lastZone][req.old] = ErasedBlock])
  BY DEF Commit, CommitEraseFails, EraseOld
<1>7. \A z \in Zones, n \in Numbers :
        flash'[z][n] = flash[z][n]
          \/ (z = lastZone /\ n = req.old /\ flash'[z][n] = ErasedBlock)
  <2>1. CASE UNCHANGED flash
    BY <2>1
  <2>2. CASE req.old # None /\ flash' = [flash EXCEPT ![lastZone][req.old] = ErasedBlock]
    <3>1. req.old \in Numbers
      BY <1>2, <2>2 DEF ReqType
    <3>2. \A z \in Zones, n \in Numbers :
            flash'[z][n] = IF z = lastZone /\ n = req.old THEN ErasedBlock ELSE flash[z][n]
      BY <1>3, <2>2, <3>1, EraseBlock DEF IInv
    <3> QED  BY <3>2
  <2> QED  BY <1>6, <2>1, <2>2
<1>8. req'.pc \in {"idle", "map"}
  BY <1>1, RoundResult
<1> QED  BY <1>1, <1>2, <1>3, <1>4, <1>5, <1>7, <1>8

\* Outside the scan, the end of a round and a power loss the card changes only
\* by a page of the block being written.
LEMMA QuietCard ==
  ASSUME IInv, [Next]_vars, req.pc # "scan", ~Commit, ~CommitEraseFails, ~PowerLoss
  PROVE  \/ UNCHANGED flash
         \/ /\ req.pc = "program" /\ req.page < PerBlock
            /\ \E pg \in Page : pg.la \in {LbOf(req.sector), BadLa, NoLa} /\ flash' = WithPage(pg)
<1>1. CASE ProgramPage \/ ProgramFails
  <2>1. /\ req.pc = "program" /\ req.page < PerBlock
        /\ flash' \in {flash, Programmed} \union Interrupted
    BY <1>1 DEF ProgramPage, ProgramFails
  <2> QED  BY <2>1, Attempts DEF Programmed, Interrupted
<1>2. CASE Request \/ Release \/ Initialize \/ UNCHANGED vars
  BY <1>2 DEF Request, ReadRequest, WriteRequest, Release, Initialize, vars
<1>3. CASE LookUp \/ ScanStart \/ ScanEnd \/ ReadSector \/ NoBlock \/ PopBlock
  BY <1>3 DEF LookUp, ScanStart, ScanEnd, ReadSector, NoBlock, PopBlock
<1>4. CASE NoMemory \/ ReadFails \/ ReadBackFails
  BY <1>4 DEF NoMemory, ReadFails, ReadBackFails
<1>5. /\ ~ScanBlock /\ ~ScanReadFails /\ ~ScanRemoved
      /\ \A l \in LogicalBlocks : ~ScanEraseFails(l)
  BY DEF ScanBlock, ScanErased, ScanBad, ScanMaps, ScanLeaves, ScanErases, ScanReadFails,
     ScanRemoved, ScanEraseFails, Scanning
<1> QED  BY <1>1, <1>2, <1>3, <1>4, <1>5 DEF Next, Serve, CardFault

\* What a read returns is in the block of its sector.
LEMMA Reading ==
  ASSUME IInv, req.pc = "go"
  PROVE  /\ req.sector \in Sectors /\ lastZone = ZoneOf(req.sector)
         /\ req.old = table[LbOf(req.sector)]
BY DEF IInv, TypeOK, ReqInv, ReqType

-----------------------------------------------------------------------------
(* One table                                                               *)

\* While the table is built there is nothing on the card to put into it.
LEMMA FreshScan ==
  ASSUME OneTable, IInv, FreshInv, [Next]_vars, req'.pc = "scan"
  PROVE  lastZone = None /\ lastZone' = None /\ table' = NoTable /\ UNCHANGED <<flash, maybe>>
<1>1. ZoneOf(req.sector) = 0
  <2>1. req.sector \in Sectors
    BY DEF IInv, TypeOK, ReqType
  <2> QED  BY <2>1, Address DEF OneTable, OneZone, Zones
<1>2. lastZone # 0 => lastZone = None
  BY DEF OneTable, OneZone, IInv, TypeOK, Zones
<1>3. CASE ScanStart
  BY <1>1, <1>2, <1>3 DEF ScanStart
<1>4. CASE UNCHANGED vars
  BY <1>4 DEF vars, FreshInv
<1>5. CASE ScanErased \/ ScanReadFails
  BY <1>5 DEF ScanErased, ScanReadFails, Scanning, FreshInv
<1>6. ASSUME Scanning PROVE Scanned(0) = NoLa
  BY <1>6, ScanPlace, PageNumbers, PageTypes DEF FreshInv, Scanned, ErasedBlock
<1>7. ~ScanBad /\ ~ScanMaps
      /\ \A l \in LogicalBlocks : ~ScanLeaves(l) /\ ~ScanErases(l) /\ ~ScanEraseFails(l)
  <2>1. ~ScanBad
    BY <1>6 DEF ScanBad, NoLa, BadLa
  <2> QED  BY <1>6, <2>1, LogicalAddresses DEF ScanMaps, ScanLeaves, ScanErases, ScanEraseFails,
             Duplicate
<1> QED  BY <1>3, <1>4, <1>5, <1>7, ScanStep DEF ScanBlock

\* Until the table is complete, the card is not written.
LEMMA FreshStep ==
  ASSUME OneTable, IInv, FreshInv, [Next]_vars
  PROVE  FreshInv'
<1>1. CASE req'.pc = "scan"
  BY <1>1, FreshScan DEF FreshInv
<1>2. CASE req'.pc # "scan"
  <2>1. SUFFICES ASSUME lastZone' = None
                 PROVE  /\ \A z \in Zones, n \in Numbers : flash'[z][n] = ErasedBlock
                        /\ \A s \in Sectors : Blank \in maybe'[s]
    BY <1>2 DEF FreshInv
  <2>2. lastZone = None
    <3>1. ~Release /\ ~Initialize /\ ~PowerLoss
      BY DEF OneTable, Release, Initialize, PowerLoss
    <3>2. ScanRemoved => lastZone = None
      BY DEF FreshInv, ScanRemoved, Scanning
    <3>3. CASE Request
      BY <2>1, <3>3 DEF Request, ReadRequest, WriteRequest, ram
    <3>4. CASE Serve
      BY <2>1, <3>4 DEF Serve, LookUp, ScanStart, ScanBlock, ScanErased, ScanBad, ScanMaps,
         ScanLeaves, ScanErases, ScanEnd, ReadSector, NoBlock, PopBlock, ProgramPage, Commit,
         FreshInv, ram
    <3>5. CASE CardFault
      BY <2>1, <3>2, <3>5 DEF CardFault, ScanEraseFails, NoMemory, ScanReadFails, ReadFails,
         ReadBackFails, ProgramFails, CommitEraseFails, ram
    <3>6. CASE UNCHANGED vars
      BY <2>1, <3>6 DEF vars
    <3> QED  BY <3>1, <3>3, <3>4, <3>5, <3>6 DEF Next
  <2>3. req.pc # "program"
    <3>1. req.pc = "program" => lastZone = ZoneOf(req.sector) /\ req.sector \in Sectors
      BY DEF IInv, ReqInv, TypeOK, ReqType
    <3> QED  BY <2>2, <3>1, Address, BlockNumbers
  <2>4. \A z \in Zones, n \in Numbers : flash'[z][n] = ErasedBlock
    <3>1. CASE UNCHANGED flash
      BY <2>2, <3>1 DEF FreshInv
    <3>2. ASSUME NEW y \in Zones, NEW m \in Numbers,
                 flash' = [flash EXCEPT ![y][m] = ErasedBlock]
          PROVE  \A z \in Zones, n \in Numbers : flash'[z][n] = ErasedBlock
      BY <2>2, <3>2, EraseBlock DEF FreshInv, IInv
    <3> QED  BY <2>3, <3>1, <3>2, CardStep
  <2>5. ASSUME NEW s \in Sectors  PROVE Blank \in maybe'[s]
    <3>1. ~Commit /\ ~CommitEraseFails
      BY <2>3 DEF Commit, CommitEraseFails
    <3> QED  BY <2>2, <3>1, HistoryStep DEF FreshInv
  <2> QED  BY <2>4, <2>5
<1> QED  BY <1>1, <1>2

\* The block a write takes is vacant, and the only one to leave the heap.
LEMMA PopFacts ==
  ASSUME IInv, PopBlock
  PROVE  /\ req.pc = "go" /\ req'.pc = "program" /\ req'.new \in Numbers
         /\ UNCHANGED <<flash, table, lastZone, scan, maybe>>
         /\ lastZone \in Zones /\ Vacant(flash[lastZone][req'.new])
         /\ free[req'.new] > 0
         /\ \A n \in Numbers : n # req'.new => free'[n] = free[n]
         /\ free'[req'.new] = 0
<1>1. PICK n \in Numbers :
        /\ LeastFree(n)
        /\ free' = [free EXCEPT ![n] = @ - 1]
        /\ req' = [req EXCEPT !.pc = "program", !.new = n, !.page = 0, !.pages = RoundPages]
  BY DEF PopBlock
<1>2. req \in ReqType /\ req.pc = "go" /\ UNCHANGED <<flash, table, lastZone, scan, maybe>>
  BY DEF PopBlock, IInv, TypeOK
<1>3. req'.pc = "program" /\ req'.new = n
  BY <1>1, <1>2 DEF ReqType
<1>4. lastZone \in Zones
  BY <1>2, Address DEF IInv, ReqInv, ReqType
<1>5. free[n] > 0
  BY <1>1 DEF LeastFree
<1>6. Vacant(flash[lastZone][n])
  BY <1>2, <1>4, <1>5 DEF IInv, FreeIsVacant, Loaded
<1>7. free[n] = 1 /\ free \in [Numbers -> Nat]
  BY <1>5 DEF IInv, OneOwner, TypeOK
<1>8. free'[n] = 0 /\ \A m \in Numbers : m # n => free'[m] = free[m]
  BY <1>1, <1>7
<1> QED  BY <1>2, <1>3, <1>4, <1>5, <1>6, <1>8

\* The block a write takes next begins with an erased page.
LEMMA NewErasedStep ==
  ASSUME IInv, FreeErased, NewErased, [Next]_vars
  PROVE  NewErased'
<1> SUFFICES ASSUME req'.pc = "program", req'.page = 0
             PROVE  flash'[lastZone'][req'.new][0] = ErasedPage
  BY DEF NewErased
<1>1. CASE PopBlock
  <2>1. PICK n \in Numbers : LeastFree(n) /\ req'.new = n
    BY <1>1 DEF PopBlock, IInv, TypeOK, ReqType
  <2>2. /\ lastZone \in Zones /\ req.pc = "go" /\ flash' = flash /\ lastZone' = lastZone
    BY <1>1, Address DEF PopBlock, IInv, TypeOK, ReqInv, ReqType
  <2> QED  BY <2>1, <2>2 DEF LeastFree, FreeErased, Loaded
<1>2. CASE ProgramPage
  <2>1. req'.page = req.page + 1 /\ req.page \in Nat
    BY <1>2, PageNumbers, Sizes DEF ProgramPage, IInv, TypeOK, ReqType
  <2> QED  BY <2>1
<1>3. CASE UNCHANGED vars
  BY <1>3 DEF vars, NewErased
<1> QED  BY <1>1, <1>2, <1>3, ProgramStep

\* With one table no torn page gets into the heap: the scan found none, and
\* later only erased blocks are added.
LEMMA FreeErasedStep ==
  ASSUME OneTable, IInv, FreshInv, FreeErased, [Next]_vars
  PROVE  FreeErased'
<1> SUFFICES ASSUME NEW z \in Zones, NEW n \in Numbers, Loaded(z)', free'[n] > 0
             PROVE  flash'[z][n][0] = ErasedPage
  BY DEF FreeErased
<1>0. /\ \A p \in Pages : ErasedBlock[p] = ErasedPage
      /\ 0 \in Pages /\ z # None /\ free \in [Numbers -> Nat] /\ req \in ReqType
  BY PageNumbers, BlockNumbers DEF ErasedBlock, IInv, TypeOK
<1>1. CASE req'.pc = "scan"
  <2>1. lastZone = None /\ flash' = flash
    BY <1>1, FreshScan
  <2> QED  BY <1>0, <2>1 DEF FreshInv
<1>2. CASE ScanEnd
  <2>1. lastZone = None /\ flash' = flash
    BY <1>2 DEF ScanEnd, FreshInv
  <2> QED  BY <1>0, <2>1 DEF FreshInv
<1>3. CASE Commit \/ CommitEraseFails
  <2>1. /\ req.pc = "program" /\ req'.pc \in {"idle", "map"} /\ lastZone' = lastZone
        /\ flash'[z][n] = flash[z][n] \/ flash'[z][n] = ErasedBlock
    BY <1>3, CommitStep
  <2>2. z = lastZone /\ Loaded(z)
    BY <2>1 DEF Loaded
  <2>3. CASE free[n] > 0
    BY <1>0, <2>1, <2>2, <2>3 DEF FreeErased
  <2>4. CASE ~(free[n] > 0)
    <3>1. /\ flash' = [flash EXCEPT ![lastZone][req.old] = ErasedBlock]
          /\ n = req.old
      BY <1>0, <1>3, <2>4 DEF Commit, CommitEraseFails, EraseOld, Insert
    <3>2. flash'[z][n] = ErasedBlock
      BY <2>2, <3>1, EraseBlock DEF IInv
    <3> QED  BY <1>0, <3>2
  <2> QED  BY <2>3, <2>4
<1>4. CASE PopBlock
  <2>1. /\ req.pc = "go" /\ req'.pc = "program" /\ flash' = flash /\ lastZone' = lastZone
        /\ n # req'.new /\ free'[n] = free[n]
    BY <1>4, PopFacts
  <2> QED  BY <2>1 DEF FreeErased, Loaded
<1>5. CASE req'.pc # "scan" /\ ~ScanEnd /\ ~Commit /\ ~CommitEraseFails /\ ~PopBlock
  <2>1. lastZone' = z
    BY <1>5 DEF Loaded
  <2>2. lastZone' = lastZone /\ req.pc # "scan" /\ free'[n] <= free[n]
    <3>1. ~Release /\ ~Initialize /\ ~PowerLoss
      BY DEF OneTable, Release, Initialize, PowerLoss
    <3>2. CASE Request
      BY <1>0, <3>2 DEF Request, ReadRequest, WriteRequest, ram
    <3>3. CASE LookUp \/ ReadSector \/ NoBlock \/ ProgramPage
      <4>1. UNCHANGED <<free, lastZone>> /\ req.pc # "scan"
        BY <3>3, Zenon DEF LookUp, ReadSector, NoBlock, ProgramPage, ram
      <4> QED  BY <1>0, <4>1
    <3>4. ~ScanStart /\ ~ScanBlock /\ ~ScanReadFails /\ \A l \in LogicalBlocks : ~ScanEraseFails(l)
      BY <1>0, <1>5 DEF ScanStart, ScanBlock, ScanErased, ScanBad, ScanMaps, ScanLeaves,
         ScanErases, ScanReadFails, ScanEraseFails, Scanning, ReqType
    <3>5. CASE ReadFails \/ ProgramFails
      BY <1>0, <3>5 DEF ReadFails, ProgramFails, ram
    <3>6. CASE NoMemory \/ ReadBackFails
      <4>1. free'[n] <= free[n]
        BY <1>0, <3>6 DEF NoMemory, NoHeap, ReadBackFails, LeastFree
      <4> QED  BY <3>6, <4>1 DEF NoMemory, ReadBackFails
    <3>7. ~ScanRemoved
      BY <1>0, <2>1 DEF ScanRemoved
    <3>8. CASE UNCHANGED vars
      BY <1>0, <1>5, <3>8 DEF vars
    <3>9. CASE Serve
      BY <1>5, <3>3, <3>4, <3>9 DEF Serve
    <3>10. CASE CardFault
      BY <1>5, <3>4, <3>5, <3>6, <3>7, <3>10 DEF CardFault
    <3> QED  BY <3>1, <3>2, <3>8, <3>9, <3>10 DEF Next
  <2>3. free'[n] \in Nat
    BY NextInv DEF IInv, TypeOK
  <2>4. Loaded(z) /\ free[n] > 0
    BY <1>0, <2>1, <2>2, <2>3 DEF Loaded
  <2>5. flash'[z][n] = flash[z][n]
    <3>1. CASE UNCHANGED flash
      BY <3>1
    <3>2. ASSUME req.pc = "program", req.page < PerBlock,
                 NEW pg \in Page, pg.la \in {LbOf(req.sector), BadLa, NoLa}, flash' = WithPage(pg)
          PROVE  flash'[z][n] = flash[z][n]
      <4>1. n # req.new
        BY <2>4, <3>2 DEF IInv, OneOwner
      <4> QED  BY <3>2, <4>1, ProgramBlock
    <3> QED  BY <1>5, <2>2, <3>1, <3>2, QuietCard DEF OneTable, PowerLoss
  <2> QED  BY <2>4, <2>5 DEF FreeErased
<1> QED  BY <1>1, <1>2, <1>3, <1>4, <1>5

\* What is mapped stays good.
LEMMA MapDataStep ==
  ASSUME OneTable, IInv, FreshInv, NewData, MapData, [Next]_vars
  PROVE  MapData'
<1> SUFFICES ASSUME req'.pc # "scan", NEW s \in Sectors, ZoneOf(s) = lastZone'
             PROVE  LET n == table'[LbOf(s)]
                        d == flash'[lastZone'][n][PageOf(s)].data IN
                    IF n = None THEN Blank \in maybe'[s]
                    ELSE d \in maybe'[s] \/ (d = Filler /\ Blank \in maybe'[s])
  BY DEF MapData, Good
<1>0. ZoneOf(s) \in Zones /\ LbOf(s) \in LogicalBlocks /\ PageOf(s) \in Pages
  BY Address
<1>1. CASE Commit \/ CommitEraseFails
  <2>1. /\ req.pc = "program" /\ req.page = PerBlock /\ RoundDone
        /\ lastZone' = lastZone /\ lastZone \in Zones /\ LbOf(req.sector) \in LogicalBlocks
        /\ req.new \in Numbers /\ req.old = table[LbOf(req.sector)]
        /\ \A l \in LogicalBlocks :
             table'[l] = IF l = LbOf(req.sector) THEN req.new ELSE table[l]
        /\ \A z \in Zones, n \in Numbers :
             flash'[z][n] = flash[z][n]
               \/ (z = lastZone /\ n = req.old /\ flash'[z][n] = ErasedBlock)
        /\ req.old # req.new
    BY <1>1, CommitStep
  <2>2. IF table[LbOf(s)] = None THEN Blank \in maybe[s]
        ELSE Good(s, flash[lastZone][table[LbOf(s)]][PageOf(s)].data)
    BY <2>1 DEF MapData
  <2>3. CASE LbOf(s) = LbOf(req.sector)
    <3> DEFINE d == flash[lastZone][req.new][PageOf(s)].data
    <3>1. d \in maybe'[s] \/ (d = Filler /\ Blank \in maybe'[s])
      BY <2>1, <2>2, <2>3, RoundData
    <3>2. table'[LbOf(s)] = req.new /\ flash'[lastZone][req.new] = flash[lastZone][req.new]
      BY <2>1, <2>3
    <3>3. req.new # None
      BY <2>1, BlockNumbers
    <3> QED  BY <2>1, <3>1, <3>2, <3>3
  <2>4. CASE LbOf(s) # LbOf(req.sector)
    <3>1. maybe'[s] = maybe[s] /\ table'[LbOf(s)] = table[LbOf(s)]
      BY <1>0, <2>1, <2>4, RoundElsewhere
    <3>2. table[LbOf(s)] # None =>
            flash'[lastZone][table[LbOf(s)]] = flash[lastZone][table[LbOf(s)]]
      <4>1. SUFFICES ASSUME table[LbOf(s)] # None
                     PROVE  flash'[lastZone][table[LbOf(s)]] = flash[lastZone][table[LbOf(s)]]
        OBVIOUS
      <4>2. table[LbOf(s)] \in Numbers /\ table[LbOf(s)] # req.old
        BY <1>0, <2>1, <2>4, <4>1 DEF IInv, TypeOK, OneOwner
      <4> QED  BY <2>1, <4>2
    <3> QED  BY <2>1, <2>2, <3>1, <3>2 DEF Good
  <2> QED  BY <2>3, <2>4
<1>2. CASE ScanEnd
  <2>1. /\ lastZone = None /\ table = NoTable /\ table' = table
        /\ maybe' = maybe
    BY <1>2 DEF ScanEnd, FreshInv
  <2> QED  BY <1>0, <2>1 DEF FreshInv, NoTable
<1>3. CASE /\ ~Commit /\ ~CommitEraseFails /\ ~ScanEnd
  <2>1. /\ lastZone' = lastZone \/ lastZone' = None
        /\ table' = table /\ (req.pc # "scan" \/ lastZone' = None)
    <3>1. ~Release /\ ~Initialize /\ ~PowerLoss
      BY DEF OneTable, Release, Initialize, PowerLoss
    <3>2. CASE Request
      BY <3>2 DEF Request, ReadRequest, WriteRequest, ram
    <3>3. CASE LookUp \/ ReadSector \/ NoBlock \/ PopBlock \/ ProgramPage
      BY <3>3 DEF LookUp, ReadSector, NoBlock, PopBlock, ProgramPage, ram
    <3>4. CASE ScanStart \/ ScanBlock \/ ScanReadFails \/ \E l \in LogicalBlocks : ScanEraseFails(l)
      <4>1. req'.pc = "scan"
        BY <3>4 DEF ScanStart, ScanBlock, ScanErased, ScanBad, ScanMaps, ScanLeaves, ScanErases,
           ScanReadFails, ScanEraseFails, Scanning, IInv, TypeOK, ReqType
      <4> QED  BY <4>1
    <3>5. CASE NoMemory \/ ScanRemoved \/ ReadFails \/ ReadBackFails \/ ProgramFails
      BY <3>5 DEF NoMemory, ScanRemoved, ReadFails, ReadBackFails, ProgramFails, ram
    <3>6. CASE UNCHANGED vars
      BY <3>6, FreshScan DEF vars
    <3> QED  BY <1>3, <3>1, <3>2, <3>3, <3>4, <3>5, <3>6 DEF Next, Serve, CardFault
  <2>2. lastZone' = lastZone /\ req.pc # "scan" /\ lastZone \in Zones
    BY <1>0, <2>1, BlockNumbers
  <2>3. IF table[LbOf(s)] = None THEN Blank \in maybe[s]
        ELSE Good(s, flash[lastZone][table[LbOf(s)]][PageOf(s)].data)
    BY <2>2 DEF MapData
  <2>4. maybe[s] \subseteq maybe'[s]
    BY <1>3, HistoryStep
  <2>5. ASSUME table[LbOf(s)] # None
        PROVE  flash'[lastZone][table[LbOf(s)]][PageOf(s)]
                 = flash[lastZone][table[LbOf(s)]][PageOf(s)]
    <3>1. table[LbOf(s)] \in Numbers /\ (req.pc = "program" => table[LbOf(s)] # req.new)
      BY <1>0, <2>5 DEF IInv, TypeOK, OneOwner
    <3>2. CASE UNCHANGED flash
      BY <3>2
    <3>3. ASSUME req.pc = "program", req.page < PerBlock,
                 NEW pg \in Page, pg.la \in {LbOf(req.sector), BadLa, NoLa}, flash' = WithPage(pg)
          PROVE  flash'[lastZone][table[LbOf(s)]] = flash[lastZone][table[LbOf(s)]]
      BY <2>2, <3>1, <3>3, ProgramBlock
    <3>4. \/ UNCHANGED flash
          \/ /\ req.pc = "program" /\ req.page < PerBlock
             /\ \E pg \in Page : pg.la \in {LbOf(req.sector), BadLa, NoLa} /\ flash' = WithPage(pg)
      BY <1>3, <2>2, QuietCard DEF OneTable, PowerLoss
    <3> QED  BY <3>2, <3>3, <3>4
  <2> QED  BY <2>1, <2>2, <2>3, <2>4, <2>5 DEF Good
<1> QED  BY <1>1, <1>2, <1>3

\* What is mapped is what is read.
LEMMA MappedIsRead == IInv /\ MapData => ReadsWhatWasWritten
<1> SUFFICES ASSUME IInv, MapData, req.pc = "go" PROVE ReadsWhatWasWritten
  BY DEF ReadsWhatWasWritten
<1>1. /\ req.sector \in Sectors /\ lastZone = ZoneOf(req.sector)
      /\ req.old = table[LbOf(req.sector)]
  BY Reading
<1> QED  BY <1>1 DEF MapData, Good, ReadsWhatWasWritten, ReadData

\* An erased card.
LEMMA InitOneTable ==
  ASSUME Init
  PROVE  MapData /\ FreshInv /\ NewData /\ FreeErased /\ NewErased
<1>1. req.pc = "idle"
  BY NoRequestType DEF Init
<1>2. FreeErased
  BY DEF Init, FreeErased, NoHeap
<1> QED  BY <1>1, <1>2, Address, BlockNumbers DEF Init, MapData, FreshInv, NewData, NewErased

\* While the table built on the new card is kept, what the card gives for a
\* sector is what the last write of the sector wrote, whichever card operations
\* failed before, with any effect (the error paths of xddrv_readsector to
\* xddrv_writemultiplesector).  It is said of every sector the card is read for,
\* not of the result of a request: that of several sectors is the last one's.
THEOREM DataAfterFaults == OneTable => (Spec => []ReadsWhatWasWritten)
<1> SUFFICES ASSUME OneTable PROVE Spec => []ReadsWhatWasWritten
  OBVIOUS
<1>1. Init => MapData /\ FreshInv /\ NewData /\ FreeErased /\ NewErased
  BY InitOneTable
<1>2. IInv /\ MapData /\ FreshInv /\ NewData /\ FreeErased /\ NewErased /\ [Next]_vars
        => MapData' /\ FreshInv' /\ NewData' /\ FreeErased' /\ NewErased'
  BY MapDataStep, FreshStep, NewDataStep, FreeErasedStep, NewErasedStep
<1>3. IInv /\ MapData => ReadsWhatWasWritten
  BY MappedIsRead
<1> QED  BY <1>1, <1>2, <1>3, Invariance, PTL DEF Spec

-----------------------------------------------------------------------------
(* Harmless faults                                                         *)

\* A block that carries an address is the one the table has for it.
LEMMA Found ==
  ASSUME TableInv, NEW z \in Zones, Loaded(z), req.pc # "scan",
         NEW m \in Numbers, NEW l \in LogicalBlocks, Carries(z, m, l), ~BeingWritten(z, m)
  PROVE  table[l] = m
BY DEF TableInv

\* The scan finds no block without an address and no duplicate.
LEMMA NoDuplicates ==
  ASSUME IInv, CopyInv, TableInv, Scanning
  PROVE  Scanned(0) # BadLa /\ \A l \in LogicalBlocks : ~Duplicate(l)
<1>1. /\ scan.zone \in Zones /\ scan.i \in Numbers /\ req.pc = "scan"
      /\ \A l \in LogicalBlocks : table[l] # scan.i
  BY ScanPlace
<1>2. Loaded(scan.zone)
  BY <1>1 DEF Loaded
<1>3. ASSUME NEW l \in LogicalBlocks, Duplicate(l) PROVE FALSE
  <2>1. table[l] # None /\ table[l] \in Numbers
    BY <1>3 DEF Duplicate, IInv, TypeOK
  <2>2. Carries(scan.zone, table[l], l)
    BY <1>1, <1>2, <2>1 DEF TableInv
  <2>3. Carries(scan.zone, scan.i, l)
    BY <1>3 DEF Duplicate, Scanned, Carries
  <2>4. ~BeingWritten(scan.zone, table[l]) /\ ~BeingWritten(scan.zone, scan.i)
    BY <1>1 DEF BeingWritten
  <2> QED  BY <1>1, <2>1, <2>2, <2>3, <2>4 DEF CopyInv
<1> QED  BY <1>1, <1>3 DEF CopyInv, Scanned

\* The steps of a layer with harmless faults.
Stays   == /\ UNCHANGED <<flash, table, lastZone, scan>>
           /\ req.pc # "scan" /\ req'.pc # "scan"
           /\ \A n \in Numbers : free'[n] = free[n] \/ (free'[n] <= free[n] /\ ~Undisturbed)
Forgets == UNCHANGED flash /\ lastZone' = None /\ req'.pc # "scan"
Writes  == PopBlock \/ ProgramPage \/ Commit
LEMMA HarmlessStep ==
  ASSUME Harmless, IInv, CopyInv, TableInv, [Next]_vars
  PROVE  \/ UNCHANGED vars
         \/ Writes
         \/ /\ req.pc # "program" /\ req'.pc # "program"
            /\ \A s \in Sectors : maybe[s] \subseteq maybe'[s]
            /\ Stays \/ Forgets \/ ScanStart \/ ScanErased \/ ScanMaps \/ ScanEnd
<1>0. req \in ReqType /\ free \in [Numbers -> Nat]
  BY DEF IInv, TypeOK
<1>1. /\ ~ScanReadFails /\ ~ProgramFails /\ ~CommitEraseFails
      /\ \A l \in LogicalBlocks : ~ScanEraseFails(l)
  BY DEF Harmless, ScanReadFails, ProgramFails, CommitEraseFails, ScanEraseFails, Fault
<1>2. ~ScanBad /\ \A l \in LogicalBlocks : ~ScanLeaves(l) /\ ~ScanErases(l)
  BY NoDuplicates DEF ScanBad, ScanLeaves, ScanErases
<1>3. CASE PowerLoss
  <2>1. req.pc # "program" /\ UNCHANGED <<flash, maybe>> /\ lastZone' = None /\ req'.pc = "idle"
    BY <1>3, NoRequestType DEF PowerLoss, Harmless
  <2> QED  BY <2>1 DEF Forgets
<1>4. CASE Release \/ Initialize
  BY <1>4 DEF Release, Initialize, Forgets
<1>5. CASE ScanRemoved
  <2>1. req.pc = "scan" /\ UNCHANGED <<flash, maybe>> /\ lastZone' = None
    BY <1>5 DEF ScanRemoved, Scanning
  <2>2. req'.pc \in {"idle", "map"}
    BY <1>5, <2>1, FailResult DEF ScanRemoved, IInv
  <2> QED  BY <2>1, <2>2 DEF Forgets
<1>6. CASE Request
  <2>1. /\ req.pc = "idle" /\ req'.pc = "map"
        /\ UNCHANGED <<flash, table, free, lastZone, scan>>
    <3>1. PICK x \in Sectors, n \in 1 .. MaxSpan, multi \in BOOLEAN :
            ReadRequest(x, n, multi) \/ WriteRequest(x, n, multi)
      BY <1>6 DEF Request
    <3>2. CASE ReadRequest(x, n, multi)
      BY <3>2, NoRequestType DEF ReadRequest, ReqType, ram
    <3>3. CASE WriteRequest(x, n, multi)
      BY <3>3, NoRequestType DEF WriteRequest, ReqType, ram
    <3> QED  BY <3>1, <3>2, <3>3
  <2>2. ~Commit /\ ~CommitEraseFails
    BY <2>1 DEF Commit, CommitEraseFails
  <2>3. \A s \in Sectors : maybe[s] \subseteq maybe'[s]
    BY <2>2, HistoryStep
  <2> QED  BY <2>1, <2>3 DEF Stays
<1>7. CASE LookUp
  <2>1. UNCHANGED <<flash, table, free, lastZone, scan, maybe>>
    BY <1>7 DEF LookUp, ram
  <2> QED  BY <1>0, <1>7, <2>1 DEF LookUp, Stays, ReqType
<1>8. CASE ReadSector
  <2>1. req'.pc \in {"idle", "map"}
    BY <1>0, <1>8, ReturnResult DEF ReadSector, ReqType
  <2>2. UNCHANGED <<flash, table, free, lastZone, scan, maybe>> /\ req.pc = "go"
    BY <1>8 DEF ReadSector, ram
  <2> QED  BY <2>1, <2>2 DEF Stays
<1>9. CASE NoBlock \/ ReadFails
  <2>1. /\ UNCHANGED <<flash, table, free, lastZone, scan, maybe>> /\ req.pc = "go"
        /\ Fail
    BY <1>9 DEF NoBlock, ReadFails, ram
  <2>2. req'.pc \in {"idle", "map"}
    BY <2>1, FailResult DEF IInv
  <2> QED  BY <2>1, <2>2 DEF Stays
<1>12. CASE NoMemory \/ ReadBackFails
  <2>1. /\ UNCHANGED <<flash, table, lastZone, scan, maybe>> /\ req.pc \in {"map", "go"}
        /\ Fail
    BY <1>12 DEF NoMemory, ReadBackFails
  <2>2. req'.pc \in {"idle", "map"}
    BY <2>1, FailResult DEF IInv
  <2>3. ~Undisturbed
    BY <1>12 DEF NoMemory, ReadBackFails, Fault, Undisturbed
  <2>4. \A n \in Numbers : free'[n] <= free[n]
    <3>1. CASE NoMemory
      BY <1>0, <3>1 DEF NoMemory, NoHeap
    <3>2. CASE ReadBackFails
      BY <1>0, <3>2 DEF ReadBackFails, LeastFree
    <3> QED  BY <1>12, <3>1, <3>2
  <2> QED  BY <2>1, <2>2, <2>3, <2>4 DEF Stays
<1>10. CASE ScanStart \/ ScanEnd
  BY <1>0, <1>10 DEF ScanStart, ScanEnd, ReqType
<1>11. CASE ScanErased \/ ScanMaps
  BY <1>0, <1>11 DEF ScanErased, ScanMaps, Scanning, ReqType
<1> QED  BY <1>1, <1>2, <1>3, <1>4, <1>5, <1>6, <1>7, <1>8, <1>9, <1>10, <1>11, <1>12
         DEF Next, Serve, ScanBlock, CardFault, Writes

\* A page that is programmed changes nothing but the block being written, and
\* that block names its logical block from its first page on.
LEMMA ProgramFacts ==
  ASSUME IInv, ProgramPage
  PROVE  /\ req.pc = "program" /\ req'.pc = "program" /\ req'.new = req.new
         /\ UNCHANGED <<table, free, lastZone, scan, maybe>>
         /\ \A z \in Zones, n \in Numbers : BeingWritten(z, n)' = BeingWritten(z, n)
         /\ \A z \in Zones, n \in Numbers :
              flash'[z][n] = flash[z][n]
                \/ (BeingWritten(z, n) /\ flash'[z][n][0].la \in LogicalBlocks)
<1>1. /\ req \in ReqType /\ req.pc = "program" /\ req.page < PerBlock
      /\ flash' = WithPage(Over(Current, NewPage)) /\ req' = [req EXCEPT !.page = @ + 1]
      /\ UNCHANGED <<table, free, lastZone, scan, maybe>>
  BY DEF ProgramPage, Programmed, IInv, TypeOK, ram
<1>2. req'.pc = "program" /\ req'.new = req.new
  BY <1>1 DEF ReqType
<1> DEFINE pg == Over(Current, NewPage)
<1>3. pg \in Page /\ pg.la = LbOf(req.sector) /\ flash' = WithPage(pg)
  BY <1>1, Attempts
<1> HIDE DEF pg
<1>4. /\ lastZone \in Zones /\ req.new \in Numbers /\ req.page \in Pages
      /\ \A z \in Zones, n \in Numbers :
           z # lastZone \/ n # req.new => flash'[z][n] = flash[z][n]
      /\ \A p \in Pages :
           flash'[lastZone][req.new][p] =
             IF p = req.page THEN pg ELSE flash[lastZone][req.new][p]
  BY <1>1, <1>3, ProgramBlock
<1>5. LbOf(req.sector) \in LogicalBlocks
  BY <1>1, Address DEF ReqType
<1>6. flash'[lastZone][req.new][0].la \in LogicalBlocks
  <2>1. CASE req.page = 0
    BY <1>3, <1>4, <1>5, <2>1
  <2>2. CASE req.page # 0
    <3>1. 0 < req.page
      BY <1>4, <2>2, PageNumbers
    <3>2. flash[lastZone][req.new][0].la = LbOf(req.sector)
      BY <1>1, <3>1, PageNumbers DEF IInv, NewInv
    <3> QED  BY <1>4, <1>5, <2>2, <3>2, PageNumbers
  <2> QED  BY <2>1, <2>2
<1>7. \A z \in Zones, n \in Numbers : BeingWritten(z, n)' = BeingWritten(z, n)
  BY <1>1, <1>2 DEF BeingWritten
<1>8. \A z \in Zones, n \in Numbers :
        flash'[z][n] = flash[z][n]
          \/ (BeingWritten(z, n) /\ flash'[z][n][0].la \in LogicalBlocks)
  BY <1>1, <1>4, <1>6 DEF BeingWritten
<1> QED  BY <1>1, <1>2, <1>7, <1>8

\* The end of an undisturbed round: the new block carries the address, and the
\* old one, if there was any, is erased and in the heap.
LEMMA CommitFacts ==
  ASSUME IInv, Commit
  PROVE  /\ Carries(lastZone, req.new, LbOf(req.sector))
         /\ \A z \in Zones, n \in Numbers :
              flash'[z][n] = IF z = lastZone /\ n = req.old THEN ErasedBlock ELSE flash[z][n]
         /\ \A n \in Numbers :
              IF n = req.old THEN free'[n] > 0 ELSE free'[n] = free[n]
         /\ \A z \in Zones, n \in Numbers : ~BeingWritten(z, n)'
         /\ \A z \in Zones, n \in Numbers :
              BeingWritten(z, n) <=> z = lastZone /\ n = req.new
<1>1. /\ req.pc = "program" /\ req.page = PerBlock /\ lastZone \in Zones /\ req.new \in Numbers
      /\ req'.pc \in {"idle", "map"} /\ req \in ReqType
  BY CommitStep DEF IInv, TypeOK
<1>2. Carries(lastZone, req.new, LbOf(req.sector))
  BY <1>1, PageNumbers DEF IInv, NewInv, Carries
<1>3. CASE req.old = None
  <2>1. UNCHANGED <<flash, free>>
    BY <1>3 DEF Commit
  <2> QED  BY <1>1, <1>2, <1>3, <2>1, BlockNumbers DEF BeingWritten
<1>4. CASE req.old # None
  <2>1. /\ flash' = [flash EXCEPT ![lastZone][req.old] = ErasedBlock]
        /\ free' = [free EXCEPT ![req.old] = @ + 1]
    BY <1>4 DEF Commit, EraseOld, Insert
  <2>2. req.old \in Numbers
    BY <1>1, <1>4 DEF ReqType
  <2>3. \A z \in Zones, n \in Numbers :
          flash'[z][n] = IF z = lastZone /\ n = req.old THEN ErasedBlock ELSE flash[z][n]
    BY <1>1, <2>1, <2>2, EraseBlock DEF IInv
  <2>4. \A n \in Numbers : IF n = req.old THEN free'[n] > 0 ELSE free'[n] = free[n]
    BY <2>1, <2>2 DEF IInv, TypeOK
  <2> QED  BY <1>1, <1>2, <2>3, <2>4 DEF BeingWritten
<1> QED  BY <1>3, <1>4

\* A logical block keeps one copy.
LEMMA CopyStep ==
  ASSUME Harmless, IInv, CopyInv, TableInv, [Next]_vars
  PROVE  CopyInv'
<1> SUFFICES ASSUME NEW z \in Zones
             PROVE  /\ \A n \in Numbers : flash'[z][n][0].la # BadLa
                    /\ \A n \in Numbers : n < StartBlock(z) => flash'[z][n][0].la = NoLa
                    /\ \A m, n \in Numbers, l \in LogicalBlocks :
                         /\ flash'[z][m][0].la = l /\ ~BeingWritten(z, m)'
                         /\ flash'[z][n][0].la = l /\ ~BeingWritten(z, n)'
                         => m = n
  BY DEF CopyInv, Carries
<1>0. ErasedBlock[0].la = NoLa /\ NoLa # BadLa /\ NoLa \notin LogicalBlocks
  BY PageNumbers, PageTypes, LogicalAddresses DEF ErasedBlock, NoLa, BadLa
<1>1. CASE UNCHANGED vars
  BY <1>1 DEF vars, CopyInv, Carries, BeingWritten
<1>2. CASE UNCHANGED flash /\ req.pc # "program"
  BY <1>2 DEF CopyInv, Carries, BeingWritten
<1>3. CASE PopBlock
  <2>1. UNCHANGED flash /\ req.pc # "program"
    BY <1>3, PopFacts
  <2> QED  BY <1>2, <2>1
<1>4. CASE ProgramPage
  <2>1. /\ req.pc = "program"
        /\ \A n \in Numbers : BeingWritten(z, n)' = BeingWritten(z, n)
        /\ \A n \in Numbers :
             flash'[z][n] = flash[z][n]
               \/ (BeingWritten(z, n) /\ flash'[z][n][0].la \in LogicalBlocks)
    BY <1>4, ProgramFacts
  <2>2. \A n \in Numbers : flash'[z][n][0].la # BadLa
    BY <2>1, LogicalAddresses DEF CopyInv
  <2>3. ASSUME NEW n \in Numbers, n < StartBlock(z)
        PROVE  flash'[z][n][0].la = NoLa
    <3>1. BeingWritten(z, n) => n >= StartBlock(z)
      BY <2>1 DEF TableInv, Loaded, BeingWritten
    <3>2. n \in Nat /\ StartBlock(z) \in Nat
      BY BlockNumbers, Sizes
    <3> QED  BY <2>1, <2>3, <3>1, <3>2 DEF CopyInv
  <2>4. ASSUME NEW m \in Numbers, NEW n \in Numbers, NEW l \in LogicalBlocks,
               flash'[z][m][0].la = l, ~BeingWritten(z, m)',
               flash'[z][n][0].la = l, ~BeingWritten(z, n)'
        PROVE  m = n
    BY <2>1, <2>4 DEF CopyInv, Carries
  <2> QED  BY <2>2, <2>3, <2>4
<1>5. CASE Commit
  <2>1. /\ Carries(lastZone, req.new, LbOf(req.sector))
        /\ \A n \in Numbers :
             flash'[z][n] = IF z = lastZone /\ n = req.old THEN ErasedBlock ELSE flash[z][n]
        /\ \A n \in Numbers : BeingWritten(z, n) <=> z = lastZone /\ n = req.new
    BY <1>5, CommitFacts
  <2>2. /\ req.pc = "program" /\ lastZone \in Zones /\ LbOf(req.sector) \in LogicalBlocks
        /\ req.old = table[LbOf(req.sector)]
    BY <1>5, CommitStep
  <2>3. /\ \A n \in Numbers : flash'[z][n][0].la # BadLa
        /\ \A n \in Numbers : n < StartBlock(z) => flash'[z][n][0].la = NoLa
    BY <1>0, <2>1 DEF CopyInv
  <2>4. ASSUME NEW m \in Numbers, NEW l \in LogicalBlocks,
               flash'[z][m][0].la = l, z = lastZone, l = LbOf(req.sector), m # req.new
        PROVE  FALSE
    <3>1. m # req.old /\ flash[z][m][0].la = l
      BY <1>0, <2>1, <2>4
    <3>2. Carries(z, m, l) /\ ~BeingWritten(z, m) /\ Loaded(z) /\ req.pc # "scan"
      BY <2>1, <2>2, <2>4, <3>1 DEF Carries, Loaded
    <3>3. table[l] = m
      BY <3>2, Found
    <3> QED  BY <2>2, <2>4, <3>1, <3>3
  <2>5. ASSUME NEW m \in Numbers, NEW n \in Numbers, NEW l \in LogicalBlocks,
               flash'[z][m][0].la = l, flash'[z][n][0].la = l
        PROVE  m = n
    <3>1. CASE z = lastZone /\ l = LbOf(req.sector)
      BY <2>4, <2>5, <3>1
    <3>2. CASE ~(z = lastZone /\ l = LbOf(req.sector))
      <4>1. flash[z][m][0].la = l /\ flash[z][n][0].la = l
        BY <1>0, <2>1, <2>5
      <4>2. ~BeingWritten(z, m) /\ ~BeingWritten(z, n)
        BY <2>1, <3>2, <4>1 DEF Carries
      <4> QED  BY <4>1, <4>2 DEF CopyInv, Carries
    <3> QED  BY <3>1, <3>2
  <2> QED  BY <2>3, <2>5
<1> QED
  <2>1. \/ UNCHANGED vars \/ Writes
        \/ UNCHANGED flash /\ req.pc # "program"
    BY HarmlessStep DEF Stays, Forgets, ScanStart, ScanErased, ScanMaps, ScanEnd
  <2> QED  BY <1>1, <1>2, <1>3, <1>4, <1>5, <2>1 DEF Writes

\* Nothing tears a page.
LEMMA CleanStep ==
  ASSUME Harmless, IInv, CopyInv, TableInv, Clean, [Next]_vars
  PROVE  Clean'
<1> SUFFICES ASSUME NEW z \in Zones, NEW n \in Numbers, flash'[z][n][0].la = NoLa
             PROVE  flash'[z][n][0] = ErasedPage
  BY DEF Clean
<1>1. CASE UNCHANGED flash
  BY <1>1 DEF Clean
<1>2. CASE ProgramPage
  BY <1>2, ProgramFacts, LogicalAddresses DEF Clean
<1>3. CASE Commit
  <2>1. flash'[z][n] = flash[z][n] \/ flash'[z][n] = ErasedBlock
    BY <1>3, CommitFacts
  <2> QED  BY <2>1, PageNumbers DEF Clean, ErasedBlock
<1> QED
  <2>1. UNCHANGED vars => UNCHANGED flash
    BY DEF vars
  <2> QED  BY <1>1, <1>2, <1>3, <2>1, HarmlessStep, PopFacts
             DEF Writes, Stays, Forgets, ScanStart, ScanErased, ScanMaps, ScanEnd

\* So the first page of the block being written is erased until it is programmed.
LEMMA CleanIsNew ==
  ASSUME IInv, Clean
  PROVE  NewErased
<1> SUFFICES ASSUME req.pc = "program", req.page = 0
             PROVE  flash[lastZone][req.new][0] = ErasedPage
  BY DEF NewErased
<1>1. lastZone \in Zones /\ req.new \in Numbers
  BY Address DEF IInv, TypeOK, ReqInv, ReqType
<1>2. flash[lastZone][req.new][0].la = NoLa
  BY PageNumbers DEF IInv, NewInv
<1> QED  BY <1>1, <1>2 DEF Clean

\* The copy stays good.
LEMMA CardInvStep ==
  ASSUME Harmless, IInv, CopyInv, TableInv, NewData, CardInv, [Next]_vars
  PROVE  CardInv'
<1> SUFFICES ASSUME NEW s \in Sectors
             PROVE  /\ \A n \in Numbers :
                         flash'[ZoneOf(s)][n][0].la = LbOf(s) /\ ~BeingWritten(ZoneOf(s), n)' =>
                           LET d == flash'[ZoneOf(s)][n][PageOf(s)].data IN
                           d \in maybe'[s] \/ (d = Filler /\ Blank \in maybe'[s])
                    /\ (\A n \in Numbers :
                          flash'[ZoneOf(s)][n][0].la = LbOf(s) => BeingWritten(ZoneOf(s), n)') =>
                         Blank \in maybe'[s]
  BY DEF CardInv, Carries, Good
<1> DEFINE z == ZoneOf(s)
           l == LbOf(s)
<1>0. /\ z \in Zones /\ l \in LogicalBlocks
      /\ ErasedBlock[0].la = NoLa /\ NoLa \notin LogicalBlocks
  BY Address, PageNumbers, PageTypes, LogicalAddresses DEF ErasedBlock
<1>1. /\ \A n \in Numbers : Carries(z, n, l) /\ ~BeingWritten(z, n) =>
            LET d == flash[z][n][PageOf(s)].data IN
            d \in maybe[s] \/ (d = Filler /\ Blank \in maybe[s])
      /\ (\A n \in Numbers : Carries(z, n, l) => BeingWritten(z, n)) => Blank \in maybe[s]
  BY DEF CardInv, Good
<1> HIDE DEF z, l
<1>2. ASSUME maybe[s] \subseteq maybe'[s],
             \A n \in Numbers : ~BeingWritten(z, n)' =>
               ~BeingWritten(z, n) /\ flash'[z][n] = flash[z][n],
             \A n \in Numbers : BeingWritten(z, n)' =>
               BeingWritten(z, n) \/ flash[z][n][0].la = NoLa
      PROVE  /\ \A n \in Numbers :
                  flash'[z][n][0].la = l /\ ~BeingWritten(z, n)' =>
                    LET d == flash'[z][n][PageOf(s)].data IN
                    d \in maybe'[s] \/ (d = Filler /\ Blank \in maybe'[s])
             /\ (\A n \in Numbers : flash'[z][n][0].la = l => BeingWritten(z, n)') =>
                  Blank \in maybe'[s]
  <2>1. ASSUME NEW n \in Numbers, flash'[z][n][0].la = l, ~BeingWritten(z, n)'
        PROVE  LET d == flash'[z][n][PageOf(s)].data IN
               d \in maybe'[s] \/ (d = Filler /\ Blank \in maybe'[s])
    BY <1>1, <1>2, <2>1 DEF Carries
  <2>2. ASSUME \A n \in Numbers : flash'[z][n][0].la = l => BeingWritten(z, n)'
        PROVE  Blank \in maybe'[s]
    <3>1. ASSUME NEW n \in Numbers, Carries(z, n, l) PROVE BeingWritten(z, n)
      BY <1>0, <1>2, <2>2, <3>1 DEF Carries
    <3> QED  BY <1>1, <1>2, <3>1
  <2> QED  BY <2>1, <2>2
<1>3. CASE UNCHANGED vars
  <2>1. \A n \in Numbers : BeingWritten(z, n)' = BeingWritten(z, n)
    BY <1>3 DEF vars, BeingWritten
  <2> QED  BY <1>2, <1>3, <2>1 DEF vars, z, l
<1>4. CASE /\ UNCHANGED flash /\ req.pc # "program" /\ req'.pc # "program"
           /\ maybe[s] \subseteq maybe'[s]
  <2>1. \A n \in Numbers : ~BeingWritten(z, n) /\ ~BeingWritten(z, n)'
    BY <1>4 DEF BeingWritten
  <2> QED  BY <1>2, <1>4, <2>1 DEF z, l
<1>5. CASE PopBlock
  <2>1. /\ UNCHANGED <<flash, maybe, lastZone>> /\ req.pc = "go"
        /\ flash[lastZone][req'.new][0].la = NoLa
    BY <1>5, PopFacts DEF Vacant
  <2>2. \A n \in Numbers : ~BeingWritten(z, n)
    BY <2>1 DEF BeingWritten
  <2>3. \A n \in Numbers : BeingWritten(z, n)' => flash[z][n][0].la = NoLa
    BY <2>1 DEF BeingWritten
  <2> QED  BY <1>2, <2>1, <2>2, <2>3 DEF z, l
<1>6. CASE ProgramPage
  <2>1. /\ UNCHANGED maybe
        /\ \A n \in Numbers : BeingWritten(z, n)' = BeingWritten(z, n)
        /\ \A n \in Numbers : flash'[z][n] = flash[z][n] \/ BeingWritten(z, n)
    BY <1>0, <1>6, ProgramFacts
  <2> QED  BY <1>2, <2>1 DEF z, l
<1>7. CASE Commit
  <2>1. /\ Carries(lastZone, req.new, LbOf(req.sector))
        /\ \A n \in Numbers :
             flash'[z][n] = IF z = lastZone /\ n = req.old THEN ErasedBlock ELSE flash[z][n]
        /\ \A n \in Numbers : ~BeingWritten(z, n)'
        /\ \A n \in Numbers : BeingWritten(z, n) <=> z = lastZone /\ n = req.new
    BY <1>0, <1>7, CommitFacts
  <2>2. /\ req.pc = "program" /\ req.page = PerBlock /\ RoundDone /\ lastZone \in Zones
        /\ LbOf(req.sector) \in LogicalBlocks /\ req.new \in Numbers
        /\ req.old = table[LbOf(req.sector)] /\ req.old # req.new
    BY <1>7, CommitStep
  <2>3. Loaded(lastZone)
    BY <2>2 DEF Loaded
  <2>4. req.old # None =>
          /\ req.old \in Numbers /\ Carries(lastZone, req.old, LbOf(req.sector))
          /\ ~BeingWritten(lastZone, req.old)
    <3>1. req.old # None => req.old \in Numbers
      BY DEF IInv, TypeOK, ReqType
    <3> QED  BY <2>2, <2>3, <3>1 DEF TableInv, BeingWritten
  <2>5. CASE z = lastZone /\ l = LbOf(req.sector)
    <3>1. \A n \in Numbers : Carries(z, n, l) /\ ~BeingWritten(z, n) => n = req.old
      BY <1>0, <2>2, <2>3, <2>5, Found
    <3>2. IF req.old = None THEN Blank \in maybe[s]
          ELSE Good(s, flash[lastZone][req.old][PageOf(s)].data)
      <4>1. CASE req.old = None
        BY <1>1, <3>1, <4>1, BlockNumbers
      <4>2. CASE req.old # None
        BY <1>1, <2>4, <2>5, <4>2 DEF Good
      <4> QED  BY <4>1, <4>2
    <3> DEFINE d == flash[lastZone][req.new][PageOf(s)].data
    <3>3. d \in maybe'[s] \/ (d = Filler /\ Blank \in maybe'[s])
      BY <2>2, <2>5, <3>2, RoundData DEF z, l
    <3>4. \A n \in Numbers : flash'[z][n][0].la = l => n = req.new
      <4>1. ASSUME NEW n \in Numbers, flash'[z][n][0].la = l, n # req.new PROVE FALSE
        <5>1. n # req.old /\ flash[z][n][0].la = l
          BY <1>0, <2>1, <2>5, <4>1
        <5> QED  BY <2>1, <3>1, <4>1, <5>1 DEF Carries
      <4> QED  BY <4>1
    <3>5. flash'[z][req.new] = flash[lastZone][req.new] /\ flash[lastZone][req.new][0].la = l
      BY <2>1, <2>2, <2>5 DEF Carries
    <3> QED  BY <2>1, <2>2, <3>3, <3>4, <3>5 DEF z, l
  <2>6. CASE ~(z = lastZone /\ l = LbOf(req.sector))
    <3>1. maybe'[s] = maybe[s]
      BY <2>2, <2>6, RoundElsewhere DEF z, l
    <3>2. \A n \in Numbers : Carries(z, n, l) => ~BeingWritten(z, n) /\ ~(z = lastZone /\ n = req.old)
      BY <2>1, <2>4, <2>6, BlockNumbers DEF Carries
    <3>3. ASSUME NEW n \in Numbers, flash'[z][n][0].la = l
          PROVE  Carries(z, n, l) /\ ~BeingWritten(z, n) /\ flash'[z][n] = flash[z][n]
      BY <1>0, <2>1, <3>2, <3>3 DEF Carries
    <3>4. \A n \in Numbers : Carries(z, n, l) => flash'[z][n][0].la = l
      BY <2>1, <3>2 DEF Carries
    <3> QED  BY <1>1, <2>1, <3>1, <3>3, <3>4 DEF z, l
  <2> QED  BY <2>5, <2>6
<1> QED
  <2>1. \/ UNCHANGED vars \/ Writes
        \/ /\ UNCHANGED flash /\ req.pc # "program" /\ req'.pc # "program"
           /\ maybe[s] \subseteq maybe'[s]
    BY HarmlessStep DEF Stays, Forgets, ScanStart, ScanErased, ScanMaps, ScanEnd
  <2> QED  BY <1>3, <1>4, <1>5, <1>6, <1>7, <2>1 DEF Writes

\* The table goes on mapping what the scan has passed.
LEMMA TableStep ==
  ASSUME Harmless, IInv, CopyInv, TableInv, [Next]_vars
  PROVE  TableInv'
<1> SUFFICES ASSUME NEW z \in Zones, Loaded(z)'
             PROVE  /\ \A l \in LogicalBlocks : table'[l] # None => flash'[z][table'[l]][0].la = l
                    /\ \A n \in Numbers :
                         free'[n] > 0 \/ BeingWritten(z, n)' => n >= StartBlock(z)
                    /\ req'.pc = "scan" => scan'.i >= StartBlock(z)
                    /\ \A n \in Numbers, l \in LogicalBlocks :
                         /\ flash'[z][n][0].la = l /\ ~BeingWritten(z, n)'
                         /\ req'.pc = "scan" => n < scan'.i
                         => table'[l] = n
  BY DEF TableInv, Carries
<1>0. /\ \A n \in Numbers : n \in Nat /\ n < Physical
      /\ StartBlock(z) \in Nat /\ free \in [Numbers -> Nat] /\ free' \in [Numbers -> Nat]
      /\ \A l \in LogicalBlocks : table[l] # None => table[l] \in Numbers
      /\ None \notin Numbers
  <2>1. free' \in [Numbers -> Nat]
    BY NextInv DEF IInv, TypeOK
  <2> QED  BY <2>1, BlockNumbers, Sizes DEF IInv, TypeOK
<1>1. ASSUME Loaded(z)
      PROVE  /\ \A l \in LogicalBlocks : table[l] # None => flash[z][table[l]][0].la = l
             /\ \A n \in Numbers : free[n] > 0 \/ BeingWritten(z, n) => n >= StartBlock(z)
             /\ req.pc = "scan" => scan.i >= StartBlock(z)
             /\ \A n \in Numbers, l \in LogicalBlocks :
                  /\ flash[z][n][0].la = l /\ ~BeingWritten(z, n)
                  /\ req.pc = "scan" => n < scan.i
                  => table[l] = n
  BY <1>1 DEF TableInv, Carries
<1>2. CASE UNCHANGED vars
  <2>1. Loaded(z)
    BY <1>2 DEF vars, Loaded
  <2>2. \A n \in Numbers : BeingWritten(z, n)' = BeingWritten(z, n)
    BY <1>2 DEF vars, BeingWritten
  <2> QED  BY <1>1, <1>2, <2>1, <2>2 DEF vars
<1>3. CASE Stays /\ req.pc # "program" /\ req'.pc # "program"
  <2>1. Loaded(z) /\ UNCHANGED <<flash, table>> /\ req.pc # "scan" /\ req'.pc # "scan"
    BY <1>3 DEF Stays, Loaded
  <2>2. \A n \in Numbers : ~BeingWritten(z, n) /\ ~BeingWritten(z, n)'
    BY <1>3 DEF BeingWritten
  <2>3. \A n \in Numbers : free'[n] > 0 => free[n] > 0
    BY <1>0, <1>3 DEF Stays
  <2> QED  BY <1>1, <2>1, <2>2, <2>3
<1>4. ~Forgets
  BY BlockNumbers DEF Forgets, Loaded
<1>5. CASE ScanStart
  <2>1. /\ req'.pc = "scan" /\ table' = NoTable /\ free' = NoHeap /\ flash' = flash
        /\ scan'.i = StartBlock(scan'.zone) /\ scan'.zone = z
    BY <1>5 DEF ScanStart, IInv, TypeOK, ReqType, Loaded
  <2>2. \A n \in Numbers : ~(free'[n] > 0) /\ ~BeingWritten(z, n)'
    BY <2>1 DEF NoHeap, BeingWritten
  <2>3. \A l \in LogicalBlocks : table'[l] = None
    BY <2>1 DEF NoTable
  <2>4. \A n \in Numbers : n < StartBlock(z) => flash'[z][n][0].la \notin LogicalBlocks
    BY <2>1, LogicalAddresses DEF CopyInv
  <2> QED  BY <1>0, <2>1, <2>2, <2>3, <2>4
<1>6. CASE ScanErased \/ ScanMaps
  <2>1. /\ scan \in ScanType /\ scan.i \in Numbers /\ req.pc = "scan"
        /\ \A l \in LogicalBlocks : table[l] # scan.i
    BY <1>6, ScanPlace DEF ScanErased, ScanMaps
  <2>2. /\ req' = req /\ scan'.i = scan.i + 1 /\ scan'.zone = scan.zone /\ flash' = flash
    BY <1>6, <2>1 DEF ScanErased, ScanMaps, ScanNext, ScanType
  <2>3. Loaded(z) /\ scan.zone = z
    BY <2>1, <2>2 DEF Loaded
  <2>4. \A n \in Numbers : ~BeingWritten(z, n) /\ ~BeingWritten(z, n)'
    BY <2>1, <2>2 DEF BeingWritten
  <2>5. req'.pc = "scan" /\ scan.i >= StartBlock(z) /\ scan'.i >= StartBlock(z)
    BY <1>0, <1>1, <2>1, <2>2, <2>3
  <2>6. \A n \in Numbers : n < scan'.i => n = scan.i \/ n < scan.i
    BY <1>0, <2>1, <2>2
  <2>7. CASE ScanErased
    <3>1. /\ table' = table /\ flash[z][scan.i][0].la = NoLa
          /\ \A n \in Numbers : n # scan.i => free'[n] = free[n]
      BY <1>0, <2>1, <2>3, <2>7 DEF ScanErased, Insert, Scanned
    <3>2. \A n \in Numbers : free'[n] > 0 \/ BeingWritten(z, n)' => n >= StartBlock(z)
      BY <1>1, <2>3, <2>4, <2>5, <3>1
    <3>3. \A l \in LogicalBlocks : table'[l] # None => flash'[z][table'[l]][0].la = l
      BY <1>1, <2>2, <2>3, <3>1
    <3>4. ASSUME NEW n \in Numbers, NEW l \in LogicalBlocks, flash'[z][n][0].la = l, n < scan'.i
          PROVE  table'[l] = n
      <4>1. n # scan.i
        BY <2>2, <3>1, <3>4, LogicalAddresses
      <4> QED  BY <1>1, <2>2, <2>3, <2>4, <2>6, <3>1, <3>4, <4>1
    <3> QED  BY ONLY <2>5, <3>2, <3>3, <3>4
  <2>8. CASE ScanMaps
    <3> DEFINE k == Scanned(0)
    <3>1. /\ free' = free /\ k \in LogicalBlocks /\ table[k] = None
          /\ table' = [table EXCEPT ![k] = scan.i]
      BY <2>8 DEF ScanMaps
    <3>2. flash[z][scan.i][0].la = k
      BY <2>3 DEF Scanned
    <3> HIDE DEF k
    <3>3. \A l \in LogicalBlocks : table'[l] = IF l = k THEN scan.i ELSE table[l]
      BY <3>1 DEF IInv, TypeOK
    <3>4. \A l \in LogicalBlocks : table'[l] # None => flash'[z][table'[l]][0].la = l
      BY <1>1, <2>2, <2>3, <3>2, <3>3
    <3>5. ASSUME NEW n \in Numbers, NEW l \in LogicalBlocks, flash'[z][n][0].la = l, n < scan'.i
          PROVE  table'[l] = n
      <4>1. CASE n = scan.i
        BY <2>2, <3>2, <3>3, <3>5, <4>1
      <4>2. CASE n # scan.i
        <5>1. table[l] = n
          BY <1>1, <2>2, <2>3, <2>4, <2>6, <3>5, <4>2
        <5> QED  BY <1>0, <3>1, <3>3, <5>1
      <4> QED  BY <4>1, <4>2
    <3>6. \A n \in Numbers : free'[n] > 0 \/ BeingWritten(z, n)' => n >= StartBlock(z)
      BY <1>1, <2>3, <2>4, <3>1
    <3> QED  BY ONLY <2>5, <3>4, <3>5, <3>6
  <2> QED  BY <1>6, <2>7, <2>8
<1>7. CASE ScanEnd
  <2>1. /\ req.pc = "scan" /\ scan.i = Physical /\ req'.pc = "go" /\ lastZone' = scan.zone
        /\ UNCHANGED <<flash, table, free>>
    BY <1>7 DEF ScanEnd, IInv, TypeOK, ReqType
  <2>2. Loaded(z)
    BY <2>1 DEF Loaded
  <2>3. \A n \in Numbers : ~BeingWritten(z, n) /\ ~BeingWritten(z, n)'
    BY <2>1 DEF BeingWritten
  <2> QED  BY <1>0, <1>1, <2>1, <2>2, <2>3
<1>8. CASE PopBlock
  <2>1. /\ req.pc = "go" /\ req'.pc = "program" /\ req'.new \in Numbers
        /\ UNCHANGED <<flash, table, lastZone, scan, maybe>>
        /\ free[req'.new] > 0 /\ free'[req'.new] = 0
        /\ \A n \in Numbers : n # req'.new => free'[n] = free[n]
    BY <1>8, PopFacts
  <2>2. Loaded(z) /\ z = lastZone
    BY <2>1 DEF Loaded
  <2>3. \A n \in Numbers : BeingWritten(z, n)' <=> n = req'.new
    BY <2>1, <2>2 DEF BeingWritten
  <2>4. \A n \in Numbers : ~BeingWritten(z, n)
    BY <2>1 DEF BeingWritten
  <2>5. \A n \in Numbers : free'[n] > 0 \/ BeingWritten(z, n)' => n >= StartBlock(z)
    BY <1>1, <2>1, <2>2, <2>3
  <2> QED  BY <1>1, <2>1, <2>2, <2>4, <2>5
<1>9. CASE ProgramPage
  <2>1. /\ req.pc = "program" /\ req'.pc = "program" /\ req'.new = req.new
        /\ UNCHANGED <<table, free, lastZone, scan, maybe>>
        /\ \A n \in Numbers : BeingWritten(z, n)' = BeingWritten(z, n)
        /\ \A n \in Numbers : flash'[z][n] = flash[z][n] \/ BeingWritten(z, n)
    BY <1>9, ProgramFacts
  <2>2. Loaded(z) /\ z = lastZone
    BY <2>1 DEF Loaded
  <2>3. ASSUME NEW l \in LogicalBlocks, table'[l] # None
        PROVE  flash'[z][table'[l]][0].la = l
    <3>1. table[l] \in Numbers /\ table[l] # None /\ table'[l] = table[l]
      BY <1>0, <2>1, <2>3
    <3>2. ~BeingWritten(z, table[l])
      BY <2>1 DEF IInv, OneOwner, BeingWritten
    <3> QED  BY <1>1, <2>1, <2>2, <3>1, <3>2
  <2> QED  BY <1>1, <2>1, <2>2, <2>3
<1>10. CASE Commit
  <2>1. /\ Carries(lastZone, req.new, LbOf(req.sector))
        /\ \A n \in Numbers :
             flash'[z][n] = IF z = lastZone /\ n = req.old THEN ErasedBlock ELSE flash[z][n]
        /\ \A n \in Numbers :
             IF n = req.old THEN free'[n] > 0 ELSE free'[n] = free[n]
        /\ \A n \in Numbers : ~BeingWritten(z, n)'
        /\ \A n \in Numbers : BeingWritten(z, n) <=> z = lastZone /\ n = req.new
    BY <1>10, CommitFacts
  <2>2. /\ req.pc = "program" /\ lastZone' = lastZone /\ req'.pc \in {"idle", "map"}
        /\ LbOf(req.sector) \in LogicalBlocks /\ req.new \in Numbers
        /\ req.old = table[LbOf(req.sector)] /\ req.old # req.new
        /\ \A l \in LogicalBlocks :
             table'[l] = IF l = LbOf(req.sector) THEN req.new ELSE table[l]
    BY <1>10, CommitStep
  <2>3. Loaded(z) /\ z = lastZone
    BY <2>2 DEF Loaded
  <2>4. ASSUME NEW l \in LogicalBlocks, table'[l] # None
        PROVE  flash'[z][table'[l]][0].la = l
    <3>1. CASE l = LbOf(req.sector)
      BY <2>1, <2>2, <2>3, <3>1 DEF Carries
    <3>2. CASE l # LbOf(req.sector)
      <4>1. table'[l] = table[l] /\ table[l] \in Numbers /\ table[l] # None
        BY <1>0, <2>2, <2>4, <3>2
      <4>2. table[l] # req.old
        BY <2>2, <3>2, <4>1 DEF IInv, OneOwner
      <4> QED  BY <1>1, <2>1, <2>3, <4>1, <4>2
    <3> QED  BY <3>1, <3>2
  <2>5. ASSUME NEW n \in Numbers, free'[n] > 0 PROVE n >= StartBlock(z)
    <3>1. CASE n = req.old
      <4>1. flash[z][n][0].la = LbOf(req.sector)
        BY <1>0, <1>1, <2>2, <2>3, <3>1
      <4>2. ~(n < StartBlock(z))
        BY <2>2, <4>1, LogicalAddresses DEF CopyInv
      <4> QED  BY <1>0, <4>2
    <3>2. CASE n # req.old
      BY <1>1, <2>1, <2>3, <2>5, <3>2
    <3> QED  BY <3>1, <3>2
  <2>6. ASSUME NEW n \in Numbers, NEW l \in LogicalBlocks, flash'[z][n][0].la = l
        PROVE  table'[l] = n
    <3>1. ErasedBlock[0].la \notin LogicalBlocks
      BY PageNumbers, PageTypes, LogicalAddresses DEF ErasedBlock
    <3>2. n # req.old /\ flash[z][n][0].la = l
      BY <2>1, <2>3, <2>6, <3>1
    <3>3. CASE n = req.new
      BY <2>1, <2>2, <2>3, <3>2, <3>3 DEF Carries
    <3>4. CASE n # req.new
      <4>1. table[l] = n
        BY <1>1, <2>1, <2>2, <2>3, <3>2, <3>4
      <4> QED  BY <2>2, <3>2, <4>1
    <3> QED  BY <3>3, <3>4
  <2> QED  BY <2>1, <2>2, <2>4, <2>5, <2>6
<1> QED
  BY <1>2, <1>3, <1>4, <1>5, <1>6, <1>7, <1>8, <1>9, <1>10, HarmlessStep DEF Writes

\* Undisturbed, every block the scan has passed keeps an owner.
LEMMA OwnedStep ==
  ASSUME Undisturbed, IInv, CopyInv, TableInv, OwnedInv, [Next]_vars
  PROVE  OwnedInv'
<1> SUFFICES ASSUME NEW z \in Zones, Loaded(z)', NEW n \in Numbers, n >= StartBlock(z),
                    req'.pc = "scan" => n < scan'.i
             PROVE  Owned(z, n)'
  BY DEF OwnedInv
<1>0. n \in Nat /\ n < Physical /\ StartBlock(z) \in Nat /\ free \in [Numbers -> Nat] /\ n # None
  BY BlockNumbers, Sizes DEF IInv, TypeOK
<1>1. ASSUME Loaded(z), req.pc = "scan" => n < scan.i
      PROVE  Owned(z, n)
  BY <1>1 DEF OwnedInv
<1>2. CASE UNCHANGED vars
  <2>1. Loaded(z) /\ Owned(z, n)
    BY <1>1, <1>2 DEF vars, Loaded
  <2> QED  BY <1>2, <2>1 DEF vars, BeingWritten, Owned
<1>3. CASE Stays /\ req.pc # "program" /\ req'.pc # "program"
  <2>1. /\ Loaded(z) /\ table' = table /\ req.pc # "scan" /\ free'[n] = free[n]
    BY <1>3 DEF Stays, Loaded
  <2>2. ~BeingWritten(z, n)
    BY <1>3 DEF BeingWritten
  <2> QED  BY <1>1, <2>1, <2>2 DEF Owned
<1>4. ~Forgets
  BY BlockNumbers DEF Forgets, Loaded
<1>5. ~ScanStart
  <2>1. ScanStart => /\ req'.pc = "scan" /\ scan'.i = StartBlock(scan'.zone) /\ scan'.zone = z
    BY DEF ScanStart, IInv, TypeOK, ReqType, Loaded
  <2> QED  BY <1>0, <2>1
<1>6. CASE ScanErased \/ ScanMaps
  <2>1. /\ scan \in ScanType /\ scan.i \in Numbers /\ req.pc = "scan"
    BY <1>6, ScanPlace DEF ScanErased, ScanMaps
  <2>2. /\ req' = req /\ scan'.i = scan.i + 1 /\ scan'.zone = scan.zone
    BY <1>6, <2>1 DEF ScanErased, ScanMaps, ScanNext, ScanType
  <2>3. Loaded(z) /\ ~BeingWritten(z, n)
    BY <2>1, <2>2 DEF Loaded, BeingWritten
  <2>4. n = scan.i \/ n < scan.i
    <3>1. n < scan.i + 1
      BY <2>1, <2>2
    <3>2. scan.i \in Nat
      BY <2>1, BlockNumbers
    <3> QED  BY <1>0, <3>1, <3>2
  <2>5. n < scan.i => free[n] > 0 \/ \E l \in LogicalBlocks : table[l] = n
    BY <1>1, <2>3 DEF Owned
  <2>6. CASE ScanErased
    <3>1. /\ table' = table
          /\ IF n = scan.i THEN free'[n] > 0 ELSE free'[n] = free[n]
      BY <1>0, <2>1, <2>6 DEF ScanErased, Insert
    <3> QED  BY <2>4, <2>5, <3>1 DEF Owned
  <2>7. CASE ScanMaps
    <3>1. PICK k \in LogicalBlocks :
            table[k] = None /\ table' = [table EXCEPT ![k] = scan.i] /\ free' = free
      BY <2>7 DEF ScanMaps
    <3>2. \A l \in LogicalBlocks : table'[l] = IF l = k THEN scan.i ELSE table[l]
      BY <3>1 DEF IInv, TypeOK
    <3> QED  BY <1>0, <2>4, <2>5, <3>1, <3>2 DEF Owned
  <2> QED  BY <1>6, <2>6, <2>7
<1>7. CASE ScanEnd
  <2>1. /\ req.pc = "scan" /\ scan.i = Physical /\ lastZone' = scan.zone /\ req'.pc = "go"
        /\ UNCHANGED <<table, free>>
    BY <1>7 DEF ScanEnd, IInv, TypeOK, ReqType
  <2>2. Loaded(z) /\ ~BeingWritten(z, n)
    BY <2>1 DEF Loaded, BeingWritten
  <2>3. Owned(z, n)
    BY <1>0, <1>1, <2>1, <2>2
  <2> QED  BY <2>1, <2>2, <2>3 DEF Owned
<1>8. CASE PopBlock
  <2>1. /\ req.pc = "go" /\ req'.pc = "program"
        /\ UNCHANGED <<table, lastZone>>
        /\ n # req'.new => free'[n] = free[n]
    BY <1>8, PopFacts
  <2>2. Loaded(z) /\ z = lastZone /\ ~BeingWritten(z, n)
    BY <2>1 DEF Loaded, BeingWritten
  <2>3. n = req'.new => BeingWritten(z, n)'
    BY <2>1, <2>2 DEF BeingWritten
  <2> QED  BY <1>1, <2>1, <2>2, <2>3 DEF Owned
<1>9. CASE ProgramPage
  <2>1. /\ req.pc = "program" /\ req'.pc = "program" /\ UNCHANGED <<table, free, lastZone>>
        /\ BeingWritten(z, n)' = BeingWritten(z, n)
    BY <1>9, ProgramFacts
  <2> QED  BY <1>1, <2>1 DEF Owned, Loaded
<1>10. CASE Commit
  <2>1. /\ IF n = req.old THEN free'[n] > 0 ELSE free'[n] = free[n]
        /\ BeingWritten(z, n) <=> z = lastZone /\ n = req.new
    BY <1>10, CommitFacts
  <2>2. /\ req.pc = "program" /\ lastZone' = lastZone /\ req'.pc \in {"idle", "map"}
        /\ LbOf(req.sector) \in LogicalBlocks /\ req.old = table[LbOf(req.sector)]
        /\ \A l \in LogicalBlocks :
             table'[l] = IF l = LbOf(req.sector) THEN req.new ELSE table[l]
    BY <1>10, CommitStep
  <2>3. Loaded(z) /\ z = lastZone
    BY <2>2 DEF Loaded
  <2>4. Owned(z, n)
    BY <1>1, <2>2, <2>3
  <2>5. CASE n = req.old
    BY <2>1, <2>5 DEF Owned
  <2>6. CASE n = req.new
    BY <2>2, <2>6 DEF Owned
  <2>7. CASE n # req.old /\ n # req.new
    <3>1. \A l \in LogicalBlocks : table[l] = n => table'[l] = n
      BY <2>2, <2>7
    <3> QED  BY <2>1, <2>4, <2>7, <3>1 DEF Owned
  <2> QED  BY <2>5, <2>6, <2>7
<1> QED
  BY <1>2, <1>3, <1>4, <1>5, <1>6, <1>7, <1>8, <1>9, <1>10, HarmlessStep
     DEF Writes, Undisturbed

\* An erased card and no table.
LEMMA InitData ==
  ASSUME Init
  PROVE  CopyInv /\ TableInv /\ OwnedInv /\ CardInv /\ NewData /\ Clean
<1>1. req.pc = "idle" /\ lastZone = None
  BY NoRequestType DEF Init
<1>2. \A z \in Zones, n \in Numbers : flash[z][n][0].la = NoLa
  BY PageNumbers, PageTypes DEF Init, ErasedBlock
<1>3. NoLa # BadLa /\ NoLa \notin LogicalBlocks
  BY LogicalAddresses DEF NoLa, BadLa
<1>4. CopyInv
  BY <1>2, <1>3 DEF CopyInv, Carries
<1>5. TableInv /\ OwnedInv /\ NewData
  BY <1>1, BlockNumbers DEF TableInv, OwnedInv, Loaded, NewData
<1>6. CardInv
  BY <1>2, <1>3, Address DEF CardInv, Carries, Init
<1>7. Clean
  BY PageNumbers DEF Init, Clean, ErasedBlock
<1> QED  BY <1>4, <1>5, <1>6, <1>7

\* The invariant of a layer with harmless faults.
DInv == IInv /\ CopyInv /\ TableInv /\ CardInv /\ NewData /\ Clean

\* It holds in every state.
THEOREM DataInvariance == Harmless => (Spec => []DInv)
<1> SUFFICES ASSUME Harmless PROVE Spec => []DInv
  OBVIOUS
<1>1. Init => DInv
  BY InitInv, InitData DEF DInv
<1>2. DInv /\ [Next]_vars => DInv'
  BY NextInv, CopyStep, TableStep, CardInvStep, NewDataStep, CleanStep, CleanIsNew DEF DInv
<1> QED  BY <1>1, <1>2, PTL DEF Spec

\* While no program, erase or scan of a block fails and the power does not go
\* during a write, the card gives for a sector what its last write wrote,
\* however often the table was dropped and built again and whichever zones were
\* used in between (GenerateTranslationTable).
THEOREM DataAfterRestarts == Harmless => (Spec => []ReadsWhatWasWritten)
<1> SUFFICES ASSUME Harmless PROVE Spec => []ReadsWhatWasWritten
  OBVIOUS
<1>1. DInv => ReadsWhatWasWritten
  <2> SUFFICES ASSUME DInv, req.pc = "go" PROVE ReadsWhatWasWritten
    BY DEF ReadsWhatWasWritten
  <2> USE DEF DInv
  <2> DEFINE s == req.sector
  <2>1. /\ s \in Sectors /\ lastZone = ZoneOf(s) /\ req.old = table[LbOf(s)]
        /\ ZoneOf(s) \in Zones /\ LbOf(s) \in LogicalBlocks
    BY Reading, Address
  <2>2. Loaded(lastZone) /\ \A n \in Numbers : ~BeingWritten(lastZone, n)
    BY DEF Loaded, BeingWritten
  <2> HIDE DEF s
  <2>3. CASE req.old = None
    <3>1. \A n \in Numbers : ~Carries(lastZone, n, LbOf(s))
      BY <2>1, <2>2, <2>3, Found, BlockNumbers
    <3>2. Blank \in maybe[s]
      BY <2>1, <3>1 DEF CardInv
    <3> QED  BY <2>3, <3>2 DEF ReadsWhatWasWritten, ReadData, s
  <2>4. CASE req.old # None
    <3>1. req.old \in Numbers /\ Carries(lastZone, req.old, LbOf(s))
      BY <2>1, <2>2, <2>4 DEF TableInv, IInv, TypeOK, ReqType
    <3>2. Good(s, flash[lastZone][req.old][PageOf(s)].data)
      BY <2>1, <2>2, <3>1 DEF CardInv
    <3> QED  BY <2>4, <3>2 DEF ReadsWhatWasWritten, ReadData, Good, s
  <2> QED  BY <2>3, <2>4
<1> QED  BY <1>1, DataInvariance, PTL

\* If nothing fails but by the card's removal, no number of writes, restarts,
\* removals and changes of zone loses a block: between requests each is mapped or
\* in the heap (xddrv_writesector to GenerateTranslationTable).
THEOREM BlocksKept == Undisturbed => (Spec => []NoBlockLost)
<1> SUFFICES ASSUME Undisturbed PROVE Spec => []NoBlockLost
  OBVIOUS
<1>0. Spec => []DInv
  BY DataInvariance DEF Undisturbed
<1>1. Init => OwnedInv
  BY InitData
<1>2. DInv /\ OwnedInv /\ [Next]_vars => OwnedInv'
  BY OwnedStep DEF DInv
<1>3. DInv /\ OwnedInv => NoBlockLost
  <2> SUFFICES ASSUME DInv, OwnedInv, lastZone # None, req.pc \in {"idle", "map", "go"},
                      NEW n \in StartBlock(lastZone) .. (Physical - 1)
               PROVE  free[n] > 0 \/ \E l \in LogicalBlocks : table[l] = n
    BY DEF NoBlockLost
  <2>1. lastZone \in Zones /\ Loaded(lastZone) /\ ~BeingWritten(lastZone, n)
    BY DEF DInv, IInv, TypeOK, Loaded, BeingWritten
  <2>2. n \in Numbers /\ n >= StartBlock(lastZone)
    <3>1. StartBlock(lastZone) \in Nat
      BY <2>1, BlockNumbers, Sizes
    <3> QED  BY <3>1, Sizes DEF Numbers
  <2> QED  BY <2>1, <2>2 DEF OwnedInv, Owned
<1> QED  BY <1>0, <1>1, <1>2, <1>3, PTL DEF Spec
=============================================================================
