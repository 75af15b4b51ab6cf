--------------------------- MODULE UpgradeProofs ---------------------------
(***************************************************************************)
(* Proofs about Upgrade, for every package of the shape its records must   *)
(* have, every number of partitions, of failures and of power losses.      *)
(***************************************************************************)
EXTENDS Upgrade, SequenceTheorems, FiniteSetTheorems, TLAPS

\* The modes in which partitioning runs to its end once it is started, or is
\* started again by the next upgrade: a failure leaves the package's table
\* with partitions that have no file system, which only a package that forces
\* partitioning, or NAND after a restart, formats.
Repairable ==
  /\ \A m \in FailModes : m.flag = "partition"
  /\ \A m \in CrashModes : m.flag = "partition" \/ m.nand

Reading == {"tag", "header", "write", "verify"}
Working == Reading \union {"create", "mount", "format"}

\* What a partition holds under a name, and a file system.
Stuff == {"absent", "file", "directory", "mine", Bad} \union Blocks
Contents == {c \in Seq(Stuff) : Len(c) >= 1 /\ c[1] \in {"absent", "file", "directory"}}
FileSystem == [Names -> Contents]

TypeInv ==
  /\ layout \in Layouts
  /\ volume \in [Partitions -> FileSystem \union {Unformatted}]
  /\ DOMAIN raw = RawBlocks
  /\ mounted \subseteq Partitions
  /\ mode \in Modes /\ cut \in Nat
  /\ pc \in Working \union {"off", "dark", "done"}
  /\ rec \in 0 .. Len(Package) /\ at \in 0 .. Width
  /\ count \in 0 .. NumPartitions /\ drive \in Partitions \union {NoDrive}
  /\ ret \in {0, 1}

\* Where the loop over the records is.
LoopInv ==
  pc \in Working =>
    /\ rec \in Records
    /\ count = Home(rec) + 1 /\ (count > 0 => drive \in Partitions) /\ (count = 0 => drive = NoDrive)
    /\ Partitioning => rec = 1
    /\ pc = "format" => at <= NumPartitions
    /\ pc \in {"write", "verify"} => /\ R.tag \in {"rawdata", "file"}
                                     /\ at \in 1 .. Len(R.data) + 1
                                     /\ R.tag = "file" => volume[drive] # Unformatted

\* The decision to partition is made on the table that the upgrade found.
FoundInv ==
  /\ pc \in {"tag", "header"} /\ rec = 1 => found = layout
  /\ Partitioning => mode.flag = "partition" \/ (mode.flag = "none" /\ found \notin Alike)

\* The partitions there are, all with a file system.
AllMounted == mounted = Existing(layout) /\ \A p \in Existing(layout) : volume[p] # Unformatted
MayStay == mode.flag = "keep" \/ layout \in Alike

\* A table that is not to be written again has all its partitions formatted,
\* and mounted once the device has started.
ModeInv ==
  mode.flag # "partition" /\ MayStay /\ ~Partitioning =>
    /\ pc # "dark" => AllMounted
    /\ ~mode.nand => \A p \in Existing(layout) : volume[p] # Unformatted

\* After the device record the n-th drive is the n-th partition, and the table is
\* the package's, like it, or to be kept.
DriveInv ==
  /\ pc \in {"mount", "format"} => layout = "wanted"
  /\ pc = "format" => mounted = Partitions /\ \A p \in 0 .. at - 1 : volume[p] # Unformatted
  /\ pc \in Working /\ rec > 1 => AllMounted /\ (MayStay \/ NumPartitions = 0)
  /\ pc \in Working => drive = Home(rec) /\ (drive # NoDrive => drive \in Existing(layout))

\* The file that is being written, and what has been compared.
FileInv ==
  /\ pc \in {"write", "verify"} /\ R.tag = "file" => InDirectory(volume[drive], R)
  /\ pc = "write" /\ R.tag = "file" =>
       LET c == volume[drive][R.name] IN Len(c) = at /\ c[1] = "file"
  /\ pc = "verify" /\ R.tag = "file" =>
       LET c == volume[drive][R.name] IN Len(c) = Len(R.data) + 1 /\ c[1] = "file"
  /\ pc = "verify" => \A i \in 1 .. at - 1 : OnDisk(i) = R.data[i]

PlaceInv ==
  /\ pc \in Reading => \A n \in 1 .. rec - 1 : OnPlace(n)
  /\ pc = "done" /\ ret = 0 => \A n \in Records : Delivered(n, 0) => OnPlace(n)

Inv == TypeInv /\ LoopInv /\ FoundInv
InstallInv == Inv /\ ModeInv /\ DriveInv /\ FileInv /\ PlaceInv

-----------------------------------------------------------------------------
(* The constants and the operators                                         *)

LEMMA Constants ==
  /\ Len(Package) \in Nat /\ Len(Package) >= 1 /\ Records = 1 .. Len(Package) /\ 1 \in Records
  /\ NumPartitions \in Nat /\ NumPartitions <= Width /\ Width = 100
  /\ Partitions = 0 .. NumPartitions - 1 /\ NoDrive = -1 /\ NoDrive \notin Partitions
  /\ "user" \in Names
BY UpgradeAssumption, PackageAssumption DEF Records, Partitions, NoDrive, Width

\* The data of a record are blocks, fewer than the reads numbered for it.
LEMMA RecordType ==
  ASSUME NEW n \in Records
  PROVE  /\ Package[n].tag \in Tags /\ Package[n].data \in Seq(Blocks)
         /\ Len(Package[n].data) \in Nat /\ Len(Package[n].data) < Width - 2
         /\ DOMAIN Package[n].data = 1 .. Len(Package[n].data)
         /\ Package[n].tag = "device" <=> n = 1
         /\ Package[n].tag = "end" <=> n = Len(Package)
         /\ Package[n].tag = "rawdata" =>
              /\ Package[n].pos \in Int
              /\ \A i \in 1 .. Len(Package[n].data) : Package[n].pos + i - 1 \in RawBlocks
         /\ Package[n].tag \in {"directory", "file"} =>
              /\ Package[n].name \in Names /\ Package[n].name # "user"
              /\ \E m \in 1 .. n - 1 : Package[m].tag = "partition"
         /\ Package[n].tag = "file" => Package[n].dir \in Names \union {Root}
<1>1. Package[n].tag \in Tags /\ Len(Package[n].data) < Width - 2
  BY UpgradeAssumption
<1>2. Package[n].data \in Seq(Blocks)
  BY PackageAssumption
<1>3. Len(Package[n].data) \in Nat /\ DOMAIN Package[n].data = 1 .. Len(Package[n].data)
  BY <1>2, LenProperties
<1> QED  BY <1>1, <1>2, <1>3, PackageAssumption

\* The partition of a record: one more than that of the record before it when
\* that one was a partition record.
LEMMA HomeNext ==
  ASSUME NEW n \in Records
  PROVE  /\ Home(n) \in Int /\ Home(n) >= -1
         /\ Home(n + 1) \in Int
         /\ Package[n].tag = "partition" => Home(n + 1) = Home(n) + 1
         /\ Package[n].tag # "partition" => Home(n + 1) = Home(n)
<1> DEFINE P(k) == {m \in 1 .. k - 1 : Package[m].tag = "partition"}
<1>1. n \in Int /\ n >= 1 /\ (n + 1) - 1 = n
  BY Constants
<1>2. IsFiniteSet(P(n)) /\ Cardinality(P(n)) \in Nat
  <2>1. IsFiniteSet(1 .. n - 1)
    BY <1>1, FS_Interval
  <2>2. P(n) \in SUBSET (1 .. n - 1)
    OBVIOUS
  <2>3. IsFiniteSet(P(n))
    BY <2>1, <2>2, FS_Subset
  <2> QED  BY <2>3, FS_CardinalityType
<1>3. Home(n) = Cardinality(P(n)) - 1 /\ Home(n + 1) = Cardinality(P(n + 1)) - 1
  BY DEF Home
<1>4. CASE Package[n].tag = "partition"
  <2>1. P(n + 1) = P(n) \union {n} /\ n \notin P(n)
    BY <1>1, <1>4
  <2> HIDE DEF P
  <2>2. Cardinality(P(n + 1)) = Cardinality(P(n)) + 1
    BY <1>2, <2>1, FS_AddElement
  <2> QED  BY <1>2, <1>3, <1>4, <2>2
<1>5. CASE Package[n].tag # "partition"
  <2>1. P(n + 1) = P(n)
    BY <1>1, <1>5
  <2> HIDE DEF P
  <2> QED  BY <1>2, <1>3, <1>5, <2>1
<1> QED  BY <1>4, <1>5

LEMMA HomeFirst == Home(1) = -1
<1>1. {m \in 1 .. 1 - 1 : Package[m].tag = "partition"} = {}
  OBVIOUS
<1> QED  BY <1>1, FS_EmptySet DEF Home

\* Later records belong to later partitions.
LEMMA HomeMono ==
  ASSUME NEW m \in 1 .. Len(Package) + 1, NEW n \in 1 .. Len(Package) + 1, m <= n
  PROVE  Home(m) \in Int /\ Home(n) \in Int /\ Home(m) <= Home(n)
<1> DEFINE P(k) == {x \in 1 .. k - 1 : Package[x].tag = "partition"}
<1>1. m \in Int /\ n \in Int
  BY Constants
<1>2. P(n) \in SUBSET (1 .. n - 1) /\ P(m) \in SUBSET P(n)
  BY <1>1
<1> HIDE DEF P
<1>3. IsFiniteSet(P(n))
  <2>1. IsFiniteSet(1 .. n - 1)
    BY <1>1, FS_Interval
  <2> QED  BY <1>2, <2>1, FS_Subset
<1>4. IsFiniteSet(P(m)) /\ Cardinality(P(m)) <= Cardinality(P(n))
  BY <1>2, <1>3, FS_Subset
<1>5. Cardinality(P(m)) \in Nat /\ Cardinality(P(n)) \in Nat
  BY <1>3, <1>4, FS_CardinalityType
<1> QED  BY <1>4, <1>5 DEF Home, P

\* A file or directory belongs to a partition.
LEMMA HomeOfFile ==
  ASSUME NEW n \in Records, Package[n].tag \in {"directory", "file"}
  PROVE  Home(n) \in Int /\ Home(n) >= 0
<1>1. PICK m \in 1 .. n - 1 : Package[m].tag = "partition"
  BY RecordType
<1>2. m \in Records /\ m + 1 \in 1 .. Len(Package) + 1 /\ n \in 1 .. Len(Package) + 1 /\ m + 1 <= n
  BY Constants
<1>3. Home(m) \in Int /\ Home(m) >= -1 /\ Home(m + 1) = Home(m) + 1
  BY <1>1, <1>2, HomeNext
<1>4. Home(n) \in Int /\ Home(m + 1) <= Home(n)
  BY <1>2, HomeMono
<1> QED  BY <1>3, <1>4

\* No two file records are the same file.
LEMMA FilesDiffer ==
  ASSUME NEW m \in Records, NEW n \in Records, m < n,
         Package[m].tag = "file", Package[n].tag = "file", Home(m) = Home(n)
  PROVE  Package[m].name # Package[n].name
<1> SUFFICES ASSUME Package[m].name = Package[n].name PROVE FALSE
  OBVIOUS
<1>1. PICK k \in m .. n - 1 : Package[k].tag = "partition"
  BY PackageAssumption
<1>2. /\ k \in Records /\ m \in 1 .. Len(Package) + 1 /\ k \in 1 .. Len(Package) + 1
      /\ k + 1 \in 1 .. Len(Package) + 1 /\ n \in 1 .. Len(Package) + 1
      /\ m <= k /\ k + 1 <= n
  BY Constants
<1>3. Home(m) <= Home(k) /\ Home(m) \in Int
  BY <1>2, HomeMono
<1>4. Home(k) \in Int /\ Home(k + 1) = Home(k) + 1
  BY <1>1, <1>2, HomeNext
<1>5. Home(k + 1) <= Home(n) /\ Home(n) \in Int
  BY <1>2, HomeMono
<1> QED  BY <1>3, <1>4, <1>5

\* Nor do two records of raw data share a block.
LEMMA RawApart ==
  \A m, n \in Records :
    m < n /\ Package[m].tag = "rawdata" /\ Package[n].tag = "rawdata" =>
      \A i \in DOMAIN Package[m].data, j \in DOMAIN Package[n].data :
        Package[m].pos + i # Package[n].pos + j
<1>1. \A m, n \in Records :
        m < n /\ Package[m].tag = Package[n].tag =>
          /\ Package[m].tag = "rawdata" =>
               \A i \in DOMAIN Package[m].data, j \in DOMAIN Package[n].data :
                 Package[m].pos + i # Package[n].pos + j
          /\ Package[m].tag = "file" /\ Package[m].name = Package[n].name =>
               \E k \in m .. n - 1 : Package[k].tag = "partition"
  BY PackageAssumption
<1> QED  BY <1>1, Zenon

\* The partitions of a table are the package's first ones.
LEMMA ExistingType ==
  ASSUME NEW l
  PROVE  /\ Existing(l) \subseteq Partitions
         /\ \E k \in Int : Existing(l) = 0 .. k - 1
         /\ l \in Alike => Existing(l) = Partitions
         /\ NumPartitions = 0 => Existing(l) = {} /\ Partitions = {}
<1>1. NumPartitions \in Nat /\ Partitions = 0 .. NumPartitions - 1
  BY Constants
<1>2. CASE l = "none"
  <2>1. Existing(l) = {}
    BY <1>2 DEF Existing
  <2>2. {} = 0 .. 0 - 1 /\ 0 \in Int
    OBVIOUS
  <2>3. \E k \in Int : Existing(l) = 0 .. k - 1
    BY <2>1, <2>2
  <2>4. l \notin Alike
    BY <1>2 DEF Alike
  <2>5. NumPartitions = 0 => Partitions = {}
    BY <1>1
  <2> QED  BY <2>1, <2>3, <2>4, <2>5
<1>3. CASE l = "fewer"
  <2>1. Existing(l) = 0 .. (NumPartitions - 1) - 1
    BY <1>1, <1>3 DEF Existing
  <2> QED  BY <1>1, <1>3, <2>1 DEF Alike
<1>4. CASE l # "none" /\ l # "fewer"
  <2>1. Existing(l) = Partitions
    BY <1>4 DEF Existing
  <2> QED  BY <1>1, <2>1
<1> QED  BY <1>2, <1>3, <1>4

\* The n-th drive: there are n partitions before it, and when all there are
\* are mounted it is partition n.
LEMMA DriveOf ==
  ASSUME NEW n \in Nat, mounted \subseteq Partitions, NEW p \in Drive(n)
  PROVE  /\ p \in Partitions /\ n <= p /\ n + 1 <= NumPartitions
         /\ p \in mounted
         /\ mounted = Existing(layout) => p = n
<1> DEFINE Q == {q \in mounted : q < p}
<1>1. p \in mounted /\ Cardinality(Q) = n
  BY DEF Drive
<1>2. p \in Partitions /\ p \in Int /\ 0 \in Int /\ p - 1 \in Int /\ p >= 0
  BY <1>1, Constants
<1>3. IsFiniteSet(0 .. p - 1) /\ Cardinality(0 .. p - 1) = p
  BY <1>2, FS_Interval
<1>4. Q \in SUBSET (0 .. p - 1)
  <2> SUFFICES ASSUME NEW q \in mounted, q < p PROVE q \in 0 .. p - 1
    OBVIOUS
  <2>1. q \in Partitions /\ Partitions = 0 .. NumPartitions - 1 /\ NumPartitions \in Nat
    BY Constants
  <2> QED  BY <1>2, <2>1
<1>5. Cardinality(Q) <= p
  BY <1>3, <1>4, FS_Subset
<1>6. ASSUME mounted = Existing(layout) PROVE p = n
  <2>1. PICK k \in Int : mounted = 0 .. k - 1
    BY <1>6, ExistingType
  <2>2. Q = 0 .. p - 1
    BY <1>1, <1>2, <2>1
  <2> QED  BY <1>1, <1>3, <2>2
<1> HIDE DEF Q
<1>7. n <= p
  BY <1>1, <1>5
<1> QED  BY <1>1, <1>2, <1>6, <1>7, Constants

-----------------------------------------------------------------------------
(* Files                                                                   *)

LEMMA StuffTypes ==
  /\ \A n \in Records : \A i \in 1 .. Len(Package[n].data) : Package[n].data[i] \in Stuff
  /\ Bad \in Stuff /\ Blocks \subseteq Stuff
<1>1. ASSUME NEW n \in Records, NEW i \in 1 .. Len(Package[n].data)
      PROVE  Package[n].data[i] \in Blocks
  BY RecordType, ElementOfSeq
<1> QED  BY <1>1 DEF Stuff

\* A file is the blocks written to it behind its mark.
LEMMA FileType ==
  ASSUME NEW b \in Seq(Stuff)
  PROVE  /\ File(b) \in Contents /\ Len(File(b)) = Len(b) + 1 /\ File(b)[1] = "file"
         /\ \A i \in 1 .. Len(b) : File(b)[i + 1] = b[i]
<1>1. <<"file">> \in Seq(Stuff) /\ Len(<<"file">>) = 1 /\ <<"file">>[1] = "file"
  BY DEF Stuff
<1>2. Len(b) \in Nat
  BY LenProperties
<1>3. /\ File(b) \in Seq(Stuff) /\ Len(File(b)) = 1 + Len(b)
      /\ \A i \in 1 .. 1 + Len(b) :
           File(b)[i] = IF i <= 1 THEN <<"file">>[i] ELSE b[i - 1]
  BY <1>1, ConcatProperties DEF File
<1>4. File(b)[1] = "file"
  BY <1>1, <1>2, <1>3
<1>5. \A i \in 1 .. Len(b) : File(b)[i + 1] = b[i]
  <2> TAKE i \in 1 .. Len(b)
  <2>1. i + 1 \in 1 .. 1 + Len(b) /\ ~(i + 1 <= 1) /\ (i + 1) - 1 = i
    BY <1>2
  <2> QED  BY <1>3, <2>1
<1> QED  BY <1>2, <1>3, <1>4, <1>5 DEF Contents

LEMMA EmptyTypes ==
  /\ <<"absent">> \in Contents /\ Directory \in Contents
  /\ File(<<>>) \in Contents /\ Len(File(<<>>)) = 1 /\ File(<<>>)[1] = "file"
  /\ Nothing \in FileSystem
<1>1. <<"absent">> \in Contents /\ Directory \in Contents
  BY DEF Contents, Stuff, Directory
<1>2. <<>> \in Seq(Stuff) /\ Len(<<>>) = 0
  BY EmptySeq
<1>3. File(<<>>) \in Contents /\ Len(File(<<>>)) = 1 /\ File(<<>>)[1] = "file"
  <2> DEFINE e == <<>>
  <2>1. e \in Seq(Stuff) /\ Len(e) = 0
    BY <1>2
  <2> HIDE DEF e
  <2>2. File(e) \in Contents /\ Len(File(e)) = Len(e) + 1 /\ File(e)[1] = "file"
    BY <2>1, FileType
  <2>3. Len(File(e)) = 1
    BY <2>1, <2>2
  <2> QED  BY <2>2, <2>3 DEF e
<1>4. Nothing \in FileSystem
  BY <1>1 DEF Nothing, FileSystem
<1> QED  BY <1>1, <1>3, <1>4

LEMMA UserFile == [Nothing EXCEPT !["user"] = File(<<"mine">>)] \in FileSystem
<1>1. <<"mine">> \in Seq(Stuff)
  BY DEF Stuff
<1>2. File(<<"mine">>) \in Contents
  BY <1>1, FileType
<1> QED  BY <1>2, EmptyTypes DEF FileSystem

\* A file system is not an unformatted partition.
LEMMA NotUnformatted == Unformatted \notin FileSystem
<1> SUFFICES ASSUME Unformatted \in FileSystem PROVE FALSE
  OBVIOUS
<1>1. Unformatted["user"] \in Contents /\ Unformatted["user"] = <<"none">>
  BY Constants DEF FileSystem, Unformatted
<1>2. <<"none">>[1] \in {"absent", "file", "directory"}
  BY <1>1 DEF Contents
<1>3. <<"none">>[1] = "none"
  OBVIOUS
<1> QED  BY <1>2, <1>3

LEMMA AppendType ==
  ASSUME NEW c \in Contents, NEW b \in Stuff
  PROVE  /\ Append(c, b) \in Contents /\ Len(Append(c, b)) = Len(c) + 1
         /\ Append(c, b)[1] = c[1]
<1>1. c \in Seq(Stuff) /\ Len(c) \in Nat /\ Len(c) >= 1 /\ c[1] \in {"absent", "file", "directory"}
  BY LenProperties DEF Contents
<1>2. /\ Append(c, b) \in Seq(Stuff) /\ Len(Append(c, b)) = Len(c) + 1
      /\ \A i \in 1 .. Len(c) : Append(c, b)[i] = c[i]
  BY <1>1, AppendProperties
<1>3. Append(c, b)[1] = c[1]
  BY <1>1, <1>2
<1> DEFINE a == Append(c, b)
<1>4. a \in Seq(Stuff) /\ Len(a) = Len(c) + 1 /\ a[1] = c[1] /\ Len(a) >= 1
  BY <1>1, <1>2, <1>3
<1> HIDE DEF a
<1>5. a \in Contents
  BY <1>1, <1>4 DEF Contents
<1> QED  BY <1>4, <1>5 DEF a

LEMMA PrefixType ==
  ASSUME NEW c \in Contents, NEW n \in 1 .. Len(c)
  PROVE  SubSeq(c, 1, n) \in Contents
<1>1. c \in Seq(Stuff) /\ Len(c) \in Nat /\ c[1] \in {"absent", "file", "directory"}
  BY LenProperties DEF Contents
<1>2. \A i \in 1 .. n : c[i] \in Stuff
  BY <1>1, ElementOfSeq
<1>3. /\ SubSeq(c, 1, n) \in Seq(Stuff) /\ Len(SubSeq(c, 1, n)) = n
      /\ \A i \in 1 .. n - 1 + 1 : SubSeq(c, 1, n)[i] = c[1 + i - 1]
  BY <1>1, <1>2, SubSeqProperties
<1> DEFINE a == SubSeq(c, 1, n)
<1>4. a \in Seq(Stuff) /\ a[1] = c[1] /\ Len(a) >= 1
  BY <1>1, <1>3
<1> HIDE DEF a
<1>5. a \in Contents
  BY <1>1, <1>4 DEF Contents
<1> QED  BY <1>5 DEF a

\* Changing one file of a formatted partition.
LEMMA ChangeFile ==
  ASSUME volume \in [Partitions -> FileSystem \union {Unformatted}],
         NEW d \in Partitions, volume[d] # Unformatted,
         NEW n \in Names, NEW c \in Contents,
         NEW v, v = [volume EXCEPT ![d][n] = c]
  PROVE  /\ v \in [Partitions -> FileSystem \union {Unformatted}]
         /\ v[d] # Unformatted /\ v[d] \in FileSystem /\ v[d][n] = c
         /\ \A m \in Names : m # n => v[d][m] = volume[d][m]
         /\ \A p \in Partitions : p # d => v[p] = volume[p]
<1> DEFINE f == [volume[d] EXCEPT ![n] = c]
<1>1. volume[d] \in FileSystem
  OBVIOUS
<1>2. f \in FileSystem /\ f[n] = c /\ \A m \in Names : m # n => f[m] = volume[d][m]
  BY <1>1 DEF FileSystem
<1>3. v = [volume EXCEPT ![d] = f]
  OBVIOUS
<1> HIDE DEF f
<1> QED  BY <1>2, <1>3, NotUnformatted

LEMMA FormattedType ==
  ASSUME volume \in [Partitions -> FileSystem \union {Unformatted}],
         NEW S
  PROVE  /\ Formatted(S, volume) \in [Partitions -> FileSystem \union {Unformatted}]
         /\ \A p \in Partitions :
              volume[p] # Unformatted => Formatted(S, volume)[p] = volume[p]
         /\ mode.nand =>
              \A p \in Partitions : p \in S => Formatted(S, volume)[p] # Unformatted
BY EmptyTypes, NotUnformatted DEF Formatted

-----------------------------------------------------------------------------
(* Types, and where the loop is                                            *)

\* What the actions on a record start from.
LEMMA AtRecord ==
  ASSUME TypeInv, LoopInv, pc \in Working
  PROVE  /\ rec \in Records /\ rec \in Int /\ rec >= 1 /\ rec <= Len(Package)
         /\ R.tag \in Tags /\ Len(R.data) \in Nat /\ Len(R.data) < Width - 2
         /\ R.tag = "device" <=> rec = 1
         /\ R.tag = "end" <=> rec = Len(Package)
         /\ R.tag \in {"directory", "file"} =>
              /\ R.name \in Names /\ R.name # "user"
              /\ drive \in Partitions
<1>1. rec \in Records /\ rec \in Int /\ rec >= 1 /\ rec <= Len(Package)
  BY Constants DEF LoopInv
<1>2. R = Package[rec]
  BY DEF R
<1>3. ASSUME R.tag \in {"directory", "file"} PROVE drive \in Partitions
  <2>1. Home(rec) \in Int /\ Home(rec) >= 0
    BY <1>1, <1>2, <1>3, HomeOfFile
  <2>2. count = Home(rec) + 1 /\ (count > 0 => drive \in Partitions)
    BY DEF LoopInv
  <2> QED  BY <2>1, <2>2
<1> QED  BY <1>1, <1>2, <1>3, RecordType

\* The loop goes on to the next record.
LEMMA Advance ==
  ASSUME TypeInv, LoopInv, pc \in Working, R.tag # "end", NextRecord,
         \/ R.tag = "partition" /\ count' = count + 1 /\ drive' \in Partitions
         \/ R.tag # "partition" /\ count' = count /\ drive' = drive
  PROVE  /\ rec' \in Records /\ rec' \in 0 .. Len(Package) /\ rec' > 1 /\ rec' = rec + 1
         /\ pc' = "tag" /\ at' = 0
         /\ LoopInv' /\ FoundInv'
<1>1. rec' = rec + 1 /\ pc' = "tag" /\ at' = 0
  BY DEF NextRecord
<1>2. /\ rec \in Records /\ rec \in Int /\ rec >= 1 /\ rec # Len(Package) /\ rec <= Len(Package)
      /\ R = Package[rec]
  BY AtRecord DEF R
<1>3. rec' \in Records /\ rec' \in 0 .. Len(Package) /\ rec' > 1
  BY <1>1, <1>2, Constants
<1>4. /\ count = Home(rec) + 1 /\ (count > 0 => drive \in Partitions)
      /\ (count = 0 => drive = NoDrive) /\ count \in 0 .. NumPartitions
  BY DEF LoopInv, TypeInv
<1>5. count' = Home(rec + 1) + 1 /\ (count' > 0 => drive' \in Partitions)
      /\ (count' = 0 => drive' = NoDrive)
  <2>1. /\ Home(rec) \in Int /\ Home(rec + 1) \in Int
        /\ Package[rec].tag = "partition" => Home(rec + 1) = Home(rec) + 1
        /\ Package[rec].tag # "partition" => Home(rec + 1) = Home(rec)
    BY <1>2, HomeNext
  <2>2. CASE R.tag = "partition"
    BY <1>2, <1>4, <2>1, <2>2, Constants
  <2>3. CASE R.tag # "partition"
    BY <1>2, <1>4, <2>1, <2>3
  <2> QED  BY <2>2, <2>3
<1>6. count' = Home(rec)' + 1
  BY <1>1, <1>5 DEF Home
<1>7. LoopInv'
  BY <1>1, <1>3, <1>5, <1>6 DEF LoopInv, Partitioning
<1>8. FoundInv'
  BY <1>1, <1>3, Constants DEF FoundInv, Partitioning
<1> QED  BY <1>1, <1>3, <1>7, <1>8

LEMMA InitInv == Init => Inv
<1> SUFFICES ASSUME Init PROVE Inv
  OBVIOUS
<1>1. volume \in [Partitions -> FileSystem \union {Unformatted}]
  BY UserFile DEF Init
<1>2. DOMAIN raw = RawBlocks
  BY DEF Init
<1>3. mounted \subseteq Partitions
  BY ExistingType DEF Init, Mountable
<1>4. cut \in Nat
  BY UpgradeAssumption DEF Init
<1> QED  BY <1>1, <1>2, <1>3, <1>4, Constants
         DEF Init, Inv, TypeInv, LoopInv, FoundInv, Working, Reading, Partitioning, NoDrive

\* The upgrade starts, reads a tag, gives up or is done.
LEMMA LoopStep ==
  ASSUME Inv, Start \/ ReadTag \/ HeaderMissing \/ NoPath \/ ReadEnd
  PROVE  Inv'
<1>1. CASE Start
  <2>1. /\ rec' = 1 /\ at' = 0 /\ count' = 0 /\ drive' = NoDrive /\ ret' = 0 /\ pc' = "tag"
        /\ found' = layout' /\ UNCHANGED <<layout, volume, raw, mounted, mode, cut>>
    BY <1>1 DEF Start, Goto, disk
  <2>2. Home(rec)' = -1
    BY <2>1, HomeFirst DEF Home
  <2>3. TypeInv'
    BY <2>1, Constants DEF Inv, TypeInv, Working, Reading
  <2>4. LoopInv'
    BY <2>1, <2>2, Constants DEF LoopInv, Partitioning
  <2>5. FoundInv'
    BY <2>1 DEF FoundInv, Partitioning
  <2> QED  BY <2>3, <2>4, <2>5 DEF Inv
<1>2. CASE ReadTag
  <2>1. /\ pc = "tag" /\ pc' \in {"header", "done"}
        /\ UNCHANGED <<layout, volume, raw, mounted, rec, at, count, drive, ret, mode, cut, found>>
    BY <1>2 DEF ReadTag, Goto, disk, idle
  <2>2. Home(rec)' = Home(rec)
    BY <2>1 DEF Home
  <2>3. TypeInv'
    BY <2>1 DEF Inv, TypeInv, Working, Reading
  <2>4. LoopInv'
    BY <2>1, <2>2 DEF Inv, LoopInv, Partitioning, Working, Reading
  <2>5. FoundInv'
    BY <2>1 DEF Inv, FoundInv, Partitioning
  <2> QED  BY <2>3, <2>4, <2>5 DEF Inv
<1>3. CASE HeaderMissing \/ NoPath \/ ReadEnd
  <2>1. /\ pc' = "done" /\ ret' \in {0, 1}
        /\ UNCHANGED <<layout, volume, raw, mounted, rec, at, count, drive, mode, cut, found>>
    BY <1>3 DEF HeaderMissing, NoPath, ReadEnd, Fails, Goto, disk, idle, Inv, TypeInv
  <2> QED  BY <2>1 DEF Inv, TypeInv, LoopInv, FoundInv, Partitioning, Working, Reading
<1> QED  BY <1>1, <1>2, <1>3

\* The device record.
LEMMA DeviceStep ==
  ASSUME Inv, ReadDevice \/ CreatePartition \/ ForceMount \/ Format \/ AllFormatted
  PROVE  Inv'
<1> USE DEF Inv
<1>1. CASE ReadDevice
  <2>1. /\ pc = "header" /\ R.tag = "device" /\ count' = 0
        /\ UNCHANGED <<layout, volume, raw, drive, ret, mode, cut>>
    BY <1>1 DEF ReadDevice, Header
  <2>2. pc \in Working /\ rec = 1 /\ rec \in Records
    BY <2>1, AtRecord DEF Working, Reading
  <2>3. count = 0 /\ drive = NoDrive
    BY <2>2, HomeFirst DEF LoopInv
  <2>4. CASE Unmount /\ ((Repartition /\ found' = found) \/ (mode.flag = "none" /\ found' = "none"))
    <3>1. pc' = "create" /\ mounted' = {} /\ rec' = 1 /\ at' = at
      BY <2>2, <2>4 DEF Unmount, Goto
    <3>2. Home(rec)' = -1
      BY <3>1, HomeFirst DEF Home
    <3>3. TypeInv'
      BY <2>1, <2>2, <3>1, Constants DEF TypeInv, Working
    <3>4. LoopInv'
      BY <2>1, <2>2, <2>3, <3>1, <3>2, Constants DEF LoopInv, Partitioning
    <3>5. FoundInv'
      BY <2>1, <2>2, <2>4, <3>1 DEF FoundInv, Partitioning, Repartition, Alike
    <3> QED  BY <3>3, <3>4, <3>5
  <2>5. CASE NextRecord /\ mounted' = mounted /\ found' = found
    <3>2. /\ rec' \in 0 .. Len(Package) /\ pc' = "tag" /\ at' = 0 /\ LoopInv' /\ FoundInv'
      BY <2>1, <2>2, <2>3, <2>5, Advance
    <3>3. TypeInv'
      BY <2>1, <2>5, <3>2, Constants DEF TypeInv, Working, Reading
    <3> QED  BY <3>2, <3>3
  <2>6. \/ Unmount /\ ((Repartition /\ found' = found) \/ (mode.flag = "none" /\ found' = "none"))
        \/ NextRecord /\ mounted' = mounted /\ found' = found
    <3>1. CASE Repartition
      BY <1>1, <3>1 DEF ReadDevice
    <3>2. CASE ~Repartition
      BY <1>1, <3>2 DEF ReadDevice
    <3> QED  BY <3>1, <3>2
  <2> QED  BY <2>4, <2>5, <2>6
<1>2. CASE CreatePartition
  <2>1. /\ pc = "create" /\ pc' \in {"mount", "done"} /\ layout' \in {layout, "wanted"}
        /\ ret' \in {0, 1}
        /\ UNCHANGED <<raw, mounted, rec, at, count, drive, mode, cut, found>>
    BY <1>2 DEF CreatePartition, Goto, Fails, idle, TypeInv
  <2>2. volume' \in [Partitions -> FileSystem \union {Unformatted}]
    <3>1. CASE volume' = volume
      BY <3>1 DEF TypeInv
    <3>2. CASE volume' \in [Partitions -> {Unformatted} \union {volume[p] : p \in Partitions}]
      BY <3>2 DEF TypeInv
    <3> QED  BY <1>2, <3>1, <3>2 DEF CreatePartition
  <2>3. Home(rec)' = Home(rec) /\ rec = 1
    BY <2>1 DEF Home, LoopInv, Working, Partitioning
  <2>4. TypeInv'
    BY <2>1, <2>2 DEF TypeInv, Working, Layouts
  <2>5. LoopInv'
    BY <2>1, <2>3 DEF LoopInv, Partitioning, Working, Reading
  <2>6. FoundInv'
    BY <2>1 DEF FoundInv, Partitioning
  <2> QED  BY <2>4, <2>5, <2>6
<1>3. CASE ForceMount
  <2>1. /\ pc = "mount" /\ pc' \in {"format", "done"} /\ mounted' \subseteq Partitions
        /\ ret' \in {0, 1} /\ at' = 0 /\ volume' = Formatted(mounted', volume)
        /\ UNCHANGED <<layout, raw, rec, count, drive, mode, cut, found>>
    <3>1. /\ pc = "mount" /\ pc' \in {"format", "done"} /\ ret' \in {0, 1} /\ at' = 0
          /\ volume' = Formatted(mounted', volume)
          /\ UNCHANGED <<layout, raw, rec, count, drive, mode, cut, found>>
      BY <1>3 DEF ForceMount, Goto, Fails, idle, TypeInv
    <3>2. ASSUME NEW k \in Partitions PROVE 0 .. k - 1 \subseteq Partitions
      BY Constants
    <3> QED  BY <1>3, <3>1, <3>2 DEF ForceMount
  <2>2. volume' \in [Partitions -> FileSystem \union {Unformatted}]
    BY <2>1, FormattedType DEF TypeInv
  <2>3. Home(rec)' = Home(rec) /\ rec = 1
    BY <2>1 DEF Home, LoopInv, Working, Partitioning
  <2>4. TypeInv'
    BY <2>1, <2>2, Constants DEF TypeInv, Working
  <2>5. LoopInv'
    BY <2>1, <2>3, Constants DEF LoopInv, Partitioning, Working, Reading
  <2>6. FoundInv'
    BY <2>1 DEF FoundInv, Partitioning
  <2> QED  BY <2>4, <2>5, <2>6
<1>4. CASE Format
  <2>1. /\ pc = "format" /\ at < NumPartitions
        /\ UNCHANGED <<layout, raw, mounted, rec, count, drive, mode, cut, found>>
    BY <1>4 DEF Format, idle
  <2>2. \/ pc' = pc /\ at' = at + 1 /\ ret' = ret /\ volume' = [volume EXCEPT ![at] = Nothing]
        \/ pc' = "done" /\ at' = at /\ ret' = 1 /\ volume' = [volume EXCEPT ![at] = Unformatted]
    BY <1>4 DEF Format, Fails
  <2>3. at \in Partitions /\ at \in Nat /\ at + 1 \in 0 .. Width /\ at + 1 <= NumPartitions
    BY <2>1, Constants DEF TypeInv
  <2>4. volume' \in [Partitions -> FileSystem \union {Unformatted}]
    <3>1. Nothing \in FileSystem \union {Unformatted}
      BY EmptyTypes
    <3>2. volume \in [Partitions -> FileSystem \union {Unformatted}]
      BY DEF TypeInv
    <3> QED  BY <2>2, <3>1, <3>2
  <2>5. Home(rec)' = Home(rec) /\ rec = 1
    BY <2>1 DEF Home, LoopInv, Working, Partitioning
  <2>6. TypeInv'
    BY <2>1, <2>2, <2>3, <2>4 DEF TypeInv, Working
  <2>7. LoopInv'
    BY <2>1, <2>2, <2>3, <2>5 DEF LoopInv, Partitioning, Working, Reading
  <2>8. FoundInv'
    BY <2>1, <2>2 DEF FoundInv, Partitioning
  <2> QED  BY <2>6, <2>7, <2>8
<1>5. CASE AllFormatted
  <2>1. /\ pc = "format" /\ NextRecord
        /\ UNCHANGED <<layout, volume, raw, mounted, count, drive, ret, mode, cut, found>>
    BY <1>5 DEF AllFormatted, disk, idle
  <2>2. pc \in Working /\ rec = 1
    BY <2>1 DEF LoopInv, Working, Partitioning
  <2>3. R.tag = "device"
    BY <2>2, AtRecord
  <2>4. rec' \in 0 .. Len(Package) /\ pc' = "tag" /\ at' = 0 /\ LoopInv' /\ FoundInv'
    BY <2>1, <2>2, <2>3, Advance
  <2>5. TypeInv'
    BY <2>1, <2>4, Constants DEF TypeInv, Working, Reading
  <2> QED  BY <2>4, <2>5
<1> QED  BY <1>1, <1>2, <1>3, <1>4, <1>5

\* The records between the device record and the end record.
LEMMA RecordStep ==
  ASSUME Inv, ReadUnformatted \/ ReadPartition \/ MakeDirectory \/ OpenRawData \/ OpenFile
  PROVE  Inv'
<1> USE DEF Inv
<1>0. pc = "header" /\ pc \in Working
  BY DEF ReadUnformatted, ReadPartition, MakeDirectory, OpenRawData, OpenFile, Header, Working, Reading
<1>1. CASE ReadUnformatted
  <2>1. /\ R.tag = "unformatted" /\ NextRecord
        /\ UNCHANGED <<layout, volume, raw, mounted, count, drive, ret, mode, cut, found>>
    BY <1>1 DEF ReadUnformatted, Header, disk, idle
  <2>2. rec' \in 0 .. Len(Package) /\ pc' = "tag" /\ at' = 0 /\ LoopInv' /\ FoundInv'
    BY <1>0, <2>1, Advance
  <2>3. TypeInv'
    BY <2>1, <2>2, Constants DEF TypeInv, Working, Reading
  <2> QED  BY <2>2, <2>3
<1>2. CASE ReadPartition
  <2>1. R.tag = "partition" /\ UNCHANGED <<layout, volume, raw, mounted, mode, cut, found>>
    BY <1>2 DEF ReadPartition, Header, disk, idle
  <2>2. CASE Drive(count) = {}
    <3>1. pc' = "done" /\ ret' = 1 /\ UNCHANGED <<rec, at, count, drive>>
      BY <1>2, <2>2 DEF ReadPartition, Fails
    <3> QED  BY <2>1, <3>1 DEF TypeInv, LoopInv, FoundInv, Partitioning, Working, Reading
  <2>3. CASE Drive(count) # {}
    <3>1. drive' \in Drive(count) /\ count' = count + 1 /\ NextRecord /\ ret' = ret
      BY <1>2, <2>3 DEF ReadPartition
    <3>2. drive' \in Partitions /\ count + 1 <= NumPartitions /\ count \in Nat
      BY <3>1, DriveOf, Constants DEF TypeInv
    <3>3. rec' \in 0 .. Len(Package) /\ pc' = "tag" /\ at' = 0 /\ LoopInv' /\ FoundInv'
      BY <1>0, <2>1, <3>1, <3>2, Advance
    <3>4. count' \in 0 .. NumPartitions
      BY <3>1, <3>2, Constants
    <3>5. TypeInv'
      BY <2>1, <3>1, <3>2, <3>3, <3>4, Constants DEF TypeInv, Working, Reading
    <3> QED  BY <3>3, <3>5
  <2> QED  BY <2>2, <2>3
<1>3. CASE MakeDirectory
  <2>1. /\ R.tag = "directory" /\ volume[drive] # Unformatted /\ NextRecord
        /\ volume' \in {volume, [volume EXCEPT ![drive][R.name] = Directory]}
        /\ UNCHANGED <<layout, raw, mounted, count, drive, ret, mode, cut, found>>
    BY <1>3 DEF MakeDirectory, Header, idle
  <2>2. drive \in Partitions /\ R.name \in Names
    BY <1>0, <2>1, AtRecord
  <2>3. volume' \in [Partitions -> FileSystem \union {Unformatted}]
    BY <2>1, <2>2, ChangeFile, EmptyTypes DEF TypeInv
  <2>4. rec' \in 0 .. Len(Package) /\ pc' = "tag" /\ at' = 0 /\ LoopInv' /\ FoundInv'
    BY <1>0, <2>1, Advance
  <2>5. TypeInv'
    BY <2>1, <2>3, <2>4, Constants DEF TypeInv, Working, Reading
  <2> QED  BY <2>4, <2>5
<1>4. CASE OpenRawData
  <2>1. /\ R.tag = "rawdata"
        /\ \/ pc' = "write" /\ at' = 1 /\ ret' = ret
           \/ pc' = "done" /\ ret' = 1 /\ at' = at
        /\ UNCHANGED <<layout, volume, raw, mounted, rec, count, drive, mode, cut, found>>
    BY <1>4 DEF OpenRawData, Header, Goto, Fails, disk, idle
  <2>2. Home(rec)' = Home(rec) /\ R' = R /\ 1 \in 1 .. Len(R.data) + 1
    BY <1>0, <2>1, AtRecord DEF Home, R
  <2>3. TypeInv'
    <3>1. at \in 0 .. Width /\ 1 \in 0 .. Width /\ ret \in {0, 1}
      BY Constants DEF TypeInv
    <3>2. at' \in 0 .. Width /\ ret' \in {0, 1} /\ pc' \in {"write", "done"}
      BY ONLY <2>1, <3>1
    <3> QED  BY <2>1, <3>2 DEF TypeInv, Working, Reading
  <2>4. LoopInv'
    BY <1>0, <2>1, <2>2 DEF LoopInv, Partitioning, Working, Reading
  <2>5. FoundInv'
    BY <2>1 DEF FoundInv, Partitioning
  <2> QED  BY <2>3, <2>4, <2>5
<1>5. CASE OpenFile
  <2>1. /\ R.tag = "file" /\ volume[drive] # Unformatted
        /\ \/ /\ pc' = "write" /\ at' = 1 /\ ret' = ret
              /\ volume' = [volume EXCEPT ![drive][R.name] = File(<<>>)]
           \/ pc' = "done" /\ ret' = 1 /\ at' = at /\ volume' = volume
        /\ UNCHANGED <<layout, raw, mounted, rec, count, drive, mode, cut, found>>
    BY <1>5 DEF OpenFile, Header, Goto, Fails, idle
  <2>2. drive \in Partitions /\ R.name \in Names /\ 1 \in 1 .. Len(R.data) + 1
    BY <1>0, <2>1, AtRecord
  <2>3. Home(rec)' = Home(rec) /\ R' = R
    BY <2>1 DEF Home, R
  <2>4. /\ volume' \in [Partitions -> FileSystem \union {Unformatted}]
        /\ volume'[drive] # Unformatted
    BY <2>1, <2>2, ChangeFile, EmptyTypes DEF TypeInv
  <2>5. TypeInv'
    <3>1. at \in 0 .. Width /\ 1 \in 0 .. Width /\ ret \in {0, 1}
      BY Constants DEF TypeInv
    <3>2. at' \in 0 .. Width /\ ret' \in {0, 1} /\ pc' \in {"write", "done"}
      BY ONLY <2>1, <3>1
    <3> QED  BY <2>1, <2>4, <3>2 DEF TypeInv, Working, Reading
  <2>6. LoopInv'
    BY <1>0, <2>1, <2>2, <2>3, <2>4 DEF LoopInv, Partitioning, Working, Reading
  <2>7. FoundInv'
    BY <2>1 DEF FoundInv, Partitioning
  <2> QED  BY <2>5, <2>6, <2>7
<1> QED  BY <1>1, <1>2, <1>3, <1>4, <1>5

\* What a block written to the record's place changes.
LEMMA StoredType ==
  ASSUME Inv, pc = "write", NEW b \in Stuff, Stored(b)
  PROVE  /\ volume' \in [Partitions -> FileSystem \union {Unformatted}]
         /\ DOMAIN raw' = RawBlocks
         /\ R.tag = "rawdata" => volume' = volume /\ raw' = [raw EXCEPT ![R.pos + at - 1] = b]
         /\ R.tag = "file" =>
              /\ raw' = raw /\ drive \in Partitions /\ volume'[drive] # Unformatted
              /\ LET c == volume[drive][R.name] IN
                 /\ c \in Contents
                 /\ volume' = [volume EXCEPT ![drive][R.name] = Append(c, b)]
<1> USE DEF Inv
<1>1. pc \in Working /\ R.tag \in {"rawdata", "file"}
  BY DEF Working, Reading, LoopInv
<1>2. CASE R.tag = "rawdata"
  <2>1. raw' = [raw EXCEPT ![R.pos + at - 1] = b] /\ volume' = volume
    BY <1>2 DEF Stored
  <2> QED  BY <1>2, <2>1 DEF TypeInv
<1>3. CASE R.tag = "file"
  <2> DEFINE c == volume[drive][R.name]
  <2>1. volume' = [volume EXCEPT ![drive][R.name] = Append(c, b)] /\ raw' = raw
    BY <1>3 DEF Stored
  <2>2. drive \in Partitions /\ R.name \in Names /\ volume[drive] # Unformatted
    BY <1>1, <1>3, AtRecord DEF LoopInv
  <2>3. volume[drive] \in FileSystem
    BY <2>2 DEF TypeInv
  <2>4. c \in Contents
    BY <2>2, <2>3 DEF FileSystem
  <2>5. Append(c, b) \in Contents
    BY <2>4, AppendType
  <2>6. /\ volume' \in [Partitions -> FileSystem \union {Unformatted}]
        /\ volume'[drive] # Unformatted
    <3>1. volume \in [Partitions -> FileSystem \union {Unformatted}]
      BY DEF TypeInv
    <3>2. ASSUME NEW a \in Contents, volume' = [volume EXCEPT ![drive][R.name] = a]
          PROVE  /\ volume' \in [Partitions -> FileSystem \union {Unformatted}]
                 /\ volume'[drive] # Unformatted
      <4>1. volume' \in [Partitions -> FileSystem \union {Unformatted}]
        BY ONLY <2>2, <3>1, <3>2, ChangeFile
      <4>2. volume'[drive] # Unformatted
        BY ONLY <2>2, <3>1, <3>2, ChangeFile
      <4> QED  BY <4>1, <4>2
    <3> QED  BY <2>1, <2>5, <3>2
  <2> QED  BY <1>3, <2>1, <2>2, <2>4, <2>6 DEF TypeInv
<1> QED  BY <1>1, <1>2, <1>3

\* Writing a record and comparing it.
LEMMA WriteStep ==
  ASSUME Inv, Write \/ Rewind \/ Verify \/ Verified
  PROVE  Inv'
<1> USE DEF Inv
<1>0. /\ pc \in {"write", "verify"} /\ pc \in Working
      /\ rec \in Records /\ R.tag \in {"rawdata", "file"} /\ R = Package[rec]
      /\ at \in 1 .. Len(R.data) + 1 /\ Len(R.data) \in Nat /\ Len(R.data) + 1 < Width
  <2>1. pc \in {"write", "verify"} /\ pc \in Working
    BY DEF Write, Rewind, Verify, Verified, Working, Reading
  <2> QED  BY <2>1, AtRecord, Constants DEF LoopInv, R
<1>1. CASE Write
  <2>1. /\ pc = "write" /\ at <= Len(R.data)
        /\ UNCHANGED <<layout, mounted, rec, count, drive, mode, cut, found>>
    BY <1>1 DEF Write, idle
  <2>2. at \in 1 .. Len(R.data) /\ at + 1 \in 1 .. Len(R.data) + 1 /\ at + 1 \in 0 .. Width
    <3>1. Width \in Nat
      BY Constants
    <3> QED  BY ONLY <1>0, <2>1, <3>1
  <2>3. \/ /\ \E b \in Stuff : Stored(b)
           /\ at' = at + 1 /\ pc' = pc /\ ret' = ret
        \/ pc' = "done" /\ ret' = 1 /\ UNCHANGED <<raw, volume, at>>
    <3>1. R.data[at] \in Stuff /\ Bad \in Stuff
      BY <1>0, <2>2, StuffTypes
    <3> QED  BY <1>1, <3>1 DEF Write, Fails
  <2>4. Home(rec)' = Home(rec) /\ R' = R
    BY <2>1 DEF Home, R
  <2>5. CASE pc' = "done" /\ ret' = 1 /\ UNCHANGED <<raw, volume, at>>
    BY <2>1, <2>5 DEF TypeInv, LoopInv, FoundInv, Partitioning, Working, Reading
  <2>6. ASSUME NEW b \in Stuff, Stored(b), at' = at + 1, pc' = pc, ret' = ret PROVE Inv'
    <3>1. /\ volume' \in [Partitions -> FileSystem \union {Unformatted}]
          /\ DOMAIN raw' = RawBlocks
          /\ R.tag = "file" => volume'[drive] # Unformatted
      BY <2>1, <2>6, StoredType
    <3>2. TypeInv'
      BY <2>1, <2>2, <2>6, <3>1 DEF TypeInv
    <3>3. LoopInv'
      BY <2>1, <2>2, <2>4, <2>6, <3>1, <1>0 DEF LoopInv, Partitioning
    <3>4. FoundInv'
      BY <2>1, <2>6 DEF FoundInv, Partitioning
    <3> QED  BY <3>2, <3>3, <3>4
  <2> QED  BY <2>3, <2>5, <2>6
<1>2. CASE Rewind
  <2>1. /\ pc = "write" /\ pc' = "verify" /\ at' = 1
        /\ UNCHANGED <<layout, volume, raw, mounted, rec, count, drive, ret, mode, cut, found>>
    BY <1>2 DEF Rewind, Goto, disk, idle
  <2>2. Home(rec)' = Home(rec) /\ R' = R /\ 1 \in 1 .. Len(R.data) + 1 /\ 1 \in 0 .. Width
    BY <1>0, <2>1, Constants DEF Home, R
  <2>3. TypeInv'
    BY <2>1, <2>2 DEF TypeInv, Working, Reading
  <2>4. LoopInv'
    BY <2>1, <2>2, <1>0 DEF LoopInv, Partitioning, Working, Reading
  <2>5. FoundInv'
    BY <2>1 DEF FoundInv, Partitioning
  <2> QED  BY <2>3, <2>4, <2>5
<1>3. CASE Verify
  <2>1. /\ pc = "verify" /\ at <= Len(R.data)
        /\ \/ at' = at + 1 /\ pc' = pc /\ ret' = ret
           \/ pc' = "done" /\ ret' = 1 /\ at' = at
        /\ UNCHANGED <<layout, volume, raw, mounted, rec, count, drive, mode, cut, found>>
    BY <1>3 DEF Verify, Fails, disk, idle
  <2>2. at + 1 \in 1 .. Len(R.data) + 1 /\ at + 1 \in 0 .. Width
    <3>1. Width \in Nat
      BY Constants
    <3>2. at <= Len(R.data)
      BY <2>1
    <3> QED  BY ONLY <1>0, <3>1, <3>2
  <2>3. Home(rec)' = Home(rec) /\ R' = R
    BY <2>1 DEF Home, R
  <2>4. TypeInv'
    BY <2>1, <2>2 DEF TypeInv, Working, Reading
  <2>5. LoopInv'
    BY <2>1, <2>2, <2>3, <1>0 DEF LoopInv, Partitioning, Working, Reading
  <2>6. FoundInv'
    BY <2>1 DEF FoundInv, Partitioning
  <2> QED  BY <2>4, <2>5, <2>6
<1>4. CASE Verified
  <2>1. /\ NextRecord
        /\ UNCHANGED <<layout, volume, raw, mounted, count, drive, ret, mode, cut, found>>
    BY <1>4 DEF Verified, disk, idle
  <2>2. R.tag # "end" /\ R.tag # "partition"
    BY <1>0
  <2>3. rec' \in 0 .. Len(Package) /\ pc' = "tag" /\ at' = 0 /\ LoopInv' /\ FoundInv'
    BY <1>0, <2>1, <2>2, Advance
  <2>4. TypeInv'
    BY <2>1, <2>3, Constants DEF TypeInv, Working, Reading
  <2> QED  BY <2>3, <2>4
<1> QED  BY <1>1, <1>2, <1>3, <1>4

\* What a power loss leaves of a step: the table as it was or none, one
\* partition without its file system, or a beginning of one file.
LEMMA TornCases ==
  ASSUME Inv, Torn
  PROVE  /\ volume' \in [Partitions -> FileSystem \union {Unformatted}]
         /\ \/ layout' \in {layout, "none"} /\ volume' = volume /\ pc = "create"
            \/ /\ layout' = layout /\ pc = "format" /\ at \in Partitions
               /\ volume' = [volume EXCEPT ![at] = Unformatted]
            \/ /\ layout' = layout /\ pc = "write" /\ R.tag = "file"
               /\ drive \in Partitions /\ volume[drive] # Unformatted
               /\ \E c \in Contents : volume' = [volume EXCEPT ![drive][R.name] = c]
            \/ layout' = layout /\ volume' = volume
<1> USE DEF Inv
<1>0. volume \in [Partitions -> FileSystem \union {Unformatted}]
  BY DEF TypeInv
<1>1. CASE pc = "create"
  <2>1. layout' \in {layout, "none"} /\ volume' = volume
    BY <1>1 DEF Torn
  <2> QED  BY <1>0, <1>1, <2>1
<1>2. CASE pc = "format" /\ at < NumPartitions
  <2>1. layout' = layout /\ volume' \in {volume, [volume EXCEPT ![at] = Unformatted]}
    BY <1>2 DEF Torn
  <2>2. at \in Partitions
    BY <1>2, Constants DEF TypeInv
  <2> QED  BY <1>0, <1>2, <2>1, <2>2
<1>3. CASE pc = "write" /\ R.tag = "file"
  <2>1. PICK n \in 1 .. Len(volume[drive][R.name]) :
          layout' = layout /\
          volume' = [volume EXCEPT ![drive][R.name] = SubSeq(volume[drive][R.name], 1, n)]
    BY <1>3 DEF Torn
  <2>2. drive \in Partitions /\ R.name \in Names /\ volume[drive] # Unformatted
    BY <1>3, AtRecord DEF LoopInv, Working, Reading
  <2>3. volume[drive][R.name] \in Contents
    BY <1>0, <2>2 DEF FileSystem
  <2>4. SubSeq(volume[drive][R.name], 1, n) \in Contents
    BY <2>3, PrefixType
  <2>5. volume' \in [Partitions -> FileSystem \union {Unformatted}]
    BY <1>0, <2>1, <2>2, <2>4, ChangeFile
  <2> QED  BY <1>3, <2>1, <2>2, <2>4, <2>5
<1>4. CASE ~(pc = "create") /\ ~(pc = "format" /\ at < NumPartitions) /\ ~(pc = "write" /\ R.tag = "file")
  <2>1. layout' = layout /\ volume' = volume
    BY <1>4 DEF Torn
  <2> QED  BY <1>0, <2>1
<1> QED  BY <1>1, <1>2, <1>3, <1>4

\* The power goes, and the device starts.
LEMMA PowerStep ==
  ASSUME Inv, Crash \/ Boot
  PROVE  Inv'
<1> USE DEF Inv
<1>1. CASE Crash
  <2>1. /\ pc' = "dark" /\ mounted' = {} /\ rec' = 0 /\ at' = 0 /\ count' = 0
        /\ drive' = NoDrive /\ ret' = 0 /\ UNCHANGED <<raw, mode, cut, found>>
    BY <1>1 DEF Crash
  <2>2. volume' \in [Partitions -> FileSystem \union {Unformatted}]
    BY <1>1, TornCases DEF Crash
  <2>3. layout' \in {layout, "none"}
    BY <1>1, TornCases DEF Crash
  <2>4. TypeInv'
    BY <2>1, <2>2, <2>3, Constants DEF TypeInv, Layouts
  <2>5. LoopInv' /\ FoundInv'
    BY <2>1 DEF LoopInv, FoundInv, Working, Reading, Partitioning
  <2> QED  BY <2>4, <2>5
<1>2. CASE Boot
  <2>1. /\ pc' = "off" /\ volume' = Formatted(Existing(layout), volume)
        /\ mounted' \subseteq Partitions
        /\ UNCHANGED <<layout, raw, mode, cut, rec, at, count, drive, ret, found>>
    BY <1>2, ExistingType DEF Boot, Mount, Mountable
  <2>2. volume' \in [Partitions -> FileSystem \union {Unformatted}]
    BY <2>1, FormattedType DEF TypeInv
  <2>3. TypeInv'
    BY <2>1, <2>2 DEF TypeInv
  <2>4. LoopInv' /\ FoundInv'
    BY <2>1 DEF LoopInv, FoundInv, Working, Reading, Partitioning
  <2> QED  BY <2>3, <2>4
<1> QED  BY <1>1, <1>2

LEMMA NextInv == Inv /\ [Next]_vars => Inv'
<1> SUFFICES ASSUME Inv, [Next]_vars PROVE Inv'
  OBVIOUS
<1>1. CASE UNCHANGED vars
  <2>1. UNCHANGED <<layout, volume, raw, mounted, mode, cut, pc, rec, at, count, drive, ret, found>>
    BY <1>1 DEF vars, disk, prog
  <2>2. Home(rec)' = Home(rec) /\ R' = R
    BY <2>1 DEF Home, R
  <2> QED  BY <2>1, <2>2 DEF Inv, TypeInv, LoopInv, FoundInv, Partitioning
<1>2. CASE Step
  BY <1>2, LoopStep, DeviceStep, RecordStep, WriteStep, PowerStep DEF Step
<1>3. CASE Crash
  BY <1>3, PowerStep
<1> QED  BY <1>1, <1>2, <1>3 DEF Next

\* The types, for every package of the right shape, whatever fails and
\* whenever the power goes: the position in the package stays in it, a drive
\* is a partition, and each partition has a file system or none.
THEOREM TypeCorrect == Spec => []TypeOK
<1>1. Init => Inv
  BY InitInv
<1>2. Inv /\ [Next]_vars => Inv'
  BY NextInv
<1>3. Inv => TypeOK
  <2> SUFFICES ASSUME Inv PROVE TypeOK
    OBVIOUS
  <2>1. \A p \in Partitions : DOMAIN volume[p] = Names
    BY DEF Inv, TypeInv, FileSystem, Unformatted
  <2>2. pc = "format" => at <= NumPartitions
    BY DEF Inv, LoopInv, Working
  <2> QED  BY <2>1, <2>2 DEF Inv, TypeInv, TypeOK
<1> QED  BY <1>1, <1>2, <1>3, PTL DEF Spec

\* A step of an upgrade that is not to partition leaves the user's files alone.
LEMMA UserStep ==
  ASSUME Inv, [Next]_vars, NotToPartition, NotToPartition',
         NEW p \in Partitions, volume[p] # Unformatted
  PROVE  volume'[p] # Unformatted /\ volume'[p]["user"] = volume[p]["user"]
<1> USE DEF Inv
<1>1. ~Partitioning
  BY DEF FoundInv, NotToPartition
<1>2. /\ volume \in [Partitions -> FileSystem \union {Unformatted}]
      /\ "user" \in Names
  BY Constants DEF TypeInv
<1>3. CASE volume' = volume
  BY <1>3
<1>4. CASE volume' = Formatted(Existing(layout), volume)
  BY <1>2, <1>4, FormattedType
<1>5. ASSUME NEW c \in Contents, drive \in Partitions, volume[drive] # Unformatted,
             R.name \in Names, R.name # "user", volume' = [volume EXCEPT ![drive][R.name] = c]
      PROVE  volume'[p] # Unformatted /\ volume'[p]["user"] = volume[p]["user"]
  <2>1. /\ volume'[drive] # Unformatted
        /\ \A m \in Names : m # R.name => volume'[drive][m] = volume[drive][m]
        /\ \A q \in Partitions : q # drive => volume'[q] = volume[q]
    BY <1>2, <1>5, ChangeFile
  <2> QED  BY <1>2, <1>5, <2>1
<1>6. CASE MakeDirectory
  <2>1. /\ R.tag = "directory" /\ pc \in Working /\ volume[drive] # Unformatted
        /\ volume' \in {volume, [volume EXCEPT ![drive][R.name] = Directory]}
    BY <1>6 DEF MakeDirectory, Header, Working, Reading
  <2>2. drive \in Partitions /\ R.name \in Names /\ R.name # "user"
    BY <2>1, AtRecord
  <2> QED  BY <1>3, <1>5, <2>1, <2>2, EmptyTypes
<1>7. CASE OpenFile
  <2>1. /\ R.tag = "file" /\ pc \in Working /\ volume[drive] # Unformatted
        /\ volume' \in {volume, [volume EXCEPT ![drive][R.name] = File(<<>>)]}
    BY <1>7 DEF OpenFile, Header, Working, Reading
  <2>2. drive \in Partitions /\ R.name \in Names /\ R.name # "user"
    BY <2>1, AtRecord
  <2> QED  BY <1>3, <1>5, <2>1, <2>2, EmptyTypes
<1>8. CASE Write
  <2>1. pc = "write" /\ at <= Len(R.data) /\ pc \in Working
    BY <1>8 DEF Write, Working, Reading
  <2>2. \/ \E b \in Stuff : Stored(b)
        \/ volume' = volume
    <3>1. at \in 1 .. Len(R.data) /\ rec \in Records /\ R = Package[rec]
      BY <2>1, AtRecord DEF LoopInv, R
    <3>2. R.data[at] \in Stuff /\ Bad \in Stuff
      BY <3>1, StuffTypes
    <3> QED  BY <1>8, <3>2 DEF Write
  <2>3. ASSUME NEW b \in Stuff, Stored(b)
        PROVE  volume'[p] # Unformatted /\ volume'[p]["user"] = volume[p]["user"]
    <3>1. CASE R.tag = "rawdata"
      BY <1>3, <2>1, <2>3, <3>1, StoredType
    <3>2. CASE R.tag = "file"
      <4>1. PICK c \in Contents : volume' = [volume EXCEPT ![drive][R.name] = Append(c, b)]
        BY <2>1, <2>3, <3>2, StoredType
      <4>2. Append(c, b) \in Contents
        BY AppendType
      <4>3. /\ drive \in Partitions /\ volume[drive] # Unformatted
            /\ R.name \in Names /\ R.name # "user"
        BY <2>1, <3>2, AtRecord DEF LoopInv
      <4> QED  BY <1>5, <4>1, <4>2, <4>3
    <3> QED  BY <2>1, <3>1, <3>2 DEF LoopInv
  <2> QED  BY <1>3, <2>2, <2>3
<1>9. CASE Crash
  <2>1. Torn
    BY <1>9 DEF Crash
  <2>2. pc # "create" /\ pc # "format"
    BY <1>1 DEF Partitioning
  <2>3. \/ volume' = volume
        \/ /\ pc = "write" /\ R.tag = "file" /\ drive \in Partitions
           /\ volume[drive] # Unformatted
           /\ \E c \in Contents : volume' = [volume EXCEPT ![drive][R.name] = c]
    BY <2>1, <2>2, TornCases
  <2>4. CASE pc = "write" /\ R.tag = "file"
    <3>1. R.name \in Names /\ R.name # "user"
      BY <2>4, AtRecord DEF Working, Reading
    <3> QED  BY <1>3, <1>5, <2>3, <3>1
  <2> QED  BY <1>3, <2>3, <2>4
<1>10. CASE Boot
  <2> QED  BY <1>4, <1>10 DEF Boot, Mount
<1>11. ASSUME \/ Start \/ ReadTag \/ HeaderMissing \/ ReadDevice \/ AllFormatted \/ ReadUnformatted
              \/ ReadPartition \/ NoPath \/ ReadEnd \/ OpenRawData
              \/ Rewind \/ Verify \/ Verified \/ UNCHANGED vars
       PROVE  volume' = volume
  BY <1>11 DEF Start, ReadTag, HeaderMissing, ReadDevice, AllFormatted, ReadUnformatted,
               ReadPartition, NoPath, ReadEnd, OpenRawData, Rewind, Verify, Verified, disk, vars
<1>12. ~CreatePartition /\ ~ForceMount /\ ~Format
  BY <1>1 DEF Partitioning, CreatePartition, ForceMount, Format
<1> QED  BY <1>3, <1>6, <1>7, <1>8, <1>9, <1>10, <1>11, <1>12 DEF Next, Step

\* A device that is told not to partition, or has a table like the package's when
\* the upgrade reads it and is not told to partition, keeps the user's files,
\* over failures, power losses and further upgrades.
THEOREM KeepsUserData == Spec => UserDataKept
<1>1. Init => Inv
  BY InitInv
<1>2. Inv /\ [Next]_vars => Inv'
  BY NextInv
<1>3. Inv /\ [Next]_vars =>
        [NotToPartition /\ NotToPartition' =>
           \A p \in Partitions :
             volume[p] # Unformatted =>
               volume'[p] # Unformatted /\ volume'[p]["user"] = volume[p]["user"]]_vars
  BY UserStep
<1> QED  BY <1>1, <1>2, <1>3, PTL DEF Spec, UserDataKept

-----------------------------------------------------------------------------
(* Which partitions there are, and which one a record is put on            *)

LEMMA InitDrive == Init => ModeInv /\ DriveInv
<1> SUFFICES ASSUME Init PROVE ModeInv /\ DriveInv
  OBVIOUS
<1>1. /\ MayStay => \A p \in Existing(layout) : volume[p] # Unformatted
      /\ mounted = Mountable(layout, volume) /\ pc = "off"
  BY DEF Init, MayStay
<1>2. MayStay => AllMounted
  BY <1>1 DEF Mountable, AllMounted
<1>3. pc \notin Working /\ ~Partitioning
  BY <1>1 DEF Working, Reading, Partitioning
<1>4. ModeInv
  BY <1>1, <1>2, <1>3 DEF ModeInv
<1>5. DriveInv
  BY <1>1, <1>3 DEF DriveInv
<1> QED  BY <1>4, <1>5

\* A drive that a record has is one of the partitions there are.
HasDrive(n, d) == d = Home(n) /\ (d # NoDrive => d \in Existing(layout))

\* While the disk is left alone, and the drive is that of the record.
LEMMA DiskUntouched ==
  ASSUME Inv, ModeInv, DriveInv, layout' = layout, mounted' = mounted, mode' = mode,
         ~Partitioning, pc # "dark", pc' \in Reading \union {"done"},
         \A p \in Partitions : volume[p] # Unformatted => volume'[p] # Unformatted,
         pc' \in Reading =>
           /\ HasDrive(rec', drive')
           /\ rec' > 1 => AllMounted /\ (MayStay \/ NumPartitions = 0)
  PROVE  ModeInv' /\ DriveInv'
<1>1. MayStay' = MayStay /\ Existing(layout)' = Existing(layout)
  BY DEF MayStay, Existing
<1>2. AllMounted => AllMounted'
  <2> SUFFICES ASSUME AllMounted, NEW p \in Existing(layout) PROVE volume'[p] # Unformatted
    BY <1>1 DEF AllMounted
  <2> QED  BY ExistingType DEF AllMounted
<1>3. /\ pc' \notin {"mount", "format", "create"} /\ ~Partitioning' /\ pc' # "dark"
      /\ pc' \in Working => pc' \in Reading
  BY DEF Reading, Working, Partitioning
<1>4. ModeInv'
  <2> SUFFICES ASSUME mode.flag # "partition", MayStay PROVE AllMounted'
    BY <1>1, <1>3 DEF ModeInv, AllMounted
  <2> QED  BY <1>2 DEF ModeInv
<1>5. Home(rec)' = Home(rec') /\ NoDrive' = NoDrive
  BY DEF Home, NoDrive
<1>6. DriveInv'
  BY <1>1, <1>2, <1>3, <1>5 DEF DriveInv, HasDrive
<1> QED  BY <1>4, <1>6

\* The steps of the loop and of the device record.
LEMMA DeviceDrive ==
  ASSUME Repairable, Inv, ModeInv, DriveInv, Inv',
         \/ Start \/ ReadTag \/ HeaderMissing \/ NoPath \/ ReadEnd
         \/ ReadDevice \/ CreatePartition \/ ForceMount \/ Format \/ AllFormatted
  PROVE  ModeInv' /\ DriveInv'
<1>0. mode \in Modes /\ mode.flag \in {"partition", "keep", "none"} /\ mode' = mode
  <2>1. mode \in Modes
    BY DEF Inv, TypeInv
  <2>2. mode.flag \in {"partition", "keep", "none"}
    BY <2>1, UpgradeAssumption
  <2>3. mode' = mode
    BY DEF Start, ReadTag, HeaderMissing, NoPath, ReadEnd, ReadDevice, CreatePartition,
           ForceMount, Format, AllFormatted, disk, idle
  <2> QED  BY <2>1, <2>2, <2>3
<1>1. CASE Start
  <2>1. /\ rec' = 1 /\ drive' = NoDrive /\ pc' = "tag" /\ pc \in {"off", "done"}
        /\ UNCHANGED <<layout, volume, mounted>>
    BY <1>1 DEF Start, Goto, disk
  <2>2. HasDrive(rec', drive')
    BY <2>1, HomeFirst DEF HasDrive, NoDrive
  <2> QED  BY <1>0, <2>1, <2>2, DiskUntouched DEF Partitioning, Reading
<1>2. CASE ReadTag
  <2>1. /\ pc = "tag" /\ pc' \in {"header", "done"}
        /\ UNCHANGED <<layout, volume, mounted, rec, drive>>
    BY <1>2 DEF ReadTag, Goto, disk
  <2>2. HasDrive(rec', drive')
    BY <2>1 DEF DriveInv, HasDrive, Working, Reading
  <2>3. rec > 1 => AllMounted /\ (MayStay \/ NumPartitions = 0)
    BY <2>1 DEF DriveInv, Working, Reading
  <2> QED  BY <1>0, <2>1, <2>2, <2>3, DiskUntouched DEF Partitioning, Reading
<1>3. CASE HeaderMissing \/ NoPath \/ ReadEnd
  <2>1. /\ pc = "header" /\ pc' = "done" /\ UNCHANGED <<layout, volume, mounted>>
    BY <1>3 DEF HeaderMissing, NoPath, ReadEnd, Header, Fails, Goto, disk
  <2> QED  BY <1>0, <2>1, DiskUntouched DEF Partitioning, Reading
<1>4. CASE ReadDevice
  <2>1. /\ pc = "header" /\ R.tag = "device" /\ UNCHANGED <<layout, volume, drive>>
    BY <1>4 DEF ReadDevice, Header
  <2>2. /\ rec = 1 /\ rec \in Int /\ rec \in Records /\ R = Package[rec]
        /\ drive = NoDrive /\ Home(1) = NoDrive
    BY <2>1, AtRecord, HomeFirst DEF Inv, DriveInv, Working, Reading, R, NoDrive
  <2>3. CASE Unmount
    <3>1. pc' = "create" /\ rec' = 1
      BY <2>2, <2>3 DEF Unmount, Goto
    <3>2. Home(rec)' = Home(1) /\ NoDrive' = NoDrive
      BY <3>1 DEF Home, NoDrive
    <3>3. ModeInv'
      BY <3>1 DEF ModeInv, Partitioning
    <3>4. DriveInv'
      BY <2>1, <2>2, <3>1, <3>2 DEF DriveInv
    <3> QED  BY <3>3, <3>4
  <2>4. CASE ~Repartition /\ NextRecord /\ mounted' = mounted
    <3>1. rec' = rec + 1 /\ pc' = "tag"
      BY <2>4 DEF NextRecord
    <3>2. (MayStay /\ mode.flag # "partition") \/ NumPartitions = 0
      <4>1. ~(NumPartitions > 0) => NumPartitions = 0
        BY Constants
      <4> QED  BY <1>0, <2>4, <4>1 DEF Repartition, MayStay
    <3>3. AllMounted
      <4>1. CASE MayStay /\ mode.flag # "partition"
        BY <2>1, <4>1 DEF ModeInv, Partitioning
      <4>2. CASE NumPartitions = 0
        <5>1. mounted \subseteq Partitions /\ Partitions = {} /\ Existing(layout) = {}
          BY <4>2, ExistingType DEF Inv, TypeInv
        <5> QED  BY <5>1 DEF AllMounted
      <4> QED  BY <3>2, <4>1, <4>2
    <3>4. HasDrive(rec', drive')
      <4>1. Home(1 + 1) = Home(1)
        BY <2>1, <2>2, HomeNext
      <4> QED  BY <2>1, <2>2, <3>1, <4>1 DEF HasDrive
    <3> QED  BY <1>0, <2>1, <2>4, <3>1, <3>2, <3>3, <3>4, DiskUntouched DEF Partitioning, Reading
  <2>5. Unmount \/ (~Repartition /\ NextRecord /\ mounted' = mounted)
    BY <1>4, Zenon DEF ReadDevice
  <2> QED  BY <2>3, <2>4, <2>5
<1>5. CASE CreatePartition
  <2>1. /\ pc = "create" /\ UNCHANGED <<rec, drive>>
        /\ \/ pc' = "mount" /\ layout' = "wanted"
           \/ pc' = "done" /\ layout' = layout /\ mode.flag = "partition"
    BY <1>5 DEF CreatePartition, Goto, Fails, Fault, Partitioning, Repairable
  <2>2. /\ mode.flag # "keep" /\ drive = NoDrive /\ rec = 1 /\ Home(1) = NoDrive
        /\ Partitioning
    BY <2>1, HomeFirst DEF FoundInv, DriveInv, Inv, LoopInv, Partitioning, Working, NoDrive
  <2>3. Home(rec)' = Home(1) /\ NoDrive' = NoDrive
    BY <2>1, <2>2 DEF Home, NoDrive
  <2>4. ModeInv'
    <3>1. CASE pc' = "mount"
      BY <3>1 DEF ModeInv, Partitioning
    <3>2. CASE mode.flag = "partition"
      BY <1>0, <3>2 DEF ModeInv
    <3> QED  BY <2>1, <3>1, <3>2
  <2>5. DriveInv'
    BY <2>1, <2>2, <2>3 DEF DriveInv, Working, Reading
  <2> QED  BY <2>4, <2>5
<1>6. CASE ForceMount
  <2>1. /\ pc = "mount" /\ UNCHANGED <<layout, rec, drive>> /\ at' = 0
        /\ \/ pc' = "format" /\ mounted' = Partitions
           \/ pc' = "done" /\ mode.flag = "partition"
    BY <1>6 DEF ForceMount, Goto, Fails, Fault, Partitioning, Repairable
  <2>2. /\ drive = NoDrive /\ rec = 1 /\ Home(1) = NoDrive /\ layout = "wanted"
    BY <2>1, HomeFirst DEF DriveInv, Inv, LoopInv, Partitioning, Working, NoDrive
  <2>3. Home(rec)' = Home(1) /\ NoDrive' = NoDrive
    BY <2>1, <2>2 DEF Home, NoDrive
  <2>4. ModeInv'
    <3>1. CASE pc' = "format"
      BY <3>1 DEF ModeInv, Partitioning
    <3>2. CASE mode.flag = "partition"
      BY <1>0, <3>2 DEF ModeInv
    <3> QED  BY <2>1, <3>1, <3>2
  <2>5. DriveInv'
    BY <2>1, <2>2, <2>3 DEF DriveInv, Working, Reading
  <2> QED  BY <2>4, <2>5
<1>7. CASE Format
  <2>1. /\ pc = "format" /\ UNCHANGED <<layout, mounted, rec, drive>> /\ at \in Partitions
        /\ \/ pc' = "format" /\ volume' = [volume EXCEPT ![at] = Nothing] /\ at' = at + 1
           \/ pc' = "done" /\ mode.flag = "partition"
    <3>1. at \in Partitions
      BY <1>7, Constants DEF Format, Inv, TypeInv
    <3> QED  BY <1>7, <3>1 DEF Format, Fails, Fault, Partitioning, Repairable
  <2>2. /\ drive = NoDrive /\ rec = 1 /\ Home(1) = NoDrive /\ layout = "wanted"
        /\ mounted = Partitions /\ \A p \in 0 .. at - 1 : volume[p] # Unformatted
    BY <2>1, HomeFirst DEF DriveInv, Inv, LoopInv, Partitioning, Working, NoDrive
  <2>3. Home(rec)' = Home(1) /\ NoDrive' = NoDrive
    BY <2>1, <2>2 DEF Home, NoDrive
  <2>4. ASSUME pc' = "format" PROVE \A p \in 0 .. at' - 1 : volume'[p] # Unformatted
    <3> TAKE p \in 0 .. at' - 1
    <3>1. volume' = [volume EXCEPT ![at] = Nothing] /\ at' = at + 1
      BY <2>1, <2>4
    <3>2. at \in Int /\ p \in Partitions
      BY <2>1, <3>1, Constants
    <3>3. volume \in [Partitions -> FileSystem \union {Unformatted}]
      BY DEF Inv, TypeInv
    <3>4. CASE p = at
      BY <3>1, <3>2, <3>3, <3>4, EmptyTypes, NotUnformatted
    <3>5. CASE p # at
      <4>1. p \in 0 .. at - 1
        BY <3>1, <3>2, <3>5
      <4> QED  BY <2>2, <3>1, <3>2, <3>3, <3>5, <4>1
    <3> QED  BY <3>4, <3>5
  <2>5. ModeInv'
    <3>1. CASE pc' = "format"
      BY <3>1 DEF ModeInv, Partitioning
    <3>2. CASE mode.flag = "partition"
      BY <1>0, <3>2 DEF ModeInv
    <3> QED  BY <2>1, <3>1, <3>2
  <2>6. DriveInv'
    BY <2>1, <2>2, <2>3, <2>4 DEF DriveInv, Working, Reading
  <2> QED  BY <2>5, <2>6
<1>8. CASE AllFormatted
  <2>1. /\ pc = "format" /\ at = NumPartitions /\ rec' = rec + 1 /\ pc' = "tag"
        /\ UNCHANGED <<layout, volume, mounted, drive>>
    BY <1>8 DEF AllFormatted, NextRecord, disk
  <2>2. /\ drive = NoDrive /\ rec = 1 /\ Home(1) = NoDrive /\ layout = "wanted"
        /\ mounted = Partitions /\ \A p \in Partitions : volume[p] # Unformatted
    BY <2>1, HomeFirst, Constants DEF DriveInv, Inv, LoopInv, Partitioning, Working, NoDrive
  <2>3. rec \in Records /\ R.tag = "device" /\ R = Package[rec]
    BY <2>1, AtRecord, <2>2 DEF Inv, Working, R
  <2>4. Home(rec)' = NoDrive /\ NoDrive' = NoDrive
    <3>1. Home(1 + 1) = Home(1)
      BY <2>2, <2>3, HomeNext
    <3> QED  BY <2>1, <2>2, <3>1 DEF Home, NoDrive
  <2>5. Existing(layout) = Partitions /\ MayStay /\ layout \in Alike
    BY <2>2, ExistingType DEF MayStay, Alike
  <2>6. MayStay' /\ AllMounted' /\ Existing(layout)' = Existing(layout)
    BY <2>1, <2>2, <2>5 DEF MayStay, AllMounted, Existing
  <2>7. ModeInv'
    BY <2>6 DEF ModeInv, AllMounted
  <2>8. DriveInv'
    BY <2>1, <2>2, <2>4, <2>6 DEF DriveInv
  <2> QED  BY <2>7, <2>8
<1> QED  BY <1>1, <1>2, <1>3, <1>4, <1>5, <1>6, <1>7, <1>8

\* The steps of the other records.
LEMMA RecordDrive ==
  ASSUME Inv, ModeInv, DriveInv, Inv',
         \/ ReadUnformatted \/ ReadPartition \/ MakeDirectory \/ OpenRawData \/ OpenFile
         \/ Write \/ Rewind \/ Verify \/ Verified
  PROVE  ModeInv' /\ DriveInv'
<1>1. /\ pc \in Reading /\ pc \in Working /\ ~Partitioning /\ pc # "dark"
      /\ layout' = layout /\ mounted' = mounted /\ mode' = mode
  BY DEF ReadUnformatted, ReadPartition, MakeDirectory, OpenRawData, OpenFile, Write, Rewind,
         Verify, Verified, Header, Working, Reading, Partitioning, disk, idle
<1>2. /\ rec \in Records /\ R = Package[rec] /\ rec \in Int
      /\ R.tag \in {"directory", "file"} =>
           R.name \in Names /\ drive \in Partitions
      /\ R.tag = "device" <=> rec = 1
  BY <1>1, AtRecord DEF Inv, R
<1>3. pc' \in Reading \union {"done"}
  BY DEF ReadUnformatted, ReadPartition, MakeDirectory, OpenRawData, OpenFile, Write, Rewind,
         Verify, Verified, NextRecord, Goto, Fails, Header, Reading
<1>4. R.tag # "device"
  <2>1. CASE pc = "header"
    BY <2>1 DEF ReadUnformatted, ReadPartition, MakeDirectory, OpenRawData, OpenFile, Write,
                Rewind, Verify, Verified, Header
  <2>2. CASE pc # "header"
    <3>1. pc \in {"write", "verify"}
      BY <2>2 DEF ReadUnformatted, ReadPartition, MakeDirectory, OpenRawData, OpenFile, Write,
                  Rewind, Verify, Verified, Header
    <3> QED  BY <1>1, <3>1 DEF Inv, LoopInv
  <2> QED  BY <2>1, <2>2
<1>5. /\ rec > 1 /\ AllMounted /\ (MayStay \/ NumPartitions = 0) /\ HasDrive(rec, drive)
  <2>1. rec > 1
    BY <1>2, <1>4, Constants
  <2> QED  BY <1>1, <2>1 DEF DriveInv, HasDrive
<1>6. \A p \in Partitions : volume[p] # Unformatted => volume'[p] # Unformatted
  <2>1. CASE volume' = volume
    BY <2>1
  <2>2. ASSUME NEW c \in Contents, drive \in Partitions, R.name \in Names,
               R.tag \in {"directory", "file"},
               volume' = [volume EXCEPT ![drive][R.name] = c]
        PROVE  \A p \in Partitions : volume[p] # Unformatted => volume'[p] # Unformatted
    <3>1. volume \in [Partitions -> FileSystem \union {Unformatted}]
      BY DEF Inv, TypeInv
    <3>2. volume[drive] # Unformatted
      BY <1>5, <2>2, Constants DEF AllMounted, HasDrive
    <3>3. volume'[drive] # Unformatted
      <4>1. drive \in Partitions /\ R.name \in Names /\ c \in Contents
        BY <2>2
      <4>2. volume' = [volume EXCEPT ![drive][R.name] = c]
        BY <2>2
      <4> QED  BY ONLY <3>1, <3>2, <4>1, <4>2, ChangeFile
    <3>4. \A p \in Partitions : p # drive => volume'[p] = volume[p]
      BY ONLY <2>2, <3>1, <3>2, ChangeFile
    <3> QED  BY <3>3, <3>4
  <2>3. CASE MakeDirectory
    <3>1. /\ R.tag = "directory"
          /\ volume' \in {volume, [volume EXCEPT ![drive][R.name] = Directory]}
      BY <2>3 DEF MakeDirectory, Header
    <3> QED  BY <1>2, <2>1, <2>2, <3>1, EmptyTypes
  <2>4. CASE OpenFile
    <3>1. /\ R.tag = "file"
          /\ volume' \in {volume, [volume EXCEPT ![drive][R.name] = File(<<>>)]}
      BY <2>4 DEF OpenFile, Header
    <3> QED  BY <1>2, <2>1, <2>2, <3>1, EmptyTypes
  <2>5. CASE Write
    <3>1. pc = "write" /\ at <= Len(R.data)
      BY <2>5 DEF Write
    <3>2. \/ \E b \in Stuff : Stored(b)
          \/ volume' = volume
      <4>1. at \in 1 .. Len(R.data)
        BY <1>1, <3>1, AtRecord DEF Inv, LoopInv
      <4>2. R.data[at] \in Stuff /\ Bad \in Stuff
        BY <1>2, <4>1, StuffTypes
      <4> QED  BY <2>5, <4>2 DEF Write
    <3>3. ASSUME NEW b \in Stuff, Stored(b)
          PROVE  \A p \in Partitions : volume[p] # Unformatted => volume'[p] # Unformatted
      <4>1. CASE R.tag = "rawdata"
        BY <2>1, <3>1, <3>3, <4>1, StoredType
      <4>2. CASE R.tag = "file"
        <5>1. PICK c \in Contents : volume' = [volume EXCEPT ![drive][R.name] = Append(c, b)]
          BY <3>1, <3>3, <4>2, StoredType
        <5>2. Append(c, b) \in Contents
          BY AppendType
        <5> QED  BY <1>2, <2>2, <4>2, <5>1, <5>2
      <4> QED  BY <1>1, <3>1, <4>1, <4>2 DEF Inv, LoopInv
    <3> QED  BY <2>1, <3>2, <3>3
  <2>6. CASE ReadUnformatted \/ ReadPartition \/ OpenRawData \/ Rewind \/ Verify \/ Verified
    <3>1. volume' = volume
      BY <2>6 DEF ReadUnformatted, ReadPartition, OpenRawData, Rewind, Verify, Verified, disk
    <3> QED  BY <2>1, <3>1
  <2> QED  BY <2>3, <2>4, <2>5, <2>6
<1>7. pc' \in Reading => HasDrive(rec', drive')
  <2>1. CASE ReadPartition
    <3>1. CASE Drive(count) = {}
      BY <2>1, <3>1 DEF ReadPartition, Fails, Reading
    <3>2. CASE Drive(count) # {}
      <4>1. R.tag = "partition" /\ drive' \in Drive(count) /\ rec' = rec + 1
        BY <2>1, <3>2 DEF ReadPartition, NextRecord, Header
      <4>2. count \in Nat /\ count = Home(rec) + 1
        BY <1>1, Constants DEF Inv, TypeInv, LoopInv
      <4>3. drive' = count /\ drive' \in Existing(layout)
        <5>1. mounted = Existing(layout) /\ mounted \subseteq Partitions
          BY <1>5 DEF AllMounted, Inv, TypeInv
        <5> QED  BY <4>1, <4>2, <5>1, DriveOf
      <4>4. Home(rec + 1) = Home(rec) + 1
        BY <1>2, <4>1, HomeNext
      <4> QED  BY <4>1, <4>2, <4>3, <4>4 DEF HasDrive
    <3> QED  BY <3>1, <3>2
  <2>2. CASE ReadUnformatted \/ MakeDirectory \/ Verified
    <3>1. rec' = rec + 1 /\ drive' = drive /\ R.tag # "partition"
      BY <1>1, <2>2 DEF ReadUnformatted, MakeDirectory, Verified, NextRecord, Header, Inv, LoopInv
    <3>2. Home(rec + 1) = Home(rec)
      BY <1>2, <3>1, HomeNext
    <3> QED  BY <1>5, <3>1, <3>2 DEF HasDrive
  <2>3. CASE OpenRawData \/ OpenFile \/ Write \/ Rewind \/ Verify
    <3>1. rec' = rec /\ drive' = drive
      BY <2>3 DEF OpenRawData, OpenFile, Write, Rewind, Verify
    <3> QED  BY <1>5, <3>1 DEF HasDrive
  <2> QED  BY <2>1, <2>2, <2>3
<1> QED  BY <1>1, <1>3, <1>5, <1>6, <1>7, DiskUntouched

\* A power loss while the disk is partitioned is repaired when NAND is mounted,
\* or by the next upgrade, which is forced to partition.
LEMMA PowerDrive ==
  ASSUME Repairable, Inv, ModeInv, DriveInv, Inv', Crash \/ Boot
  PROVE  ModeInv' /\ DriveInv'
<1>1. CASE Crash
  <2>1. /\ pc' = "dark" /\ mode' = mode /\ Torn
        /\ pc \notin {"off", "dark"} /\ (Partitioning => mode \in CrashModes)
    BY <1>1 DEF Crash
  <2>2. DriveInv'
    BY <2>1 DEF DriveInv, Working, Reading
  <2>3. Partitioning => mode.flag = "partition" \/ mode.nand
    BY <2>1 DEF Repairable
  <2>4. ASSUME mode.flag # "partition", MayStay', ~mode.nand, NEW p \in Existing(layout')
        PROVE  volume'[p] # Unformatted
    <3>1. ~Partitioning
      BY <2>3, <2>4
    <3>2. layout' = layout /\ pc # "create" /\ pc # "format"
      BY <2>1, <3>1, TornCases DEF Partitioning
    <3>3. \A q \in Existing(layout) : volume[q] # Unformatted
      <4>1. MayStay
        BY <2>1, <2>4, <3>2 DEF MayStay
      <4> QED  BY <2>4, <3>1, <4>1 DEF ModeInv
    <3>4. p \in Existing(layout) /\ p \in Partitions
      BY <2>4, <3>2, ExistingType
    <3>5. CASE volume' = volume
      BY <3>3, <3>4, <3>5
    <3>6. CASE pc = "write" /\ R.tag = "file" /\ drive \in Partitions /\ volume[drive] # Unformatted
               /\ \E c \in Contents : volume' = [volume EXCEPT ![drive][R.name] = c]
      <4>1. R.name \in Names
        BY <3>6, AtRecord DEF Inv, Working, Reading
      <4>2. volume \in [Partitions -> FileSystem \union {Unformatted}]
        BY DEF Inv, TypeInv
      <4>3. PICK c \in Contents : volume' = [volume EXCEPT ![drive][R.name] = c]
        BY <3>6
      <4>4. volume'[drive] # Unformatted
        BY ONLY <3>6, <4>1, <4>2, <4>3, ChangeFile
      <4>5. \A q \in Partitions : q # drive => volume'[q] = volume[q]
        BY ONLY <3>6, <4>1, <4>2, <4>3, ChangeFile
      <4> QED  BY <3>3, <3>4, <4>4, <4>5
    <3> QED  BY <2>1, <3>2, <3>5, <3>6, TornCases
  <2>5. ModeInv'
    <3>1. pc' = "dark" /\ mode' = mode
      BY <2>1
    <3> QED  BY <2>4, <3>1 DEF ModeInv, Existing
  <2> QED  BY <2>2, <2>5
<1>2. CASE Boot
  <2>1. /\ pc = "dark" /\ pc' = "off" /\ mode' = mode /\ layout' = layout
        /\ volume' = Formatted(Existing(layout), volume)
        /\ mounted' = {p \in Existing(layout) : volume'[p] # Unformatted}
    BY <1>2 DEF Boot, Mount, Mountable
  <2>2. DriveInv'
    BY <2>1 DEF DriveInv, Working, Reading
  <2>3. ASSUME mode.flag # "partition", MayStay, NEW p \in Existing(layout)
        PROVE  volume'[p] # Unformatted
    <3>1. volume \in [Partitions -> FileSystem \union {Unformatted}] /\ p \in Partitions
      BY ExistingType DEF Inv, TypeInv
    <3>2. CASE mode.nand
      BY <2>1, <2>3, <3>1, <3>2, FormattedType
    <3>3. CASE ~mode.nand
      <4>1. volume[p] # Unformatted
        BY <2>1, <2>3, <3>3 DEF ModeInv, Partitioning
      <4> QED  BY <2>1, <3>1, <4>1, FormattedType
    <3> QED  BY <3>2, <3>3
  <2>4. MayStay' = MayStay /\ Existing(layout)' = Existing(layout)
    BY <2>1 DEF MayStay, Existing
  <2>5. mode.flag # "partition" /\ MayStay => AllMounted'
    BY <2>1, <2>3, <2>4 DEF AllMounted
  <2>6. ModeInv'
    BY <2>1, <2>4, <2>5 DEF ModeInv, AllMounted
  <2> QED  BY <2>2, <2>6
<1> QED  BY <1>1, <1>2

LEMMA NextDrive ==
  ASSUME Repairable, Inv, ModeInv, DriveInv, Inv', [Next]_vars
  PROVE  ModeInv' /\ DriveInv'
<1>1. CASE UNCHANGED vars
  <2>1. UNCHANGED <<layout, volume, mounted, mode, pc, rec, at, drive>>
    BY <1>1 DEF vars, disk, prog
  <2>2. Home(rec)' = Home(rec) /\ Existing(layout)' = Existing(layout) /\ NoDrive' = NoDrive
    BY <2>1 DEF Home, Existing, NoDrive
  <2>3. AllMounted' = AllMounted /\ MayStay' = MayStay
    BY <2>1, <2>2 DEF AllMounted, MayStay
  <2> QED  BY <2>1, <2>2, <2>3 DEF ModeInv, DriveInv, Partitioning
<1>2. CASE Step
  BY <1>2, DeviceDrive, RecordDrive, PowerDrive DEF Step
<1>3. CASE Crash
  BY <1>3, PowerDrive
<1> QED  BY <1>1, <1>2, <1>3 DEF Next

\* A file is written to the partition whose record it follows: the n-th drive
\* that is mounted is the n-th partition, after every failure, power loss and
\* restart from which the next upgrade recovers.
THEOREM OnItsPartition == Repairable => (Spec => []RightPartition)
<1> SUFFICES ASSUME Repairable PROVE Spec => []RightPartition
  OBVIOUS
<1>1. Init => Inv /\ ModeInv /\ DriveInv
  BY InitInv, InitDrive
<1>2. (Inv /\ ModeInv /\ DriveInv) /\ [Next]_vars => (Inv /\ ModeInv /\ DriveInv)'
  BY NextInv, NextDrive
<1>3. Inv /\ ModeInv /\ DriveInv => RightPartition
  BY DEF DriveInv, RightPartition, Working, Reading
<1> QED  BY <1>1, <1>2, <1>3, PTL DEF Spec

-----------------------------------------------------------------------------
(* What an upgrade that reports success has installed                      *)

\* A file with the blocks of a record, in their order, is the record's file.
LEMMA SameFile ==
  ASSUME NEW n \in Records, NEW c \in Contents,
         Len(c) = Len(Package[n].data) + 1, c[1] = "file",
         \A i \in 1 .. Len(Package[n].data) : c[i + 1] = Package[n].data[i]
  PROVE  c = File(Package[n].data)
<1> DEFINE d == Package[n].data
<1>1. d \in Seq(Stuff) /\ Len(d) \in Nat
  <2>1. d \in Seq(Blocks)
    BY RecordType
  <2>2. Len(d) \in Nat /\ d = [i \in 1 .. Len(d) |-> d[i]]
    BY <2>1, LenProperties
  <2>3. \A i \in 1 .. Len(d) : d[i] \in Stuff
    BY StuffTypes
  <2>4. d \in [1 .. Len(d) -> Stuff]
    BY <2>2, <2>3
  <2> HIDE DEF d
  <2> QED  BY <2>2, <2>4
<1>2. /\ Len(c) = Len(d) + 1 /\ c[1] = "file" /\ \A i \in 1 .. Len(d) : c[i + 1] = d[i]
  OBVIOUS
<1> HIDE DEF d
<1>3. /\ File(d) \in Contents /\ Len(File(d)) = Len(d) + 1 /\ File(d)[1] = "file"
      /\ \A i \in 1 .. Len(d) : File(d)[i + 1] = d[i]
  BY <1>1, FileType
<1>4. c \in Seq(Stuff) /\ File(d) \in Seq(Stuff)
  BY <1>3 DEF Contents
<1>5. \A i \in 1 .. Len(c) : c[i] = File(d)[i]
  <2> TAKE i \in 1 .. Len(c)
  <2>1. CASE i = 1
    BY <1>2, <1>3, <2>1
  <2>2. CASE i # 1
    <3>1. i - 1 \in 1 .. Len(d) /\ (i - 1) + 1 = i
      BY <1>1, <1>2, <2>2
    <3> QED  BY <1>2, <1>3, <3>1
  <2> QED  BY <2>1, <2>2
<1>6. c = File(d)
  BY <1>2, <1>3, <1>4, <1>5, SeqEqual
<1> QED  BY <1>6 DEF d

\* What is in its place stays there while it is not written over.
LEMMA StaysOnPlace ==
  ASSUME NEW n \in Records, OnPlace(n), layout' = layout, mode' = mode,
         Package[n].tag = "rawdata" =>
           \A i \in 1 .. Len(Package[n].data) :
             raw'[Package[n].pos + i - 1] = raw[Package[n].pos + i - 1],
         Package[n].tag = "file" =>
           /\ volume'[Home(n)] # Unformatted
           /\ volume'[Home(n)][Package[n].name] = volume[Home(n)][Package[n].name]
           /\ Package[n].dir # Root /\ volume[Home(n)][Package[n].dir] = Directory =>
                volume'[Home(n)][Package[n].dir] = Directory
  PROVE  OnPlace(n)'
<1>1. Home(n)' = Home(n)
  BY DEF Home
<1>2. DOMAIN Package[n].data = 1 .. Len(Package[n].data)
  BY RecordType
<1>3. CASE Package[n].tag = "rawdata"
  BY <1>2, <1>3 DEF OnPlace
<1>4. CASE Package[n].tag = "file"
  <2>1. InDirectory(volume[Home(n)], Package[n]) => InDirectory(volume'[Home(n)], Package[n])
    BY <1>4 DEF InDirectory
  <2>2. /\ volume[Home(n)] # Unformatted /\ InDirectory(volume[Home(n)], Package[n])
        /\ volume[Home(n)][Package[n].name] = File(Package[n].data)
    BY <1>4 DEF OnPlace
  <2>3. InDirectory(volume[Home(n)], Package[n])' = InDirectory(volume'[Home(n)], Package[n])
    BY <1>1 DEF InDirectory, Directory
  <2> QED  BY <1>1, <1>4, <2>1, <2>2, <2>3 DEF OnPlace, Unformatted, File
<1>5. CASE Package[n].tag = "device"
  <2>1. OnPlace(n) <=> NumPartitions = 0 \/ mode.flag = "keep" \/ layout \in Alike
    BY <1>5 DEF OnPlace
  <2>2. OnPlace(n)' <=> NumPartitions = 0 \/ mode'.flag = "keep" \/ layout' \in Alike
    BY <1>5 DEF OnPlace, Alike
  <2> QED  BY <2>1, <2>2
<1>6. CASE Package[n].tag \notin {"rawdata", "file", "device"}
  BY <1>6 DEF OnPlace
<1> QED  BY <1>3, <1>4, <1>5, <1>6

LEMMA DiskAlone ==
  ASSUME NEW n \in Records, OnPlace(n), UNCHANGED <<layout, volume, raw, mode>>
  PROVE  OnPlace(n)'
<1>1. CASE Package[n].tag = "file"
  <2>1. volume[Home(n)] # Unformatted
    BY <1>1 DEF OnPlace
  <2> QED  BY <1>1, <2>1, StaysOnPlace
<1>2. CASE Package[n].tag # "file"
  BY <1>2, StaysOnPlace
<1> QED  BY <1>1, <1>2

\* A directory is not a file.
LEMMA Marks == <<"absent">> # Directory /\ \A c : c[1] = "file" => c # Directory
<1>1. <<"absent">>[1] = "absent" /\ Directory[1] = "directory"
  BY DEF Directory
<1> QED  BY <1>1

\* Another file, or a name under which there was nothing, is written: every
\* record that is in its place stays there.
LEMMA FileChanged ==
  ASSUME InstallInv, pc \in Reading, R.tag \in {"directory", "file"},
         volume[drive] # Unformatted, NEW c \in Contents,
         volume[drive][R.name] # Directory,
         R.tag = "directory" => volume[drive][R.name] = <<"absent">>,
         volume' = [volume EXCEPT ![drive][R.name] = c],
         UNCHANGED <<layout, raw, mode>>
  PROVE  /\ volume'[drive] \in FileSystem /\ volume'[drive][R.name] = c
         /\ R.tag = "file" /\ InDirectory(volume[drive], R) => InDirectory(volume'[drive], R)
         /\ \A n \in 1 .. rec - 1 : OnPlace(n)'
<1>1. /\ rec \in Records /\ R = Package[rec] /\ rec \in Int /\ rec <= Len(Package)
      /\ R.name \in Names /\ drive \in Partitions
  BY AtRecord DEF InstallInv, Inv, Working, R
<1>2. volume \in [Partitions -> FileSystem \union {Unformatted}]
  BY DEF InstallInv, Inv, TypeInv
<1>3. drive = Home(rec) /\ \A n \in 1 .. rec - 1 : OnPlace(n)
  BY DEF InstallInv, DriveInv, PlaceInv, Working
<1>4. /\ volume'[drive] # Unformatted /\ volume'[drive] \in FileSystem
      /\ volume'[drive][R.name] = c
  <2>1. volume[drive] \in FileSystem
    BY <1>1, <1>2
  <2> DEFINE f == [volume[drive] EXCEPT ![R.name] = c]
  <2>2. f \in FileSystem /\ f[R.name] = c
    BY <1>1, <2>1 DEF FileSystem
  <2>3. volume'[drive] = f
    BY <1>1, <1>2
  <2> HIDE DEF f
  <2> QED  BY <2>2, <2>3, NotUnformatted
<1>5. \A m \in Names : m # R.name => volume'[drive][m] = volume[drive][m]
  BY ONLY <1>1, <1>2, volume[drive] # Unformatted, c \in Contents,
          volume' = [volume EXCEPT ![drive][R.name] = c], ChangeFile
<1>6. \A p \in Partitions : p # drive => volume'[p] = volume[p]
  BY <1>1, <1>2
<1>7. ASSUME NEW n \in 1 .. rec - 1 PROVE OnPlace(n)'
  <2>1. n \in Records /\ n < rec /\ OnPlace(n)
    BY <1>1, <1>3, <1>7, Constants
  <2>2. CASE Package[n].tag = "file"
    <3>1. /\ volume[Home(n)] # Unformatted
          /\ volume[Home(n)][Package[n].name] = File(Package[n].data)
      BY <2>1, <2>2 DEF OnPlace
    <3>2. Package[n].name \in Names /\ Package[n].dir \in Names \union {Root}
      BY <2>1, <2>2, RecordType
    <3>3. CASE Home(n) = drive
      <4>1. Package[n].name # R.name
        <5>1. CASE R.tag = "file"
          BY <1>1, <1>3, <2>1, <2>2, <3>3, <5>1, FilesDiffer
        <5>2. CASE R.tag = "directory"
          <6>1. File(Package[n].data)[1] = "file"
            <7>1. Package[n].data \in Seq(Blocks) /\ Len(Package[n].data) \in Nat
              BY <2>1, RecordType
            <7>2. <<"file">> \in Seq({"file"} \union Blocks) /\ Len(<<"file">>) = 1
              OBVIOUS
            <7>3. Package[n].data \in Seq({"file"} \union Blocks)
              BY <7>1
            <7> QED  BY <7>1, <7>2, <7>3 DEF File
          <6>2. <<"absent">>[1] # "file"
            OBVIOUS
          <6> QED  BY <3>1, <3>3, <5>2, <6>1, <6>2
        <5> QED  BY <5>1, <5>2
      <4>2. Package[n].dir # Root /\ volume[drive][Package[n].dir] = Directory =>
              volume'[drive][Package[n].dir] = Directory
        BY <1>5, <3>2
      <4> QED  BY <1>4, <1>5, <2>1, <2>2, <3>2, <3>3, <4>1, <4>2, StaysOnPlace
    <3>4. CASE Home(n) # drive
      <4>1. Home(n) \in Partitions
        <5>1. Home(n) \in Int /\ Home(n) >= 0
          BY <2>1, <2>2, HomeOfFile
        <5>2. Home(n) <= Home(rec)
          <6>1. /\ n \in 1 .. Len(Package) + 1 /\ rec \in 1 .. Len(Package) + 1 /\ n <= rec
            BY <1>1, <2>1, Constants
          <6> QED  BY <6>1, HomeMono
        <5> QED  BY <1>1, <1>3, <5>1, <5>2, Constants
      <4> QED  BY <1>6, <2>1, <2>2, <3>1, <3>4, <4>1, StaysOnPlace
    <3> QED  BY <3>3, <3>4
  <2>3. CASE Package[n].tag # "file"
    BY <2>1, <2>3, StaysOnPlace
  <2> QED  BY <2>2, <2>3
<1>8. ASSUME R.tag = "file", InDirectory(volume[drive], R) PROVE InDirectory(volume'[drive], R)
  <2>1. R.dir \in Names \union {Root}
    BY <1>1, <1>8, RecordType
  <2> QED  BY <1>5, <1>8, <2>1 DEF InDirectory
<1> QED  BY <1>4, <1>7, <1>8

\* The loop goes on to the next record, which this one, and those before it,
\* are in place for.
LEMMA GoesOn ==
  ASSUME rec \in Records, pc' = "tag", rec' = rec + 1,
         \A n \in 1 .. rec : OnPlace(n)'
  PROVE  FileInv' /\ PlaceInv'
<1>1. rec \in Int /\ (rec + 1) - 1 = rec
  BY Constants
<1> QED  BY <1>1 DEF FileInv, PlaceInv

\* A step that leaves the loop, other than with success, has nothing to show.
LEMMA GivesUp ==
  ASSUME pc' \notin Reading, pc' = "done" => ret' # 0
  PROVE  FileInv' /\ PlaceInv'
BY DEF FileInv, PlaceInv, Reading

LEMMA InstallLoop ==
  ASSUME InstallInv,
         \/ Start \/ ReadTag \/ HeaderMissing \/ NoPath \/ ReadEnd
         \/ CreatePartition \/ ForceMount \/ Format \/ Crash \/ Boot
  PROVE  FileInv' /\ PlaceInv'
<1>1. CASE Start
  <2>1. pc' = "tag" /\ rec' = 1
    BY <1>1 DEF Start, Goto
  <2> QED  BY <2>1 DEF FileInv, PlaceInv
<1>2. CASE ReadTag
  <2>1. /\ pc = "tag" /\ UNCHANGED <<layout, volume, raw, rec, cut, mode>>
        /\ \/ pc' = "header"
           \/ pc' = "done" /\ ~Delivered(rec, 0)
    BY <1>2 DEF ReadTag, Goto, disk, idle
  <2>2. /\ rec \in Records /\ rec \in Int /\ rec >= 1 /\ rec <= Len(Package)
        /\ cut \in Nat
    BY <2>1, AtRecord DEF InstallInv, Inv, TypeInv, Working, Reading
  <2>3. \A n \in 1 .. rec - 1 : OnPlace(n)'
    <3> TAKE n \in 1 .. rec - 1
    <3>1. n \in Records /\ OnPlace(n)
      BY <2>1, <2>2, Constants DEF InstallInv, PlaceInv, Reading
    <3> QED  BY <2>1, <3>1, DiskAlone
  <2>4. CASE pc' = "header"
    BY <2>1, <2>3, <2>4 DEF FileInv, PlaceInv
  <2>5. CASE pc' = "done" /\ ~Delivered(rec, 0)
    <3>1. ASSUME NEW n \in Records, Delivered(n, 0)' PROVE OnPlace(n)'
      <4>1. n * 100 < cut /\ ~(rec * 100 < cut)
        BY <2>1, <2>2, <2>5, <3>1 DEF Delivered, Read, Width
      <4>2. n \in 1 .. rec - 1
        BY <2>2, <4>1, Constants
      <4> QED  BY <2>3, <4>2
    <3> QED  BY <2>5, <3>1 DEF FileInv, PlaceInv, Reading
  <2> QED  BY <2>1, <2>4, <2>5
<1>3. CASE HeaderMissing \/ NoPath
  <2>1. pc' = "done" /\ ret' = 1
    BY <1>3 DEF HeaderMissing, NoPath, Fails
  <2> QED  BY <2>1, GivesUp DEF Reading
<1>4. CASE ReadEnd
  <2>1. /\ pc = "header" /\ R.tag = "end" /\ pc' = "done"
        /\ UNCHANGED <<layout, volume, raw, mode>>
    BY <1>4 DEF ReadEnd, Header, Goto, disk, idle
  <2>2. rec \in Records /\ rec = Len(Package) /\ R = Package[rec]
    BY <2>1, AtRecord DEF InstallInv, Inv, Working, Reading, R
  <2>3. \A n \in Records : OnPlace(n)'
    <3> TAKE n \in Records
    <3>1. CASE n \in 1 .. rec - 1
      <4>1. OnPlace(n)
        BY <2>1, <3>1 DEF InstallInv, PlaceInv, Reading
      <4> QED  BY <2>1, <4>1, DiskAlone
    <3>2. CASE n = rec
      BY <2>1, <2>2, <3>2 DEF OnPlace
    <3> QED  BY <2>2, <3>1, <3>2, Constants
  <2> QED  BY <2>1, <2>3 DEF FileInv, PlaceInv, Reading
<1>5. CASE CreatePartition \/ ForceMount \/ Format
  <2>1. pc' \in {"mount", "format"} \/ (pc' = "done" /\ ret' = 1)
    BY <1>5 DEF CreatePartition, ForceMount, Format, Goto, Fails
  <2> QED  BY <2>1, GivesUp DEF Reading
<1>6. CASE Crash \/ Boot
  <2>1. pc' \in {"dark", "off"}
    BY <1>6 DEF Crash, Boot
  <2> QED  BY <2>1, GivesUp DEF Reading
<1> QED  BY <1>1, <1>2, <1>3, <1>4, <1>5, <1>6

\* The record is one that leaves the disk as it is, or a directory.
LEMMA InstallRecord ==
  ASSUME InstallInv,
         ReadDevice \/ AllFormatted \/ ReadUnformatted \/ ReadPartition \/ MakeDirectory
  PROVE  FileInv' /\ PlaceInv'
<1>0. /\ pc \in Working /\ (~AllFormatted => pc = "header" /\ pc \in Reading)
  BY DEF ReadDevice, AllFormatted, ReadUnformatted, ReadPartition, MakeDirectory, Header,
         Working, Reading
<1>1. rec \in Records /\ rec \in Int /\ rec >= 1 /\ rec <= Len(Package) /\ R = Package[rec]
  BY <1>0, AtRecord DEF InstallInv, Inv, R
<1>2. pc \in Reading => \A n \in 1 .. rec - 1 : n \in Records /\ OnPlace(n)
  BY <1>1, Constants DEF InstallInv, PlaceInv
<1>3. ASSUME rec = 1, R.tag = "device", pc' = "tag", rec' = rec + 1,
             NumPartitions = 0 \/ mode'.flag = "keep" \/ layout' \in Alike
      PROVE  FileInv' /\ PlaceInv'
  <2>1. OnPlace(1)'
    BY <1>1, <1>3 DEF OnPlace, Alike
  <2>2. \A n \in 1 .. rec : OnPlace(n)'
    BY <1>3, <2>1
  <2> QED  BY <1>1, <1>3, <2>2, GoesOn
<1>4. CASE ReadDevice
  <2>1. R.tag = "device" /\ layout' = layout /\ mode' = mode /\ rec = 1
    BY <1>0, <1>4, AtRecord DEF ReadDevice, Header, InstallInv, Inv
  <2>2. CASE Unmount
    <3>1. pc' = "create"
      BY <2>2 DEF Unmount, Goto
    <3> QED  BY <3>1, GivesUp DEF Reading
  <2>3. CASE ~Repartition /\ NextRecord
    <3>1. pc' = "tag" /\ rec' = rec + 1
      BY <2>3 DEF NextRecord
    <3>2. NumPartitions = 0 \/ mode.flag = "keep" \/ layout \in Alike
      <4>1. mode \in Modes
        BY DEF InstallInv, Inv, TypeInv
      <4>2. mode.flag \in {"partition", "keep", "none"}
        BY <4>1, UpgradeAssumption
      <4>3. ~(NumPartitions > 0) => NumPartitions = 0
        BY Constants
      <4> QED  BY <2>3, <4>2, <4>3 DEF Repartition
    <3> QED  BY <1>3, <2>1, <3>1, <3>2
  <2>4. CASE Repartition
    BY <1>4, <2>2, <2>4 DEF ReadDevice
  <2>5. CASE ~Repartition
    BY <1>4, <2>2, <2>3, <2>5 DEF ReadDevice
  <2> QED  BY <2>4, <2>5
<1>5. CASE AllFormatted
  <2>1. pc = "format" /\ pc' = "tag" /\ rec' = rec + 1 /\ layout' = layout
    BY <1>5 DEF AllFormatted, NextRecord, disk
  <2>2. rec = 1 /\ layout = "wanted"
    BY <1>0, <2>1 DEF InstallInv, Inv, LoopInv, DriveInv, Partitioning
  <2>3. R.tag = "device"
    BY <1>0, <2>2, AtRecord DEF InstallInv, Inv
  <2> QED  BY <1>3, <2>1, <2>2, <2>3 DEF Alike
<1>6. CASE ReadUnformatted \/ (ReadPartition /\ Drive(count) # {})
  <2>1. /\ pc = "header" /\ R.tag \in {"unformatted", "partition"}
        /\ UNCHANGED <<layout, volume, raw, mode>> /\ pc' = "tag" /\ rec' = rec + 1
    BY <1>6 DEF ReadUnformatted, ReadPartition, Header, NextRecord, disk, idle
  <2>2. \A n \in 1 .. rec : OnPlace(n)'
    <3> TAKE n \in 1 .. rec
    <3>1. CASE n = rec
      BY <1>1, <2>1, <3>1 DEF OnPlace
    <3>2. CASE n # rec
      <4>1. n \in Records /\ OnPlace(n)
        BY <1>1, <1>2, <2>1, <3>2 DEF Reading
      <4> QED  BY <2>1, <4>1, DiskAlone
    <3> QED  BY <3>1, <3>2
  <2> QED  BY <1>1, <2>1, <2>2, GoesOn
<1>7. CASE ReadPartition /\ Drive(count) = {}
  <2>1. pc' = "done" /\ ret' = 1
    BY <1>7 DEF ReadPartition, Fails
  <2> QED  BY <2>1, GivesUp DEF Reading
<1>8. CASE MakeDirectory
  <2>1. /\ pc = "header" /\ R.tag = "directory" /\ UNCHANGED <<layout, raw, mode>>
        /\ pc' = "tag" /\ rec' = rec + 1 /\ volume[drive] # Unformatted
        /\ \/ volume' = volume
           \/ /\ volume[drive][R.name] = <<"absent">>
              /\ volume' = [volume EXCEPT ![drive][R.name] = Directory]
    BY <1>8 DEF MakeDirectory, Header, NextRecord, idle
  <2>2. \A n \in 1 .. rec - 1 : OnPlace(n)'
    <3>1. CASE volume' = volume
      <4> TAKE n \in 1 .. rec - 1
      <4>1. n \in Records /\ OnPlace(n)
        BY <1>2, <2>1 DEF Reading
      <4> QED  BY <2>1, <3>1, <4>1, DiskAlone
    <3>2. CASE /\ volume[drive][R.name] = <<"absent">>
               /\ volume' = [volume EXCEPT ![drive][R.name] = Directory]
      <4>1. pc \in Reading /\ Directory \in Contents
        BY <2>1, EmptyTypes DEF Reading
      <4> DEFINE c == Directory
      <4>2. c \in Contents /\ volume' = [volume EXCEPT ![drive][R.name] = c]
        BY <3>2, <4>1
      <4> HIDE DEF c
      <4>3. volume[drive][R.name] # Directory
        BY <3>2, Marks
      <4> QED  BY <2>1, <3>2, <4>1, <4>2, <4>3, FileChanged
    <3> QED  BY <2>1, <3>1, <3>2
  <2>3. \A n \in 1 .. rec : OnPlace(n)'
    <3> TAKE n \in 1 .. rec
    <3>1. CASE n = rec
      BY <1>1, <2>1, <3>1 DEF OnPlace
    <3>2. CASE n # rec
      <4>1. n \in 1 .. rec - 1
        BY <1>1, <3>2
      <4> QED  BY <2>2, <4>1
    <3> QED  BY <3>1, <3>2
  <2> QED  BY <1>1, <2>1, <2>3, GoesOn
<1> QED  BY <1>4, <1>5, <1>6, <1>7, <1>8

\* A block is stored where the record wants it: no record before this one has
\* anything there.
LEMMA InstallBlock ==
  ASSUME InstallInv, pc = "write", at \in 1 .. Len(R.data), NEW b \in Stuff, Stored(b),
         layout' = layout, mode' = mode
  PROVE  /\ \A n \in 1 .. rec - 1 : OnPlace(n)'
         /\ R.tag = "file" => LET c == volume'[drive][R.name] IN
                              /\ Len(c) = at + 1 /\ c[1] = "file"
                              /\ InDirectory(volume'[drive], R)
<1>1. pc \in Reading /\ pc \in Working
  BY DEF Working, Reading
<1>2. /\ rec \in Records /\ rec \in Int /\ rec <= Len(Package) /\ R = Package[rec]
      /\ R.tag \in {"rawdata", "file"} /\ Len(R.data) \in Nat
  BY <1>1, AtRecord DEF InstallInv, Inv, LoopInv, R
<1>3. \A n \in 1 .. rec - 1 : n \in Records /\ n < rec /\ OnPlace(n)
  BY <1>1, <1>2, Constants DEF InstallInv, PlaceInv
<1>4. CASE R.tag = "rawdata"
  <2>1. volume' = volume /\ raw' = [raw EXCEPT ![R.pos + at - 1] = b]
    BY <1>4, StoredType DEF InstallInv
  <2>2. R.pos \in Int /\ at \in Int
    BY <1>2, <1>4, RecordType
  <2> SUFFICES ASSUME NEW n \in 1 .. rec - 1 PROVE OnPlace(n)'
    BY <1>4
  <2>3. n \in Records /\ n < rec /\ OnPlace(n)
    BY <1>3
  <2>4. CASE Package[n].tag = "rawdata"
    <3>1. ASSUME NEW i \in 1 .. Len(Package[n].data)
          PROVE  raw'[Package[n].pos + i - 1] = raw[Package[n].pos + i - 1]
      <4>1. /\ Package[n].pos \in Int /\ Len(Package[n].data) \in Nat
            /\ Package[n].pos + i - 1 \in RawBlocks /\ i \in Int
        BY <2>3, <2>4, RecordType
      <4>2. i \in DOMAIN Package[n].data /\ at \in DOMAIN Package[rec].data
        BY <1>2, <2>3, RecordType
      <4>3. Package[n].pos + i # R.pos + at
        <5>1. Package[rec].tag = "rawdata"
          BY <1>2, <1>4
        <5>2. Package[n].pos + i # Package[rec].pos + at
          BY ONLY <1>2, <2>3, <2>4, <4>2, <5>1, RawApart
        <5> QED  BY <1>2, <5>2
      <4>4. Package[n].pos + i - 1 # R.pos + at - 1
        <5>1. \A u, v, x, y \in Int : u + v # x + y => u + v - 1 # x + y - 1
          OBVIOUS
        <5> QED  BY ONLY <2>2, <4>1, <4>3, <5>1
      <4>5. DOMAIN raw = RawBlocks
        BY DEF InstallInv, Inv, TypeInv
      <4> QED  BY <2>1, <4>1, <4>4, <4>5
    <3> QED  BY <2>3, <2>4, <3>1, StaysOnPlace
  <2>5. CASE Package[n].tag # "rawdata"
    <3>1. Package[n].tag = "file" => volume[Home(n)] # Unformatted
      BY <2>3 DEF OnPlace
    <3> QED  BY <2>1, <2>3, <2>5, <3>1, StaysOnPlace
  <2> QED  BY <2>4, <2>5
<1>5. CASE R.tag = "file"
  <2> DEFINE c == volume[drive][R.name]
             a == Append(c, b)
  <2>1. /\ raw' = raw /\ drive \in Partitions /\ c \in Contents
        /\ volume' = [volume EXCEPT ![drive][R.name] = a]
    BY <1>5, StoredType DEF InstallInv
  <2>2. Len(c) = at /\ c[1] = "file" /\ c # Directory /\ InDirectory(volume[drive], R)
    BY <1>5, Marks DEF InstallInv, FileInv
  <2>3. a \in Contents /\ Len(a) = at + 1 /\ a[1] = "file"
    BY <2>1, <2>2, AppendType
  <2>4. volume[drive] # Unformatted
    BY <1>1, <1>5 DEF InstallInv, Inv, LoopInv
  <2> HIDE DEF a, c
  <2>5. volume[drive][R.name] # Directory
    BY <2>2 DEF c
  <2>6. /\ volume'[drive][R.name] = a /\ \A n \in 1 .. rec - 1 : OnPlace(n)'
        /\ InDirectory(volume'[drive], R)
    BY <1>1, <1>5, <2>1, <2>2, <2>3, <2>4, <2>5, FileChanged
  <2> QED  BY <2>3, <2>6
<1> QED  BY <1>2, <1>4, <1>5

LEMMA InstallWrite ==
  ASSUME InstallInv, OpenRawData \/ OpenFile \/ Write \/ Rewind \/ Verify \/ Verified
  PROVE  FileInv' /\ PlaceInv'
<1>0. pc \in Reading /\ pc \in Working /\ mode' = mode
  BY DEF OpenRawData, OpenFile, Write, Rewind, Verify, Verified, Header, Working, Reading, disk, idle
<1>1. /\ rec \in Records /\ rec \in Int /\ R = Package[rec] /\ Len(R.data) \in Nat
      /\ \A n \in 1 .. rec - 1 : n \in Records /\ OnPlace(n)
  BY <1>0, AtRecord, Constants DEF InstallInv, Inv, PlaceInv, R
<1>2. pc \in {"write", "verify"} => R.tag \in {"rawdata", "file"} /\ at \in 1 .. Len(R.data) + 1
  BY <1>0 DEF InstallInv, Inv, LoopInv
<1>3. ASSUME UNCHANGED <<layout, volume, raw>> PROVE \A n \in 1 .. rec - 1 : OnPlace(n)'
  BY <1>0, <1>1, <1>3, DiskAlone
<1>4. ASSUME pc' = "done", ret' = 1 PROVE FileInv' /\ PlaceInv'
  BY <1>4, GivesUp DEF Reading
<1>5. CASE OpenRawData
  <2>1. /\ R.tag = "rawdata" /\ UNCHANGED <<layout, volume, raw, rec>>
        /\ \/ pc' = "write"
           \/ pc' = "done" /\ ret' = 1
    BY <1>5 DEF OpenRawData, Header, Goto, Fails, disk
  <2>2. CASE pc' = "write"
    <3>1. R' = R
      BY <2>1 DEF R
    <3> QED  BY <1>3, <2>1, <2>2, <3>1 DEF FileInv, PlaceInv
  <2> QED  BY <1>4, <2>1, <2>2
<1>6. CASE OpenFile
  <2>1. /\ R.tag = "file" /\ volume[drive] # Unformatted /\ CanOpen
        /\ UNCHANGED <<layout, raw, rec, drive>>
        /\ \/ pc' = "write" /\ at' = 1 /\ volume' = [volume EXCEPT ![drive][R.name] = File(<<>>)]
           \/ pc' = "done" /\ ret' = 1
    BY <1>6 DEF OpenFile, Header, Goto, Fails
  <2>2. CASE pc' = "write" /\ at' = 1 /\ volume' = [volume EXCEPT ![drive][R.name] = File(<<>>)]
    <3> DEFINE c == File(<<>>)
    <3>1. c \in Contents /\ Len(c) = 1 /\ c[1] = "file"
      BY EmptyTypes
    <3>2. volume' = [volume EXCEPT ![drive][R.name] = c]
      BY <2>2
    <3> HIDE DEF c
    <3>3. /\ volume'[drive][R.name] = c /\ \A n \in 1 .. rec - 1 : OnPlace(n)'
          /\ InDirectory(volume'[drive], R)
      BY <1>0, <2>1, <3>1, <3>2, FileChanged DEF CanOpen
    <3>4. R' = R /\ InDirectory(volume[drive], R)' = InDirectory(volume'[drive], R)
      BY <2>1 DEF R, InDirectory, Directory
    <3>5. FileInv'
      BY <2>1, <2>2, <3>1, <3>3, <3>4 DEF FileInv
    <3>6. PlaceInv'
      BY <2>1, <2>2, <3>3 DEF PlaceInv
    <3> QED  BY <3>5, <3>6
  <2> QED  BY <1>4, <2>1, <2>2
<1>7. CASE Write
  <2>1. /\ pc = "write" /\ at <= Len(R.data) /\ UNCHANGED <<layout, rec, drive>>
    BY <1>7 DEF Write
  <2>2. at \in 1 .. Len(R.data)
    BY <1>1, <1>2, <2>1
  <2>3. R.data[at] \in Stuff /\ Bad \in Stuff
    BY <1>1, <2>2, StuffTypes
  <2>4. \/ pc' = pc /\ at' = at + 1 /\ \E b \in Stuff : Stored(b)
        \/ pc' = "done" /\ ret' = 1
    BY <1>7, <2>3 DEF Write, Fails
  <2>5. CASE pc' = pc /\ at' = at + 1 /\ \E b \in Stuff : Stored(b)
    <3>1. PICK b \in Stuff : Stored(b)
      BY <2>5
    <3>2. /\ \A n \in 1 .. rec - 1 : OnPlace(n)'
          /\ R.tag = "file" => Len(volume'[drive][R.name]) = at + 1
                               /\ volume'[drive][R.name][1] = "file"
                               /\ InDirectory(volume'[drive], R)
      BY <1>0, <2>1, <2>2, <3>1, InstallBlock
    <3>3. R' = R /\ InDirectory(volume[drive], R)' = InDirectory(volume'[drive], R)
      BY <2>1 DEF R, InDirectory, Directory
    <3>4. FileInv'
      BY <2>1, <2>5, <3>2, <3>3 DEF FileInv
    <3>5. PlaceInv'
      BY <2>1, <2>5, <3>2 DEF PlaceInv
    <3> QED  BY <3>4, <3>5
  <2> QED  BY <1>4, <2>4, <2>5
<1>8. CASE Rewind
  <2>1. /\ pc = "write" /\ at > Len(R.data) /\ pc' = "verify" /\ at' = 1
        /\ UNCHANGED <<layout, volume, raw, rec, drive>>
    BY <1>8 DEF Rewind, Goto, disk
  <2>2. at = Len(R.data) + 1 /\ R' = R
    BY <1>1, <1>2, <2>1 DEF R
  <2>3. FileInv'
    BY <2>1, <2>2 DEF InstallInv, FileInv
  <2>4. PlaceInv'
    BY <1>3, <2>1 DEF PlaceInv
  <2> QED  BY <2>3, <2>4
<1>9. CASE Verify
  <2>1. /\ pc = "verify" /\ at <= Len(R.data) /\ UNCHANGED <<layout, volume, raw, rec, drive>>
        /\ \/ pc' = pc /\ at' = at + 1 /\ OnDisk(at) = R.data[at]
           \/ pc' = "done" /\ ret' = 1
    BY <1>9 DEF Verify, Fails, disk
  <2>2. CASE pc' = pc /\ at' = at + 1 /\ OnDisk(at) = R.data[at]
    <3>1. R' = R /\ at \in Int
      BY <1>1, <1>2, <2>1 DEF R
    <3>2. \A i \in 1 .. at - 1 : OnDisk(i) = R.data[i]
      BY <2>1 DEF InstallInv, FileInv
    <3>3. \A i \in 1 .. at' - 1 : OnDisk(i)' = R'.data[i]
      <4> TAKE i \in 1 .. at' - 1
      <4>1. OnDisk(i) = R.data[i]
        BY <2>2, <3>1, <3>2
      <4> QED  BY <2>1, <3>1, <4>1 DEF OnDisk
    <3>4. FileInv'
      BY <2>1, <2>2, <3>1, <3>3 DEF InstallInv, FileInv
    <3>5. PlaceInv'
      BY <1>3, <2>1, <2>2 DEF PlaceInv
    <3> QED  BY <3>4, <3>5
  <2> QED  BY <1>4, <2>1, <2>2
<1>10. CASE Verified
  <2>1. /\ pc = "verify" /\ at > Len(R.data) /\ UNCHANGED <<layout, volume, raw, drive>>
        /\ pc' = "tag" /\ rec' = rec + 1
    BY <1>10 DEF Verified, NextRecord, disk
  <2>2. at - 1 = Len(R.data)
    BY <1>1, <1>2, <2>1
  <2>3. \A i \in 1 .. Len(R.data) : OnDisk(i) = R.data[i]
    BY <2>1, <2>2 DEF InstallInv, FileInv
  <2>4. OnPlace(rec)
    <3>1. CASE R.tag = "rawdata"
      <4>1. \A i \in 1 .. Len(R.data) : raw[R.pos + i - 1] = R.data[i]
        BY <2>3, <3>1 DEF OnDisk
      <4>2. DOMAIN Package[rec].data = 1 .. Len(Package[rec].data)
        BY <1>1, RecordType
      <4> QED  BY <1>1, <3>1, <4>1, <4>2 DEF OnPlace
    <3>2. CASE R.tag = "file"
      <4> DEFINE c == volume[drive][R.name]
      <4>1. Len(c) = Len(R.data) + 1 /\ c[1] = "file"
        BY <2>1, <3>2 DEF InstallInv, FileInv
      <4>2. \A i \in 1 .. Len(R.data) : c[i + 1] = R.data[i]
        BY <2>3, <3>2 DEF OnDisk
      <4>3. volume[drive] # Unformatted /\ drive \in Partitions /\ R.name \in Names
        BY <1>0, <2>1, <3>2, AtRecord DEF InstallInv, Inv, LoopInv
      <4>4. c \in Contents
        <5>1. volume[drive] \in FileSystem
          BY <4>3 DEF InstallInv, Inv, TypeInv
        <5> QED  BY <4>3, <5>1 DEF FileSystem
      <4>5. drive = Home(rec) /\ InDirectory(volume[drive], R)
        BY <1>0, <2>1, <3>2 DEF InstallInv, DriveInv, FileInv
      <4> HIDE DEF c
      <4>6. c = File(R.data)
        BY <1>1, <4>1, <4>2, <4>4, SameFile
      <4> QED  BY <1>1, <3>2, <4>3, <4>5, <4>6 DEF OnPlace, c
    <3> QED  BY <1>2, <2>1, <3>1, <3>2
  <2>5. \A n \in 1 .. rec : OnPlace(n)'
    <3> TAKE n \in 1 .. rec
    <3>1. n \in Records /\ OnPlace(n)
      BY <1>1, <2>4
    <3> QED  BY <1>0, <2>1, <3>1, DiskAlone
  <2> QED  BY <1>1, <2>1, <2>5, GoesOn
<1> QED  BY <1>5, <1>6, <1>7, <1>8, <1>9, <1>10

LEMMA NextInstall ==
  ASSUME Repairable, InstallInv, [Next]_vars
  PROVE  InstallInv'
<1>1. Inv' /\ ModeInv' /\ DriveInv'
  BY NextInv, NextDrive DEF InstallInv
<1>2. FileInv' /\ PlaceInv'
  <2>1. CASE UNCHANGED vars
    <3>1. UNCHANGED <<layout, volume, raw, pc, rec, at, drive, ret, cut, mode>>
      BY <2>1 DEF vars, disk, prog
    <3>2. R' = R /\ \A n \in Records : OnPlace(n) => OnPlace(n)'
      BY <3>1, DiskAlone DEF R
    <3>3. FileInv'
      BY <3>1, <3>2 DEF InstallInv, FileInv, OnDisk, InDirectory, Directory
    <3>4. PlaceInv'
      <4>1. ASSUME pc \in Reading, NEW n \in 1 .. rec - 1 PROVE OnPlace(n)'
        <5>1. rec \in 0 .. Len(Package)
          BY DEF InstallInv, Inv, TypeInv
        <5>2. n \in Records
          BY <4>1, <5>1, Constants
        <5> QED  BY <3>2, <4>1, <5>2 DEF InstallInv, PlaceInv
      <4> QED  BY <3>1, <3>2, <4>1 DEF InstallInv, PlaceInv, Delivered
    <3> QED  BY <3>3, <3>4
  <2>2. CASE Step
    BY <2>2, InstallLoop, InstallRecord, InstallWrite DEF Step
  <2>3. CASE Crash
    BY <2>3, InstallLoop
  <2> QED  BY <2>1, <2>2, <2>3 DEF Next
<1> QED  BY <1>1, <1>2 DEF InstallInv

\* An upgrade that reports success has put all raw data and every file that was
\* delivered in their places, unchanged, and has found or made a table like the
\* package's unless told not to, whatever failed, was stored wrongly or was
\* interrupted before: in every mode in which partitioning is repaired.
THEOREM Installed == Repairable => (Spec => []SuccessIsInstalled)
<1> SUFFICES ASSUME Repairable PROVE Spec => []SuccessIsInstalled
  OBVIOUS
<1>1. Init => InstallInv
  <2>1. Init => pc = "off"
    BY DEF Init
  <2>2. Init => FileInv /\ PlaceInv
    BY <2>1 DEF FileInv, PlaceInv, Reading
  <2> QED  BY <2>2, InitInv, InitDrive DEF InstallInv
<1>2. InstallInv /\ [Next]_vars => InstallInv'
  BY NextInstall
<1>3. InstallInv => SuccessIsInstalled
  BY DEF InstallInv, PlaceInv, SuccessIsInstalled
<1> QED  BY <1>1, <1>2, <1>3, PTL DEF Spec
=============================================================================
