------------------------------ MODULE Upgrade ------------------------------
(***************************************************************************)
(* The upgrade of share/upgrade: ugUpgradePackage reads records from a     *)
(* stream and puts them on one disk: the partitions, raw data in front of  *)
(* them, directories and files.  The calls to the FAT driver are those of  *)
(* driver/itp/itp_fat.c.  Reads, writes and formats may fail, a write may  *)
(* store something else, the package may be cut off, and the power may go  *)
(* at any point; the device is then mounted as it is and the upgrade       *)
(* started again.                                                          *)
(*                                                                         *)
(* A record's data is a sequence of blocks.  A read of the stream is known *)
(* by the record and what it reads of it: the tag, the header or a block.  *)
(***************************************************************************)
EXTENDS Integers, Sequences, FiniteSets

CONSTANTS
  Package,      \* the records of the whole package
  Cuts,         \* where it may end: the first read that fails
  NumPartitions,
  Names, Root,  \* paths of files and directories on a partition, and its root
  RawBlocks,    \* the blocks in front of the partitions
  Modes,        \* the package's flags, and whether the disk is ITP_DISK_NAND
  FailModes,    \* the modes in which partitioning may fail
  CrashModes,   \* the modes in which the power may go while partitioning
  FaultKinds,   \* what may fail
  MaxFaults, MaxCrashes  \* bounds

Partitions == 0 .. NumPartitions - 1
Tags == {"device", "unformatted", "rawdata", "partition", "directory", "file", "end"}
Records == 1 .. Len(Package)
Width == 100  \* more than the blocks of a record

ASSUME UpgradeAssumption ==
  /\ NumPartitions \in 0 .. Width /\ Width \in Nat
  /\ \A n \in Records : Package[n].tag \in Tags /\ Len(Package[n].data) < Width - 2
  /\ Modes \subseteq [flag : {"partition", "keep", "none"}, nand : BOOLEAN]
  /\ FailModes \subseteq Modes /\ CrashModes \subseteq Modes
  /\ Cuts \subseteq Nat /\ MaxFaults \in Nat /\ MaxCrashes \in Nat

\* What pkgtool writes, and ugUpgradePackage relies on: `partition` has a value
\* from the device record on, `drive` from a partition record on, and the loop
\* leaves at the end record.  No two records have the same place, none is the
\* user's file.
Blocks == UNION {{Package[n].data[i] : i \in DOMAIN Package[n].data} : n \in Records}
ASSUME PackageAssumption ==
  /\ Len(Package) \in Nat \ {0} /\ "user" \in Names /\ Root \notin Names
  /\ \A n \in Records :
       LET r == Package[n] IN
       /\ r.data \in Seq(Blocks)
       /\ r.tag = "device" <=> n = 1
       /\ r.tag = "end" <=> n = Len(Package)
       /\ r.tag = "rawdata" => r.pos \in Int /\ \A i \in DOMAIN r.data : r.pos + i - 1 \in RawBlocks
       /\ r.tag \in {"directory", "file"} =>
            r.name \in Names \ {"user"} /\ \E m \in 1 .. n - 1 : Package[m].tag = "partition"
       /\ r.tag = "file" => r.dir \in Names \union {Root}
  /\ \A m, n \in Records :
       m < n /\ Package[m].tag = Package[n].tag =>
         /\ Package[m].tag = "rawdata" =>
              \A i \in DOMAIN Package[m].data, j \in DOMAIN Package[n].data :
                Package[m].pos + i # Package[n].pos + j
         /\ Package[m].tag = "file" /\ Package[m].name = Package[n].name =>
              \E k \in m .. n - 1 : Package[k].tag = "partition"

VARIABLES
  layout,   \* the partition table, compared with the package's: see Layouts
  volume,   \* each partition: what it holds under each name, or Unformatted
  raw,      \* the blocks in front of the partitions
  mounted,  \* the drives of this disk: the partitions that are `avail`
  mode, cut, \* the package: its flags, and where its stream ends
  pc,       \* where ugUpgradePackage is
  rec,      \* the record it is at
  at,       \* the block of its data it is at, or the drive it formats
  count,    \* `partition`: how many partition records it has seen
  drive,    \* the partition `drive` names
  ret,      \* 0 or an error
  faults, crashes,
  found     \* history: the table the upgrade found

disk == <<layout, volume, raw, mounted>>
prog == <<pc, rec, at, count, drive, ret>>
vars == <<disk, mode, cut, prog, faults, crashes, found>>

Unformatted == [n \in Names |-> <<"none">>]
NoDrive == -1
Nothing == [n \in Names |-> <<"absent">>]
Bad == "bad"
File(blocks) == <<"file">> \o blocks
Directory == <<"directory">>

\* Only the number of partitions and the sizes the package gives are compared:
\* "alike" agrees in them and has its partitions elsewhere, "wanted" is the
\* package's own table.  "fewer" has one partition less, "other" not fewer but of
\* other sizes.
Layouts == {"none", "fewer", "other", "alike", "wanted"}
Alike == {"alike", "wanted"}
Existing(l) ==
  CASE l = "none" -> {}
    [] l = "fewer" -> 0 .. NumPartitions - 2
    [] OTHER -> Partitions

\* FatMount(disk, FALSE): every formatted partition of the table; NAND
\* partitions are formatted first.
Formatted(S, v) ==
  [p \in Partitions |-> IF mode.nand /\ p \in S /\ v[p] = Unformatted THEN Nothing ELSE v[p]]
Mountable(l, v) == {p \in Existing(l) : v[p] # Unformatted}

Mount(l, v) ==
  /\ volume' = Formatted(Existing(l), v)
  /\ mounted' = Mountable(l, volume')

\* A device before its first upgrade, with a user's file in each formatted
\* partition.  A table that the package may leave as it is has no partition
\* without a file system.
Init ==
  /\ layout \in Layouts
  /\ volume \in [Partitions -> {Unformatted, [Nothing EXCEPT !["user"] = File(<<"mine">>)]}]
  /\ mode \in Modes
  /\ layout \in Alike \/ mode.nand \/ mode.flag = "keep" =>
       \A p \in Existing(layout) : volume[p] # Unformatted
  /\ mounted = Mountable(layout, volume)
  /\ raw = [b \in RawBlocks |-> "factory"]
  /\ cut \in Cuts
  /\ pc = "off" /\ rec = 0 /\ at = 0 /\ count = 0 /\ drive = NoDrive /\ ret = 0
  /\ faults = 0 /\ crashes = 0
  /\ found = layout

-----------------------------------------------------------------------------
(* Reading the stream                                                      *)

R == Package[rec]
Read(n, k) == n * Width + k      \* k: 0 the tag, 1 the header, k + 1 the k-th block
Delivered(n, k) == Read(n, k) < cut
Whole == cut > Read(Len(Package), Width - 1)

\* Between the new table and the last format.
Partitioning == pc \in {"create", "mount", "format"}
Fault(kind) ==
  /\ kind \in FaultKinds /\ (Partitioning => mode \in FailModes)
  /\ faults < MaxFaults /\ faults' = faults + 1
NoFault == faults' = faults

Goto(p) == pc' = p
Fails == pc' = "done" /\ ret' = 1

idle == <<mode, cut, crashes, found>>

\* ugUpgradePackage is called, for the first time or again after a failure.
Start ==
  /\ pc = "off" \/ (pc = "done" /\ ret # 0)
  /\ found' = layout
  /\ rec' = 1 /\ at' = 0 /\ count' = 0 /\ drive' = NoDrive /\ ret' = 0
  /\ Goto("tag")
  /\ UNCHANGED <<disk, mode, cut, faults, crashes>>

\* A package that ends where a tag should be ends the upgrade, with ret as it is.
ReadTag ==
  /\ pc = "tag"
  /\ Goto(IF Delivered(rec, 0) THEN "header" ELSE "done")
  /\ UNCHANGED <<disk, rec, at, count, drive, ret, faults, idle>>

NextRecord == pc' = "tag" /\ rec' = rec + 1 /\ at' = 0

HeaderMissing ==
  /\ pc = "header" /\ ~Delivered(rec, 1)
  /\ Fails
  /\ UNCHANGED <<disk, rec, at, count, drive, faults, idle>>

Header(tag) == pc = "header" /\ Delivered(rec, 1) /\ R.tag = tag

-----------------------------------------------------------------------------
(* ugUpgradeDevice                                                         *)

\* Partition when forced, or when the table is not like the package's.
Repartition_Always == mode.flag # "keep"
Repartition_OnlyForced == mode.flag = "partition"
Repartition ==
  NumPartitions > 0 /\ (mode.flag = "partition" \/ (mode.flag = "none" /\ layout \notin Alike))

Unmount == mounted' = {} /\ Goto("create") /\ UNCHANGED <<rec, at>>

\* A table that cannot be read is taken for none.
ReadDevice ==
  /\ Header("device")
  /\ \/ /\ NoFault /\ UNCHANGED found
        /\ IF Repartition THEN Unmount ELSE NextRecord /\ UNCHANGED mounted
     \/ /\ NumPartitions > 0 /\ mode.flag = "none" /\ Fault("table")
        /\ found' = "none" /\ Unmount
  /\ count' = 0
  /\ UNCHANGED <<layout, volume, raw, drive, ret, mode, cut, crashes>>

\* A partition of the new table keeps the file system of an old one only when
\* it starts where that one started.
CreatePartition ==
  /\ pc = "create"
  /\ \/ /\ NoFault /\ Goto("mount") /\ layout' = "wanted" /\ UNCHANGED ret
        /\ volume' \in {v \in [Partitions -> {Unformatted} \union {volume[p] : p \in Partitions}] :
                          \A p \in Partitions : v[p] \in {Unformatted, volume[p]}}
     \/ Fault("create") /\ Fails /\ UNCHANGED <<layout, volume>>
  /\ UNCHANGED <<raw, mounted, rec, at, count, drive, idle>>

\* FatMount(disk, TRUE): unformatted partitions too.  When one of them cannot be
\* mounted, the drives of those before it stay.
ForceMount ==
  /\ pc = "mount"
  /\ \/ NoFault /\ Goto("format") /\ mounted' = Partitions /\ UNCHANGED ret
     \/ Fault("mount") /\ Fails /\ \E k \in Partitions : mounted' = 0 .. k - 1
  /\ volume' = Formatted(mounted', volume)
  /\ at' = 0
  /\ UNCHANGED <<layout, raw, rec, count, drive, idle>>

Format_OnePast ==
  /\ pc = "format" /\ at <= NumPartitions
  /\ \/ NoFault /\ volume' = [volume EXCEPT ![at] = Nothing] /\ at' = at + 1 /\ UNCHANGED <<pc, ret>>
     \/ Fault("format") /\ volume' = [volume EXCEPT ![at] = Unformatted] /\ Fails /\ UNCHANGED at
  /\ UNCHANGED <<layout, raw, mounted, rec, count, drive, idle>>

Format ==
  /\ pc = "format" /\ at < NumPartitions
  /\ \/ NoFault /\ volume' = [volume EXCEPT ![at] = Nothing] /\ at' = at + 1 /\ UNCHANGED <<pc, ret>>
     \/ Fault("format") /\ volume' = [volume EXCEPT ![at] = Unformatted] /\ Fails /\ UNCHANGED at
  /\ UNCHANGED <<layout, raw, mounted, rec, count, drive, idle>>

AllFormatted ==
  /\ pc = "format" /\ at = NumPartitions
  /\ NextRecord
  /\ UNCHANGED <<disk, count, drive, ret, faults, idle>>

\* ugUpgradeUnformatted only reports the size.
ReadUnformatted ==
  /\ Header("unformatted")
  /\ NextRecord
  /\ UNCHANGED <<disk, count, drive, ret, faults, idle>>

-----------------------------------------------------------------------------
(* ugUpgradePartition, ugUpgradeDirectory, ugUpgradeEnd                    *)

\* The drive of partition record n is the n-th available drive of the disk.
Drive(n) == {p \in mounted : Cardinality({q \in mounted : q < p}) = n}

ReadPartition_NotCounted ==
  /\ Header("partition")
  /\ IF Drive(count) = {} THEN Fails /\ UNCHANGED <<rec, at, count, drive>>
     ELSE drive' \in Drive(count) /\ count' = count /\ NextRecord /\ UNCHANGED ret
  /\ UNCHANGED <<disk, faults, idle>>

ReadPartition ==
  /\ Header("partition")
  /\ IF Drive(count) = {} THEN Fails /\ UNCHANGED <<rec, at, count, drive>>
     ELSE drive' \in Drive(count) /\ count' = count + 1 /\ NextRecord /\ UNCHANGED ret
  /\ UNCHANGED <<disk, faults, idle>>

InDirectory(fs, r) == r.dir # Root => fs[r.dir] = Directory
CanOpen == InDirectory(volume[drive], R) /\ volume[drive][R.name] # Directory

\* chdir needs a file system, and may also fail by itself; fopen also needs the
\* file's directory.
NoPath ==
  /\ pc = "header" /\ Delivered(rec, 1) /\ R.tag \in {"directory", "file"}
  /\ IF volume[drive] = Unformatted \/ (R.tag = "file" /\ ~CanOpen) THEN NoFault
     ELSE R.tag = "directory" /\ Fault("open")
  /\ Fails
  /\ UNCHANGED <<disk, rec, at, count, drive, idle>>

\* A directory that cannot be made is only reported.
MakeDirectory ==
  /\ Header("directory") /\ volume[drive] # Unformatted
  /\ \/ /\ NoFault
        /\ volume' = IF volume[drive][R.name] = <<"absent">> THEN [volume EXCEPT ![drive][R.name] = Directory] ELSE volume
     \/ Fault("write") /\ UNCHANGED volume
  /\ NextRecord
  /\ UNCHANGED <<layout, raw, mounted, count, drive, ret, idle>>

ReadEnd ==
  /\ Header("end")
  /\ Goto("done")
  /\ UNCHANGED <<disk, rec, at, count, drive, ret, faults, idle>>

-----------------------------------------------------------------------------
(* ugUpgradeRawData and ugUpgradeFile: write block by block, then read the *)
(* data once more from the stream and compare                              *)

OpenRawData ==
  /\ Header("rawdata")
  /\ \/ NoFault /\ Goto("write") /\ at' = 1 /\ UNCHANGED ret
     \/ Fault("open") /\ Fails /\ UNCHANGED at
  /\ UNCHANGED <<disk, rec, count, drive, idle>>

\* fopen(filename, "wb"); no room for the file is a failure before that.
OpenFile ==
  /\ Header("file") /\ volume[drive] # Unformatted /\ CanOpen
  /\ \/ /\ NoFault /\ Goto("write") /\ at' = 1 /\ UNCHANGED ret
        /\ volume' = [volume EXCEPT ![drive][R.name] = File(<<>>)]
     \/ Fault("open") /\ Fails /\ UNCHANGED <<at, volume>>
  /\ UNCHANGED <<layout, raw, mounted, rec, count, drive, idle>>

Stored(block) ==
  IF R.tag = "rawdata" THEN raw' = [raw EXCEPT ![R.pos + at - 1] = block] /\ UNCHANGED volume
  ELSE volume' = [volume EXCEPT ![drive][R.name] = Append(@, block)] /\ UNCHANGED raw

Write ==
  /\ pc = "write" /\ at <= Len(R.data)
  /\ \/ /\ Delivered(rec, at + 1)
        /\ \/ NoFault /\ Stored(R.data[at])
           \/ Fault("corrupt") /\ Stored(Bad)
        /\ at' = at + 1 /\ UNCHANGED <<pc, ret>>
     \/ /\ IF Delivered(rec, at + 1) THEN Fault("write") ELSE NoFault
        /\ Fails
        /\ UNCHANGED <<raw, volume, at>>
  /\ UNCHANGED <<layout, mounted, rec, count, drive, idle>>

Rewind ==
  /\ pc = "write" /\ at > Len(R.data)
  /\ Goto("verify") /\ at' = 1
  /\ UNCHANGED <<disk, rec, count, drive, ret, faults, idle>>

OnDisk(n) == IF R.tag = "rawdata" THEN raw[R.pos + n - 1] ELSE volume[drive][R.name][n + 1]

Verify_NotCompared ==
  /\ pc = "verify" /\ at <= Len(R.data)
  /\ \/ /\ NoFault
        /\ at' = at + 1 /\ UNCHANGED <<pc, ret>>
     \/ Fault("read") /\ Fails /\ UNCHANGED at
  /\ UNCHANGED <<disk, rec, count, drive, idle>>

Verify ==
  /\ pc = "verify" /\ at <= Len(R.data)
  /\ \/ /\ NoFault
        /\ IF OnDisk(at) = R.data[at] THEN at' = at + 1 /\ UNCHANGED <<pc, ret>> ELSE Fails /\ UNCHANGED at
     \/ Fault("read") /\ Fails /\ UNCHANGED at
  /\ UNCHANGED <<disk, rec, count, drive, idle>>

Verified ==
  /\ pc = "verify" /\ at > Len(R.data)
  /\ NextRecord
  /\ UNCHANGED <<disk, count, drive, ret, faults, idle>>

-----------------------------------------------------------------------------
(* External: the power goes, and the device starts again                   *)

\* What the step under way may have left behind.
Torn ==
  CASE pc = "create" -> \/ layout' \in {layout, "none"} /\ volume' = volume
    [] pc = "format" /\ at < NumPartitions ->
         layout' = layout /\ volume' \in {volume, [volume EXCEPT ![at] = Unformatted]}
    [] pc = "write" /\ R.tag = "file" ->
         layout' = layout /\ \E n \in 1 .. Len(volume[drive][R.name]) :
           volume' = [volume EXCEPT ![drive][R.name] = SubSeq(@, 1, n)]
    [] OTHER -> layout' = layout /\ volume' = volume

Crash ==
  /\ pc \notin {"off", "dark"} /\ (Partitioning => mode \in CrashModes) /\ crashes < MaxCrashes
  /\ crashes' = crashes + 1
  /\ pc' = "dark"
  /\ Torn
  /\ mounted' = {}
  /\ rec' = 0 /\ at' = 0 /\ count' = 0 /\ drive' = NoDrive /\ ret' = 0
  /\ UNCHANGED <<raw, mode, cut, faults, found>>

\* FatMount(disk, FALSE) when the device starts.
Boot ==
  /\ pc = "dark"
  /\ Mount(layout, volume)
  /\ pc' = "off"
  /\ UNCHANGED <<layout, raw, mode, cut, rec, at, count, drive, ret, faults, crashes, found>>

-----------------------------------------------------------------------------
Step ==
  \/ Start \/ ReadTag \/ HeaderMissing
  \/ ReadDevice \/ CreatePartition \/ ForceMount \/ Format \/ AllFormatted
  \/ ReadUnformatted
  \/ ReadPartition \/ NoPath \/ MakeDirectory \/ ReadEnd
  \/ OpenRawData \/ OpenFile \/ Write \/ Rewind \/ Verify \/ Verified
  \/ Boot

Next == Step \/ Crash

Spec == Init /\ [][Next]_vars

\* The program runs, and its user starts the upgrade again until it succeeds.
FairSpec == Spec /\ WF_vars(Step)

-----------------------------------------------------------------------------
(* Properties                                                              *)

\* Every variable keeps its type.
TypeOK ==
  /\ layout \in Layouts
  /\ \A p \in Partitions : DOMAIN volume[p] = Names
  /\ DOMAIN raw = RawBlocks
  /\ mounted \subseteq Partitions
  /\ rec \in 0 .. Len(Package) /\ at \in 0 .. Width /\ (pc = "format" => at <= NumPartitions)
  /\ count \in 0 .. NumPartitions
  /\ drive \in Partitions \union {NoDrive}
  /\ ret \in {0, 1}

\* The partition a record of the package belongs to.
Home(n) == Cardinality({m \in 1 .. n - 1 : Package[m].tag = "partition"}) - 1

\* Nothing is said of a directory record: a mkdir that fails is only logged.
OnPlace(n) ==
  LET r == Package[n] IN
  CASE r.tag = "rawdata" -> \A i \in DOMAIN r.data : raw[r.pos + i - 1] = r.data[i]
    [] r.tag = "file" -> /\ volume[Home(n)] # Unformatted
                         /\ InDirectory(volume[Home(n)], r)
                         /\ volume[Home(n)][r.name] = File(r.data)
    [] r.tag = "device" -> NumPartitions = 0 \/ mode.flag = "keep" \/ layout \in Alike
    [] OTHER -> TRUE

\* An upgrade that reports success has put all raw data and every file that was
\* delivered in their places, unchanged, the file in its directory, and unless
\* told not to partition found or made a table like the package's, whatever
\* failed, was stored wrongly or was interrupted before.
SuccessIsInstalled ==
  pc = "done" /\ ret = 0 => \A n \in Records : Delivered(n, 0) => OnPlace(n)

\* A file is written to the partition whose record it follows.
RightPartition ==
  pc \in {"write", "verify"} /\ R.tag = "file" => drive = Home(rec)

\* An upgrade that is told not to partition, or finds a table like the package's
\* and is not told to partition, leaves the user's files alone, across power
\* losses.
NotToPartition == mode.flag = "keep" \/ (mode.flag = "none" /\ found \in Alike)
UserDataKept ==
  [][NotToPartition /\ NotToPartition' =>
       \A p \in Partitions :
         volume[p] # Unformatted => volume'[p] # Unformatted /\ volume'[p]["user"] = volume[p]["user"]]_vars

\* However often it fails or is interrupted, in the end the whole package is
\* installed, on a disk that has its partitions or may be given them.
Installs ==
  Whole /\ (mode.flag = "keep" => layout \notin {"none", "fewer"}) ~> pc = "done" /\ ret = 0
=============================================================================
