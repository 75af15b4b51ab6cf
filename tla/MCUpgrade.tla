----------------------------- MODULE MCUpgrade -----------------------------
(* A package for a disk with two partitions: raw data of two blocks, a     *)
(* directory with a file on the first partition, a file on the second.     *)
EXTENDS Upgrade

SmallPackage == <<
  [tag |-> "device", data |-> <<>>],
  [tag |-> "unformatted", data |-> <<>>],
  [tag |-> "rawdata", pos |-> 0, data |-> <<"boot", "image">>],
  [tag |-> "partition", data |-> <<>>],
  [tag |-> "directory", name |-> "font", data |-> <<>>],
  [tag |-> "file", dir |-> "font", name |-> "app", data |-> <<"code", "more">>],
  [tag |-> "partition", data |-> <<>>],
  [tag |-> "file", dir |-> "root", name |-> "app", data |-> <<"text">>],
  [tag |-> "end", data |-> <<>>] >>

\* The package is whole, or ends before a tag, a header or a block.
AnyCut ==
  {1000} \union UNION {{n * 100 + k : k \in 0 .. Len(SmallPackage[n].data) + 1} : n \in 1 .. 9}

Paths == {"user", "app", "font"}
AllFaults == {"table", "create", "mount", "format", "open", "write", "corrupt", "read"}

Mode(flag, nand) == [flag |-> flag, nand |-> nand]
AllModes == {Mode(f, n) : f \in {"partition", "keep", "none"}, n \in BOOLEAN}
ForcedModes == {Mode("partition", FALSE), Mode("partition", TRUE)}
NandOrForced == {m \in AllModes : m.nand \/ m.flag = "partition"}
=============================================================================
