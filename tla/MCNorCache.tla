----------------------------- MODULE MCNorCache -----------------------------
(***************************************************************************)
(* NorCache on three pages of two sectors (sector 5, the last one, is      *)
(* beyond endOfPartition) and a cache of two pages.                        *)
(***************************************************************************)
EXTENDS NorCache

\* Both sectors of a page, a request that crosses into the next page, and a
\* third page, so that the cache has to evict; never the last sector.
CachedSectors == {0, 1, 2, 4}
\* The sectors of the first NumPages pages: they all fit in the cache.
FittingSectors == 0 .. (NumPages * SectorsPerPage - 1)
\* Every sector nor_getphy reports.
AllSectors == 0 .. (NumSectors - 1)

ReadWrite    == {"read", "write"}
FileSystem   == {"read", "write", "flush"}

\* The wider values under which the README's failures of the cache appear, as
\* AllSectors is.
WithRelease  == {"read", "write", "flush", "release"}
=============================================================================
