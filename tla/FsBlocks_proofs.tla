-------------------------- MODULE FsBlocks_proofs --------------------------
(***************************************************************************)
(* Theorems about the file system on its blocks, for a disk of at most     *)
(* 256 blocks (a block number takes one byte of an indirect block), and a  *)
(* bitmap word, files and directories of any size: no block is owned       *)
(* twice, or owned and free, and a crash at any write leaves a disk of     *)
(* which this is true as well.  They hold up to a panic, and up to the     *)
(* moment at which free_block, given a number that is made of two entries  *)
(* of an indirect block, sets a bit of a block that is no bitmap.          *)
(*                                                                         *)
(* The inductive invariant has three parts.  Good: the cache is a file     *)
(* system (every place of a pointer that is not 0 holds a block that is in *)
(* use and that no other place holds, the root directory's blocks are      *)
(* directories and nothing else is one, an indirect block is one).  Below: *)
(* the disk lacks pointers of the cache, has no other ones, and has no     *)
(* free block that the cache does not have, but for the files that are     *)
(* being truncated, whose blocks are free before the file is written.      *)
(* Every image the disk went through is a GoodDisk.                        *)
(***************************************************************************)
EXTENDS FsBlocks, WellFoundedInduction, TLAPS

-----------------------------------------------------------------------------
(* The inductive invariant *)

Nums == 3..(NBLOCKS - 1)
FileNumbers == 0..(NDIRECT - 1)
FileSet ==
  [name : FileNames \cup {"/", NoName, Garbage}, size : Nat,
   direct : [FileNumbers -> Pointers], indirect : Pointers]
Contents ==
  [kind : {"super"}, root : FileSet]
    \cup [kind : {"bitmap"}, free : SUBSET Nums]
    \cup [kind : {"dir"}, ents : [1..BLKFILES -> FileSet]]
    \cup [kind : {"indirect"}, bytes : [0..(NINDIRECT - 1) -> 0..(NBLOCKS - 1)]]
    \cup [kind : {"zero", "text", "smashed"}]
BlockSet == [1..(NBLOCKS - 1) -> Contents]
StateSet == [mem : BlockSet, disk : BlockSet, images : SUBSET BlockSet, ok : BOOLEAN]

\* The file f on the blocks m, the blocks of the root directory, the files.
FileAt(m, f) == Get([mem |-> m], f)
DirBlocks(m) == {m[Super].root.direct[n] : n \in {k \in FileNumbers : k < m[Super].root.size}}
FilesIn(m) == {Root} \cup (DirBlocks(m) \X (1..BLKFILES))

\* The places of a file that hold a block number: its direct ones, its
\* indirect one, and the bytes of its indirect block.
Places == 0..(NDIRECT + NINDIRECT)
Ptr(m, f, k) == IF k = NDIRECT THEN FileAt(m, f).indirect ELSE FileAt(m, f).direct[k]
Val(m, f, k) ==
  IF k <= NDIRECT THEN Ptr(m, f, k)
  ELSE IF FileAt(m, f).indirect \in {0, Bad} THEN 0
  ELSE m[FileAt(m, f).indirect].bytes[k - NDIRECT - 1]

Own(m) ==
  \A f \in FilesIn(m), k \in Places :
    Val(m, f, k) \notin {0, Bad} =>
      /\ Val(m, f, k) > Bitmap /\ Val(m, f, k) \notin m[Bitmap].free
      /\ \A g \in FilesIn(m), l \in Places : Val(m, g, l) = Val(m, f, k) => g = f /\ l = k

RootGood(m) ==
  LET r == m[Super].root
  IN /\ r.size \in 1..NDIRECT
     /\ \A k \in FileNumbers :
          IF k < r.size THEN r.direct[k] \in Nums /\ m[r.direct[k]].kind = "dir"
          ELSE r.direct[k] = 0
     /\ r.indirect = 0

Good(m) ==
  /\ m \in BlockSet
  /\ m[Super].kind = "super" /\ m[Bitmap].kind = "bitmap"
  /\ RootGood(m)
  /\ \A b \in DOMAIN m : m[b].kind = "dir" => b \in DirBlocks(m)
  /\ \A f \in FilesIn(m) :
       FileAt(m, f).indirect \notin {0, Bad} => m[FileAt(m, f).indirect].kind = "indirect"
  /\ Own(m)

\* What the disk d may lack of the cache m, but for the files X, which are
\* being truncated.
Below(d, m, X) ==
  /\ d[Super].kind = "super" /\ d[Bitmap].kind = "bitmap"
  /\ d[Bitmap].free \subseteq m[Bitmap].free
  /\ d[Super].root.size <= m[Super].root.size
  /\ \A k \in FileNumbers :
       k < d[Super].root.size => d[Super].root.direct[k] = m[Super].root.direct[k]
  /\ \A b \in DOMAIN d : d[b].kind = "dir" => m[b].kind = "dir"
  /\ \A f \in FilesIn(m) \ X, k \in 0..NDIRECT :
       Ptr(d, f, k) \in {0, Bad, Ptr(m, f, k)}

\* A disk as a crash may leave it.
GoodDisk(d) ==
  \/ d[Super] = Smashed
  \/ Mountable(d) /\ OwnedOnce([mem |-> d], Directs([mem |-> d]))

Safe(s, X) ==
  /\ s \in StateSet
  /\ Good(s.mem) /\ Below(s.disk, s.mem, X)
  /\ \A d \in s.images : GoodDisk(d)

BlocksInv ==
  /\ phase \in {"off", "up", "crashed"}
  /\ (phase = "off" \/ (phase = "up" /\ fs.ok)) => Safe(fs, {})
  /\ CrashIsSafe

-----------------------------------------------------------------------------
(* Constants, contents, files *)

\* The assumptions, in the form the proofs use.
LEMMA Sizing ==
  /\ NBLOCKS \in Nat /\ NBLOCKS >= 5 /\ WORD \in Nat /\ WORD > 0
  /\ NDIRECT \in Nat /\ NDIRECT > 1 /\ NINDIRECT \in Nat /\ NINDIRECT > 0
  /\ BLKFILES \in Nat /\ BLKFILES > 0
  /\ Bad \in Nat /\ Bad > NBLOCKS /\ Super = 1 /\ Bitmap = 2
PROOF
  <1>1. {NBLOCKS, WORD, NDIRECT, NINDIRECT, BLKFILES} \subseteq Nat \ {0}
    BY FsBlocksAssumption
  <1>2. NBLOCKS \in 5..256 /\ NDIRECT > 1 BY FsBlocksAssumption
  <1> QED BY <1>1, <1>2 DEF Bad, Super, Bitmap

\* What a block of each kind holds.
LEMMA KindFacts ==
  ASSUME NEW c \in Contents
  PROVE  /\ c.kind = "super" => c = SuperBlock(c.root) /\ c.root \in FileSet
         /\ c.kind = "bitmap" => c = BitmapBlock(c.free) /\ c.free \in SUBSET Nums
         /\ c.kind = "dir" => c = DirBlock(c.ents) /\ c.ents \in [1..BLKFILES -> FileSet]
         /\ c.kind = "indirect" =>
              /\ c = IndirectBlock(c.bytes)
              /\ c.bytes \in [0..(NINDIRECT - 1) -> 0..(NBLOCKS - 1)]
BY DEF Contents, SuperBlock, BitmapBlock, DirBlock, IndirectBlock

\* The contents are blocks.
LEMMA MakeFacts ==
  /\ \A r \in FileSet : SuperBlock(r) \in Contents
  /\ \A f \in SUBSET Nums : BitmapBlock(f) \in Contents
  /\ \A e \in [1..BLKFILES -> FileSet] : DirBlock(e) \in Contents
  /\ \A y \in [0..(NINDIRECT - 1) -> 0..(NBLOCKS - 1)] : IndirectBlock(y) \in Contents
  /\ {ZeroBlock, TextBlock, Smashed} \subseteq Contents
BY DEF Contents, SuperBlock, BitmapBlock, DirBlock, IndirectBlock, ZeroBlock,
       TextBlock, Smashed

\* What each constructor of a block holds.
LEMMA MadeKinds ==
  /\ \A r : SuperBlock(r).kind = "super" /\ SuperBlock(r).root = r
  /\ \A f : BitmapBlock(f).kind = "bitmap" /\ BitmapBlock(f).free = f
  /\ \A e : DirBlock(e).kind = "dir" /\ DirBlock(e).ents = e
  /\ \A y : IndirectBlock(y).kind = "indirect" /\ IndirectBlock(y).bytes = y
  /\ ZeroBlock.kind = "zero" /\ TextBlock.kind = "text" /\ Smashed.kind = "smashed"
BY DEF SuperBlock, BitmapBlock, DirBlock, IndirectBlock, ZeroBlock, TextBlock, Smashed

\* The files that Get sees in a block that is no directory.
LEMMA SpareFiles ==
  /\ EmptyFile \in FileSet /\ GarbageFile \in FileSet
  /\ EmptyFile.indirect = 0 /\ \A k \in FileNumbers : EmptyFile.direct[k] = 0
  /\ GarbageFile.indirect = Bad /\ \A k \in FileNumbers : GarbageFile.direct[k] = Bad
BY Sizing DEF EmptyFile, GarbageFile, FileSet, FileNumbers, Zeros, Pointers

\* The file an entry holds depends on its block alone.
LEMMA FileAtFacts ==
  ASSUME NEW m
  PROVE  /\ FileAt(m, Root) = m[Super].root
         /\ \A b, j : j \in 1..BLKFILES /\ m[b].kind = "dir" =>
              FileAt(m, <<b, j>>) = m[b].ents[j]
         /\ \A b, j : j \in 1..BLKFILES /\ m[b].kind # "dir" =>
              FileAt(m, <<b, j>>) \in {EmptyFile, GarbageFile}
PROOF
  <1>1. \A b, j : j \in 1..BLKFILES => <<b, j>> # Root BY DEF Root
  <1>2. [mem |-> m].mem = m OBVIOUS
  <1>3. ASSUME NEW b, NEW j \in 1..BLKFILES
        PROVE FileAt(m, <<b, j>>) = Ents([mem |-> m], b)[j]
    BY <1>1, Zenon DEF FileAt, Get
  <1>4. ASSUME NEW b, m[b].kind = "dir" PROVE Ents([mem |-> m], b) = m[b].ents
    BY <1>2, <1>4 DEF Ents
  <1>5. ASSUME NEW b, m[b].kind # "dir"
        PROVE Ents([mem |-> m], b) \in
          {[j \in 1..BLKFILES |-> EmptyFile], [j \in 1..BLKFILES |-> GarbageFile]}
    BY <1>2, <1>5 DEF Ents
  <1>6. FileAt(m, Root) = m[Super].root BY <1>2, Zenon DEF FileAt, Get
  <1>7. ASSUME NEW b, NEW j \in 1..BLKFILES, m[b].kind # "dir"
        PROVE FileAt(m, <<b, j>>) \in {EmptyFile, GarbageFile}
    <2>1. FileAt(m, <<b, j>>) = Ents([mem |-> m], b)[j] BY <1>3
    <2>2. CASE Ents([mem |-> m], b) = [i \in 1..BLKFILES |-> EmptyFile] BY <2>1, <2>2
    <2>3. CASE Ents([mem |-> m], b) = [i \in 1..BLKFILES |-> GarbageFile] BY <2>1, <2>3
    <2> QED BY <1>5, <1>7, <2>2, <2>3
  <1> QED BY <1>3, <1>4, <1>6, <1>7

\* The file an entry holds depends on the cache alone.
LEMMA FileAtOf ==
  ASSUME NEW s, NEW f PROVE Get(s, f) = FileAt(s.mem, f)
BY DEF Get, FileAt, Ents

\* Every entry of every block reads as a struct File.
LEMMA FileAtTyped ==
  ASSUME NEW m \in BlockSet, m[Super].kind = "super"
  PROVE  /\ FileAt(m, Root) \in FileSet
         /\ \A b \in 1..(NBLOCKS - 1), j \in 1..BLKFILES : FileAt(m, <<b, j>>) \in FileSet
PROOF
  <1>1. \A b \in 1..(NBLOCKS - 1) : m[b] \in Contents BY DEF BlockSet
  <1>2. Super \in 1..(NBLOCKS - 1) BY Sizing
  <1>3. FileAt(m, Root) \in FileSet BY <1>1, <1>2, KindFacts, FileAtFacts
  <1>4. ASSUME NEW b \in 1..(NBLOCKS - 1), NEW j \in 1..BLKFILES
        PROVE FileAt(m, <<b, j>>) \in FileSet
    <2>1. CASE m[b].kind = "dir"
      <3>1. m[b].ents[j] \in FileSet BY <1>1, <2>1, KindFacts
      <3> QED BY <3>1, <2>1, FileAtFacts
    <2>2. CASE m[b].kind # "dir" BY <2>2, FileAtFacts, SpareFiles
    <2> QED BY <2>1, <2>2
  <1> QED BY <1>3, <1>4

\* Blocks of the root directory and files of good blocks.
LEMMA GoodFiles ==
  ASSUME NEW m, Good(m)
  PROVE  /\ m \in BlockSet /\ DOMAIN m = 1..(NBLOCKS - 1)
         /\ Super \in DOMAIN m /\ Bitmap \in DOMAIN m
         /\ m[Bitmap].free \in SUBSET Nums
         /\ \A b \in DOMAIN m : m[b] \in Contents /\ (b \in DirBlocks(m) <=> m[b].kind = "dir")
         /\ DirBlocks(m) \subseteq Nums
         /\ Root \in FilesIn(m)
         /\ \A f \in FilesIn(m) : FileAt(m, f) \in FileSet
         /\ \A f \in FilesIn(m) \ {Root} :
              /\ f[1] \in DirBlocks(m) /\ f[2] \in 1..BLKFILES /\ f = <<f[1], f[2]>>
              /\ m[f[1]].kind = "dir" /\ FileAt(m, f) = m[f[1]].ents[f[2]]
         /\ \A b, j : <<b, j>> \in FilesIn(m) /\ <<b, j>> # Root <=>
              b \in DirBlocks(m) /\ j \in 1..BLKFILES
PROOF
  <1>1. m \in BlockSet /\ DOMAIN m = 1..(NBLOCKS - 1) BY DEF Good, BlockSet
  <1>2. Super \in DOMAIN m /\ Bitmap \in DOMAIN m /\ Nums \subseteq DOMAIN m
    BY <1>1, Sizing DEF Nums
  <1>3. \A b \in DOMAIN m : m[b] \in Contents BY <1>1 DEF BlockSet
  <1>4. m[Bitmap].free \in SUBSET Nums BY <1>2, <1>3, KindFacts DEF Good
  <1>5. \A b \in DirBlocks(m) : b \in Nums /\ m[b].kind = "dir"
    BY DEF Good, RootGood, DirBlocks
  <1>6. \A b \in DOMAIN m : m[b].kind = "dir" => b \in DirBlocks(m) BY DEF Good
  <1>7. ASSUME NEW f \in FilesIn(m) \ {Root}
        PROVE f[1] \in DirBlocks(m) /\ f[2] \in 1..BLKFILES /\ f = <<f[1], f[2]>>
    BY <1>7 DEF FilesIn
  <1>8. \A f \in FilesIn(m) \ {Root} : FileAt(m, f) = m[f[1]].ents[f[2]]
    BY <1>5, <1>7, FileAtFacts
  <1>9. \A b, j : b \in DirBlocks(m) /\ j \in 1..BLKFILES =>
          <<b, j>> \in FilesIn(m) /\ <<b, j>> # Root
    BY DEF FilesIn, Root
  <1>9a. \A b, j : <<b, j>> \in FilesIn(m) /\ <<b, j>> # Root =>
          b \in DirBlocks(m) /\ j \in 1..BLKFILES
    BY DEF FilesIn
  <1>10. \A f \in FilesIn(m) : FileAt(m, f) \in FileSet
    <2>1. m[Super].kind = "super" BY DEF Good
    <2>2. \A b \in DirBlocks(m) : b \in 1..(NBLOCKS - 1) BY <1>1, <1>2, <1>5
    <2>3. FileAt(m, Root) \in FileSet BY <1>1, <2>1, FileAtTyped
    <2>4. ASSUME NEW f \in FilesIn(m) \ {Root} PROVE FileAt(m, f) \in FileSet
      <3>1. FileAt(m, <<f[1], f[2]>>) \in FileSet BY <1>1, <1>7, <2>1, <2>2, FileAtTyped
      <3> QED BY <3>1, <1>7
    <2> QED BY <2>3, <2>4
  <1>11. Root \in FilesIn(m) BY DEF FilesIn
  <1> QED BY <1>1, <1>2, <1>3, <1>4, <1>5, <1>6, <1>7, <1>8, <1>9, <1>9a, <1>10, <1>11

\* Two caches that agree on the block of f agree on f.
LEMMA FileBlock ==
  ASSUME NEW d, NEW m, NEW f, f[1] = IF f = Root THEN Super ELSE f[1], d[f[1]] = m[f[1]]
  PROVE  FileAt(d, f) = FileAt(m, f)
PROOF
  <1>1. CASE f = Root
    <2>1. d[Super] = m[Super] BY <1>1 DEF Root
    <2> QED BY <1>1, <2>1, FileAtFacts
  <1>2. CASE f # Root
    <2>1. Ents([mem |-> d], f[1]) = Ents([mem |-> m], f[1]) BY DEF Ents
    <2> QED BY <1>2, <2>1, Zenon DEF FileAt, Get
  <1> QED BY <1>1, <1>2

\* What good blocks say of a value that is a block number.
LEMMA OwnFacts ==
  ASSUME NEW m, Good(m), NEW f \in FilesIn(m), NEW k \in Places, Val(m, f, k) \notin {0, Bad}
  PROVE  /\ Val(m, f, k) \in Nums /\ Val(m, f, k) \notin m[Bitmap].free
         /\ \A g \in FilesIn(m), l \in Places : Val(m, g, l) = Val(m, f, k) => g = f /\ l = k
PROOF
  <1>1. /\ Val(m, f, k) > Bitmap /\ Val(m, f, k) \notin m[Bitmap].free
        /\ \A g \in FilesIn(m), l \in Places : Val(m, g, l) = Val(m, f, k) => g = f /\ l = k
    BY DEF Good, Own
  <1>2. FileAt(m, f) \in FileSet BY GoodFiles
  <1>3. Val(m, f, k) \in Pointers
    <2>1. CASE k <= NDIRECT
      BY <1>2, <2>1, Sizing DEF Val, Ptr, FileSet, FileNumbers, Pointers, Places
    <2>2. CASE ~(k <= NDIRECT)
      <3>1. CASE FileAt(m, f).indirect \in {0, Bad} BY <2>2, <3>1, Sizing DEF Val, Pointers
      <3>2. CASE FileAt(m, f).indirect \notin {0, Bad}
        <4> DEFINE i == FileAt(m, f).indirect
        <4>1. m[i].kind = "indirect" BY <3>2 DEF Good
        <4>2. i \in DOMAIN m BY <1>2, <3>2, GoodFiles, Sizing DEF FileSet, Pointers
        <4>3. m[i].bytes \in [0..(NINDIRECT - 1) -> 0..(NBLOCKS - 1)]
          BY <4>1, <4>2, GoodFiles, KindFacts
        <4>4. k - NDIRECT - 1 \in 0..(NINDIRECT - 1) BY <2>2, Sizing DEF Places
        <4>5. Val(m, f, k) = m[i].bytes[k - NDIRECT - 1] BY <2>2, <3>2 DEF Val
        <4> QED BY <4>3, <4>4, <4>5, Sizing DEF Pointers
      <3> QED BY <3>1, <3>2
    <2> QED BY <2>1, <2>2
  <1> QED BY <1>1, <1>3, Sizing DEF Nums, Pointers

\* The direct pointers and the indirect one are values.
LEMMA PtrVal ==
  ASSUME NEW m, NEW f, NEW k \in 0..NDIRECT PROVE k \in Places /\ Val(m, f, k) = Ptr(m, f, k)
BY Sizing DEF Val, Places

-----------------------------------------------------------------------------
(* The disk below a good cache *)

\* A disk that lacks only pointers of the cache may be left by a crash.
LEMMA BelowGoodDisk ==
  ASSUME NEW m, Good(m), NEW d \in BlockSet, Below(d, m, {})
  PROVE  GoodDisk(d)
PROOF
  <1> DEFINE s == [mem |-> d]
  <1>1. d[Super] \in Contents /\ d[Bitmap] \in Contents BY Sizing DEF BlockSet
  <1>2. Mountable(d)
    <2>1. d[Bitmap].free \in SUBSET Nums BY <1>1, KindFacts DEF Below
    <2>2. {1, 2} \cap d[Bitmap].free = {} BY <2>1, Sizing DEF Nums
    <2> QED BY <2>2 DEF Mountable, check_super, check_bitmap, Below
  <1>3. ASSUME NEW f \in Files(s) PROVE f \in FilesIn(m)
    <2>1. CASE f = Root BY <2>1 DEF FilesIn
    <2>2. CASE f # Root
      <3>1. PICK x \in DirSlots(s) : f = At(s, x) BY <1>3, <2>2 DEF Files
      <3>2. Get(s, Root) = d[Super].root BY FileAtFacts DEF FileAt
      <3>3. x[1] \in FileNumbers /\ x[2] \in 1..BLKFILES /\ x[1] < d[Super].root.size
        BY <3>1, <3>2 DEF DirSlots, FileNumbers
      <3>4. f = <<m[Super].root.direct[x[1]], x[2]>> BY <3>1, <3>2, <3>3 DEF At, Below
      <3>5. x[1] < m[Super].root.size
        <4>1. d[Super].root.size \in Nat /\ m[Super].root.size \in Nat
          BY <1>1, KindFacts, Sizing DEF Below, FileSet, Good, RootGood
        <4> QED BY <3>3, <4>1 DEF Below, FileNumbers
      <3>6. m[Super].root.direct[x[1]] \in DirBlocks(m) BY <3>3, <3>5 DEF DirBlocks
      <3> QED BY <3>3, <3>4, <3>6 DEF FilesIn
    <2> QED BY <2>1, <2>2
  <1>4. ASSUME NEW x \in Directs(s)
        PROVE  /\ x[1] \in FilesIn(m) /\ x[2] \in 0..NDIRECT /\ x = <<x[1], x[2]>>
               /\ Pointer(s, x) = Val(m, x[1], x[2]) /\ Pointer(s, x) \notin {0, Bad}
    <2>1. x[1] \in Files(s) /\ x[2] \in 0..NDIRECT /\ x = <<x[1], x[2]>>
          /\ Direct(s, x) \notin {0, Bad}
      BY <1>4 DEF Directs
    <2>2. Direct(s, x) = Ptr(d, x[1], x[2]) BY DEF Direct, Ptr, FileAt
    <2>3. Pointer(s, x) = Direct(s, x) BY <2>1, Sizing DEF Pointer
    <2>4. x[1] \in FilesIn(m) BY <1>3, <2>1
    <2>5. Ptr(d, x[1], x[2]) \in {0, Bad, Ptr(m, x[1], x[2])} BY <2>1, <2>4 DEF Below
    <2>6. Val(m, x[1], x[2]) = Ptr(m, x[1], x[2]) BY <2>1, PtrVal
    <2> QED BY <2>1, <2>2, <2>3, <2>4, <2>5, <2>6
  <1>5. ASSUME NEW x \in Directs(s)
        PROVE  /\ Pointer(s, x) > Bitmap /\ Pointer(s, x) \notin d[Bitmap].free
               /\ \A y \in Directs(s) : x # y => Pointer(s, x) # Pointer(s, y)
    <2>1. x[2] \in Places BY <1>4, Sizing DEF Places
    <2>2. \A y \in Directs(s) : y[2] \in Places BY <1>4, Sizing DEF Places
    <2>3. /\ Val(m, x[1], x[2]) \in Nums /\ Val(m, x[1], x[2]) \notin m[Bitmap].free
          /\ \A g \in FilesIn(m), l \in Places :
               Val(m, g, l) = Val(m, x[1], x[2]) => g = x[1] /\ l = x[2]
      BY <1>4, <2>1, OwnFacts
    <2>4. \A y \in Directs(s) : Pointer(s, x) = Pointer(s, y) => x[1] = y[1] /\ x[2] = y[2]
      BY <1>4, <2>2, <2>3
    <2>5. \A y \in Directs(s) : x # y => Pointer(s, x) # Pointer(s, y) BY <1>4, <2>4
    <2>6. Pointer(s, x) \in Nums /\ Pointer(s, x) \notin d[Bitmap].free
      BY <1>4, <2>3 DEF Below
    <2> QED BY <2>5, <2>6, Sizing DEF Nums
  <1>6. OwnedOnce(s, Directs(s))
    <2> HIDE DEF s
    <2>1. s.mem = d BY DEF s
    <2> QED BY <1>5, <2>1, Zenon DEF OwnedOnce
  <1> QED BY <1>2, <1>6 DEF GoodDisk

\* Writing block b to the disk brings the disk closer to the cache, also the
\* files of b that are being truncated.
LEMMA FlushBelow ==
  ASSUME NEW m, Good(m), NEW d \in BlockSet, NEW X, Below(d, m, X), NEW b \in DOMAIN m,
         \A f \in X : f \in FilesIn(m) /\ f[1] = b
  PROVE  LET e == [d EXCEPT ![b] = m[b]] IN e \in BlockSet /\ Below(e, m, {})
PROOF
  <1> DEFINE e == [d EXCEPT ![b] = m[b]]
  <1>1. e \in BlockSet /\ e[b] = m[b] /\ \A c \in DOMAIN m : c # b => e[c] = d[c]
    BY GoodFiles DEF BlockSet
  <1> HIDE DEF e
  <1>2. Super \in DOMAIN m /\ Bitmap \in DOMAIN m /\ DOMAIN d = DOMAIN m /\ DOMAIN e = DOMAIN m
    BY <1>1, GoodFiles DEF BlockSet
  <1>3. e[Super] \in {d[Super], m[Super]} /\ e[Bitmap] \in {d[Bitmap], m[Bitmap]}
    BY <1>1, <1>2
  <1>4. e[Super].kind = "super" /\ e[Bitmap].kind = "bitmap"
        /\ e[Bitmap].free \subseteq m[Bitmap].free
    BY <1>3 DEF Below, Good
  <1>5. /\ e[Super].root.size <= m[Super].root.size
        /\ \A k \in FileNumbers :
             k < e[Super].root.size => e[Super].root.direct[k] = m[Super].root.direct[k]
    <2>1. m[Super].root.size <= m[Super].root.size BY DEF Good, RootGood
    <2> QED BY <1>3, <2>1 DEF Below
  <1>6. \A c \in DOMAIN e : e[c].kind = "dir" => m[c].kind = "dir" BY <1>1, <1>2 DEF Below
  <1>7. ASSUME NEW f \in FilesIn(m), NEW k \in 0..NDIRECT
        PROVE Ptr(e, f, k) \in {0, Bad, Ptr(m, f, k)}
    <2>1. f[1] \in DOMAIN m /\ (f = Root => f[1] = Super)
      <3>1. f = Root => f[1] = Super BY DEF Root
      <3>2. f # Root => f[1] \in DOMAIN m BY GoodFiles, Sizing DEF Nums
      <3> QED BY <1>2, <3>1, <3>2
    <2>2. CASE f[1] = b
      <3>1. FileAt(e, f) = FileAt(m, f) BY <1>1, <2>1, <2>2, FileBlock
      <3> QED BY <3>1 DEF Ptr
    <2>3. CASE f[1] # b
      <3>1. FileAt(e, f) = FileAt(d, f) BY <1>1, <2>1, <2>3, FileBlock
      <3>2. f \notin X BY <2>3
      <3> QED BY <3>1, <3>2 DEF Ptr, Below
    <2> QED BY <2>2, <2>3
  <1>8. Below(e, m, {}) BY <1>4, <1>5, <1>6, <1>7 DEF Below
  <1> QED BY <1>1, <1>8 DEF e

-----------------------------------------------------------------------------
(* Steps of the cache *)

\* A step that changes no directory entry but the one of f0, takes pointers
\* away, and gives one place a block that nobody had.
LEMMA GoodStep ==
  ASSUME NEW m, Good(m), NEW n \in BlockSet, n[Super] = m[Super], n[Bitmap].kind = "bitmap",
         \A b \in DOMAIN m : n[b].kind = "dir" <=> m[b].kind = "dir",
         \A f \in FilesIn(m) :
           FileAt(n, f).indirect \notin {0, Bad} => n[FileAt(n, f).indirect].kind = "indirect",
         NEW f0, NEW k0,
         \A f \in FilesIn(m), k \in Places :
           /\ ~(f = f0 /\ k = k0) => Val(n, f, k) \in {0, Bad, Val(m, f, k)}
           /\ Val(n, f, k) \notin {0, Bad} => Val(n, f, k) \notin n[Bitmap].free,
         \/ Val(n, f0, k0) \in {0, Bad, Val(m, f0, k0)}
         \/ /\ Val(n, f0, k0) \in Nums
            /\ \A f \in FilesIn(m), k \in Places : Val(m, f, k) # Val(n, f0, k0)
  PROVE  Good(n) /\ FilesIn(n) = FilesIn(m)
PROOF
  <1>1. DirBlocks(n) = DirBlocks(m) /\ FilesIn(n) = FilesIn(m) BY DEF DirBlocks, FilesIn
  <1>2. DOMAIN n = DOMAIN m BY GoodFiles DEF BlockSet
  <1>3. RootGood(n)
    <2>1. \A k \in FileNumbers : m[Super].root.direct[k] \in Nums => m[Super].root.direct[k] \in DOMAIN m
      BY GoodFiles, Sizing DEF Nums
    <2> QED BY <2>1 DEF Good, RootGood
  <1>4. \A b \in DOMAIN n : n[b].kind = "dir" => b \in DirBlocks(n) BY <1>1, <1>2 DEF Good
  <1>5. ASSUME NEW f \in FilesIn(m), NEW k \in Places, Val(n, f, k) \notin {0, Bad}
        PROVE /\ Val(n, f, k) \in Nums
              /\ \A g \in FilesIn(m), l \in Places : Val(n, g, l) = Val(n, f, k) => g = f /\ l = k
    <2>1. CASE Val(n, f, k) = Val(m, f, k)
      <3>1. /\ Val(m, f, k) \in Nums
            /\ \A g \in FilesIn(m), l \in Places : Val(m, g, l) = Val(m, f, k) => g = f /\ l = k
        BY <1>5, <2>1, OwnFacts
      <3>2. ASSUME NEW g \in FilesIn(m), NEW l \in Places, Val(n, g, l) = Val(n, f, k)
            PROVE g = f /\ l = k
        <4>1. CASE Val(n, g, l) = Val(m, g, l) BY <2>1, <3>1, <3>2, <4>1
        <4>2. CASE Val(n, g, l) # Val(m, g, l)
          <5>1. g = f0 /\ l = k0 BY <1>5, <3>2, <4>2
          <5>2. Val(m, f, k) # Val(n, f0, k0) BY <1>5, <3>2, <4>2, <5>1
          <5> QED BY <2>1, <3>2, <5>1, <5>2
        <4> QED BY <4>1, <4>2
      <3> QED BY <2>1, <3>1, <3>2
    <2>2. CASE Val(n, f, k) # Val(m, f, k)
      <3>1. f = f0 /\ k = k0 BY <1>5, <2>2
      <3>2. /\ Val(n, f, k) \in Nums
            /\ \A g \in FilesIn(m), l \in Places : Val(m, g, l) # Val(n, f, k)
        BY <1>5, <2>2, <3>1
      <3>3. ASSUME NEW g \in FilesIn(m), NEW l \in Places, Val(n, g, l) = Val(n, f, k)
            PROVE g = f /\ l = k
        <4>1. Val(n, g, l) \notin {0, Bad, Val(m, g, l)} BY <1>5, <3>2, <3>3
        <4> QED BY <3>1, <4>1
      <3> QED BY <3>2, <3>3
    <2> QED BY <2>1, <2>2
  <1>6. Own(n)
    <2>1. \A x \in Nums : x > Bitmap BY Sizing DEF Nums
    <2> QED BY <1>1, <1>5, <2>1 DEF Own
  <1>7. n[Super].kind = "super" BY DEF Good
  <1> QED BY <1>1, <1>3, <1>4, <1>6, <1>7 DEF Good

\* The same step seen from the disk: what is free stays free, what changes
\* was no pointer or belongs to a file of Y.
LEMMA BelowStep ==
  ASSUME NEW m, Good(m), NEW d \in BlockSet, NEW X, NEW Y, X \subseteq Y, Below(d, m, X), NEW n,
         n[Super] = m[Super], m[Bitmap].free \subseteq n[Bitmap].free,
         \A b \in DOMAIN m : n[b].kind = "dir" <=> m[b].kind = "dir",
         \A f \in FilesIn(m) \ Y, k \in 0..NDIRECT :
           Ptr(m, f, k) \in {0, Bad} \/ Ptr(n, f, k) = Ptr(m, f, k)
  PROVE  Below(d, n, Y)
PROOF
  <1>1. FilesIn(n) = FilesIn(m) BY DEF DirBlocks, FilesIn
  <1>2. DOMAIN d = DOMAIN m BY GoodFiles DEF BlockSet
  <1>3. \A f \in FilesIn(n) \ Y, k \in 0..NDIRECT : Ptr(d, f, k) \in {0, Bad, Ptr(n, f, k)}
    BY <1>1 DEF Below
  <1> QED BY <1>2, <1>3 DEF Below

\* A write to a block that is neither a directory's nor the indirect block of
\* f leaves what f points to.
LEMMA OtherBlock ==
  ASSUME NEW m, Good(m), NEW b, b # Super, m[b].kind # "dir",
         NEW n, \A a \in DOMAIN m : a # b => n[a] = m[a],
         NEW f \in FilesIn(m), FileAt(m, f).indirect # b
  PROVE  FileAt(n, f) = FileAt(m, f) /\ \A k \in Places : Val(n, f, k) = Val(m, f, k)
PROOF
  <1>1. \A a \in DOMAIN m : a # b => n[a] = m[a] OBVIOUS
  <1>2. f[1] \in DOMAIN m /\ f[1] # b /\ (f = Root => f[1] = Super)
    <2>1. f = Root => f[1] = Super BY DEF Root
    <2>2. f # Root => f[1] \in DOMAIN m /\ m[f[1]].kind = "dir" BY GoodFiles, Sizing DEF Nums
    <2>3. Super \in DOMAIN m BY GoodFiles
    <2> QED BY <2>1, <2>2, <2>3
  <1>3. FileAt(n, f) = FileAt(m, f) BY <1>1, <1>2, FileBlock
  <1>4. FileAt(m, f).indirect \in DOMAIN m \/ FileAt(m, f).indirect \in {0, Bad}
    BY GoodFiles, Sizing DEF FileSet, Pointers
  <1>5. FileAt(m, f).indirect \notin {0, Bad} => n[FileAt(m, f).indirect] = m[FileAt(m, f).indirect]
    BY <1>1, <1>4
  <1>6. ASSUME NEW k \in Places PROVE Val(n, f, k) = Val(m, f, k)
    BY <1>3, <1>5 DEF Val, Ptr
  <1> QED BY <1>3, <1>6

-----------------------------------------------------------------------------
(* bc.c and the bitmap on states *)

\* What a write to the cache does.
LEMMA PutIs ==
  ASSUME NEW s \in StateSet, NEW b \in 1..(NBLOCKS - 1), NEW c \in Contents
  PROVE  /\ Put(s, b, c) \in StateSet
         /\ Put(s, b, c).mem = [s.mem EXCEPT ![b] = c]
         /\ Put(s, b, c).disk = s.disk /\ Put(s, b, c).images = s.images
         /\ Put(s, b, c).ok = s.ok
BY DEF Put, StateSet, BlockSet

\* What a panic does.
LEMMA PanicIs ==
  ASSUME NEW s \in StateSet
  PROVE  /\ panic(s) \in StateSet
         /\ panic(s).mem = s.mem /\ panic(s).disk = s.disk
         /\ panic(s).images = s.images /\ panic(s).ok = FALSE
BY DEF panic, StateSet

\* What flush_block does.
LEMMA FlushIs ==
  ASSUME NEW s \in StateSet, NEW b \in 1..(NBLOCKS - 1)
  PROVE  /\ flush_block(s, b) \in StateSet
         /\ flush_block(s, b).mem = s.mem /\ flush_block(s, b).ok = s.ok
         /\ flush_block(s, b).disk = [s.disk EXCEPT ![b] = s.mem[b]]
         /\ flush_block(s, b).images = s.images \cup {[s.disk EXCEPT ![b] = s.mem[b]]}
PROOF
  <1>1. [s.disk EXCEPT ![b] = s.mem[b]] \in BlockSet BY DEF StateSet, BlockSet
  <1> QED BY <1>1 DEF flush_block, StateSet

\* A panic changes no block.
LEMMA PanicSafe ==
  ASSUME NEW s, NEW X, Safe(s, X) PROVE Safe(panic(s), X)
BY PanicIs DEF Safe

\* flush_block is safe at any time; it ends the truncation of a file of b.
LEMMA FlushSafe ==
  ASSUME NEW s, NEW X, Safe(s, X), NEW b \in 1..(NBLOCKS - 1),
         \A f \in X : f \in FilesIn(s.mem) /\ f[1] = b
  PROVE  /\ Safe(flush_block(s, b), {})
         /\ flush_block(s, b).mem = s.mem /\ flush_block(s, b).ok = s.ok
PROOF
  <1>1. s \in StateSet /\ Good(s.mem) /\ Below(s.disk, s.mem, X) /\ s.disk \in BlockSet
        /\ \A d \in s.images : GoodDisk(d)
    BY DEF Safe, StateSet
  <1> DEFINE e == [s.disk EXCEPT ![b] = s.mem[b]]
  <1>2. e \in BlockSet /\ Below(e, s.mem, {}) BY <1>1, GoodFiles, FlushBelow
  <1>3. GoodDisk(e) BY <1>1, <1>2, BelowGoodDisk
  <1>4. /\ flush_block(s, b) \in StateSet
        /\ flush_block(s, b).mem = s.mem /\ flush_block(s, b).ok = s.ok
        /\ flush_block(s, b).disk = e /\ flush_block(s, b).images = s.images \cup {e}
    BY <1>1, FlushIs
  <1> HIDE DEF e
  <1> QED BY <1>1, <1>2, <1>3, <1>4 DEF Safe

\* The least of a nonempty set of numbers.
LEMMA MinNat ==
  ASSUME NEW S, S \subseteq Nat, S # {} PROVE \E m \in S : \A y \in S : m <= y
PROOF
  <1> DEFINE Less == OpToRel(<, Nat)
  <1>1. \A x, y \in Nat : y < x => <<y, x>> \in Less BY DEF OpToRel
  <1>2. IsWellFoundedOn(Less, Nat) BY NatLessThanWellFounded
  <1> HIDE DEF Less
  <1>3. PICK m \in S : \A y \in S : ~(<<y, m>> \in Less) BY <1>2, WFMin
  <1>4. ASSUME NEW y \in S PROVE m <= y
    <2>1. ~(y < m) BY <1>1, <1>3, Zenon
    <2> QED BY <2>1
  <1> QED BY <1>4

\* The blocks of the root directory have an owner.
LEMMA DirOwned ==
  ASSUME NEW m, Good(m), NEW b \in DirBlocks(m)
  PROVE  \E k \in Places : Val(m, Root, k) = b
PROOF
  <1>1. PICK k \in FileNumbers : b = m[Super].root.direct[k] BY DEF DirBlocks
  <1>2. k \in 0..NDIRECT /\ k # NDIRECT BY Sizing DEF FileNumbers
  <1>3. Val(m, Root, k) = b BY <1>1, <1>2, PtrVal, FileAtFacts DEF Ptr
  <1> QED BY <1>2, <1>3, PtrVal

\* The bitmap may become any set of blocks that nobody has.
LEMMA BitmapStep ==
  ASSUME NEW m, Good(m), NEW F \in SUBSET Nums,
         \A f \in FilesIn(m), k \in Places : Val(m, f, k) \notin F
  PROVE  LET n == [m EXCEPT ![Bitmap] = BitmapBlock(F)]
         IN /\ Good(n) /\ FilesIn(n) = FilesIn(m) /\ n[Super] = m[Super] /\ n[Bitmap].free = F
            /\ \A b \in DOMAIN m : b # Bitmap => n[b] = m[b]
            /\ \A b \in DOMAIN m : n[b].kind = "dir" <=> m[b].kind = "dir"
            /\ \A f \in FilesIn(m) :
                 FileAt(n, f) = FileAt(m, f) /\ \A k \in Places : Val(n, f, k) = Val(m, f, k)
PROOF
  <1> DEFINE n == [m EXCEPT ![Bitmap] = BitmapBlock(F)]
  <1>1. BitmapBlock(F) \in Contents BY MakeFacts
  <1>2. /\ n \in BlockSet /\ n[Bitmap] = BitmapBlock(F)
        /\ \A b \in DOMAIN m : b # Bitmap => n[b] = m[b]
    BY <1>1, GoodFiles DEF BlockSet
  <1>3. n[Super] = m[Super] /\ n[Bitmap].kind = "bitmap" /\ n[Bitmap].free = F
    BY <1>2, GoodFiles, MadeKinds, Sizing
  <1>4. m[Bitmap].kind = "bitmap" BY DEF Good
  <1>5. \A b \in DOMAIN m : n[b].kind = "dir" <=> m[b].kind = "dir" BY <1>2, <1>3, <1>4
  <1>6. ASSUME NEW f \in FilesIn(m)
        PROVE  /\ FileAt(n, f) = FileAt(m, f) /\ \A k \in Places : Val(n, f, k) = Val(m, f, k)
               /\ FileAt(n, f).indirect \notin {0, Bad} => n[FileAt(n, f).indirect].kind = "indirect"
    <2>1. FileAt(m, f).indirect \notin {0, Bad} => m[FileAt(m, f).indirect].kind = "indirect"
      BY DEF Good
    <2>2. FileAt(m, f).indirect # Bitmap BY <1>4, <2>1, Sizing
    <2>3. FileAt(n, f) = FileAt(m, f) /\ \A k \in Places : Val(n, f, k) = Val(m, f, k)
      <3> HIDE DEF n
      <3>1. Bitmap # Super /\ m[Bitmap].kind # "dir" BY <1>4, Sizing
      <3> QED BY <1>2, <2>2, <3>1, OtherBlock
    <2>4. FileAt(m, f).indirect \in DOMAIN m \/ FileAt(m, f).indirect \in {0, Bad}
      BY GoodFiles, Sizing DEF FileSet, Pointers
    <2> QED BY <1>2, <2>1, <2>2, <2>3, <2>4
  <1> HIDE DEF n
  <1>7. Good(n) /\ FilesIn(n) = FilesIn(m)
    <2>1. \A f \in FilesIn(m), k \in Places :
            /\ Val(n, f, k) = Val(m, f, k)
            /\ Val(n, f, k) \notin {0, Bad} => Val(n, f, k) \notin n[Bitmap].free
      BY <1>3, <1>6
    <2>2. Root \in FilesIn(m) /\ 0 \in Places BY GoodFiles, Sizing DEF Places
    <2>3. Val(n, Root, 0) = Val(m, Root, 0) BY <2>1, <2>2
    <2> QED BY <1>2, <1>3, <1>5, <1>6, <2>1, <2>3, GoodStep
  <1> QED BY <1>2, <1>3, <1>5, <1>6, <1>7 DEF n

\* alloc_block: the block it returns has no owner and is not free any more,
\* in the cache and on the disk.
LEMMA AllocSafe ==
  ASSUME NEW s, Safe(s, {})
  PROVE  LET a == alloc_block(s) IN
         /\ Safe(a.s, {}) /\ a.s.ok = s.ok
         /\ a.s.mem[Super] = s.mem[Super] /\ FilesIn(a.s.mem) = FilesIn(s.mem)
         /\ \A b \in DOMAIN s.mem : b # Bitmap => a.s.mem[b] = s.mem[b]
         /\ \A f \in FilesIn(s.mem) :
              /\ FileAt(a.s.mem, f) = FileAt(s.mem, f)
              /\ \A k \in Places : Val(a.s.mem, f, k) = Val(s.mem, f, k)
         /\ a.b # Bad =>
              /\ a.b \in Nums /\ a.b \notin a.s.mem[Bitmap].free /\ a.s.mem[a.b].kind # "dir"
              /\ \A f \in FilesIn(s.mem), k \in Places : Val(a.s.mem, f, k) # a.b
PROOF
  <1> DEFINE m == s.mem
             free == m[Bitmap].free
             b == CHOOSE x \in free : \A y \in free : x <= y
             F == free \ SameWord(b)
             n == [m EXCEPT ![Bitmap] = BitmapBlock(F)]
  <1>1. /\ s \in StateSet /\ Good(m) /\ Below(s.disk, m, {}) /\ s.disk \in BlockSet
        /\ \A d \in s.images : GoodDisk(d)
    BY DEF Safe, StateSet
  <1>2. CASE free = {}
    <2>1. alloc_block(s) = [s |-> s, b |-> Bad] BY <1>2, Zenon DEF alloc_block
    <2> QED BY <2>1
  <1>3. CASE free # {}
    <2>1. free \in SUBSET Nums BY <1>1, GoodFiles
    <2>2. free \subseteq Nat BY <2>1, Sizing DEF Nums
    <2>3. \E x \in free : \A y \in free : x <= y BY <1>3, <2>2, MinNat
    <2>4. b \in free BY <2>3
    <2> HIDE DEF b
    <2>5. b \in SameWord(b) BY <2>1, <2>4, Sizing DEF SameWord, Nums
    <2>6. F \in SUBSET Nums BY <2>1
    <2>7. \A f \in FilesIn(m), k \in Places : Val(m, f, k) \notin free
      <3>1. 0 \notin free /\ Bad \notin free BY <2>1, Sizing DEF Nums
      <3> QED BY <1>1, <3>1, OwnFacts
    <2>8. \A f \in FilesIn(m), k \in Places : Val(m, f, k) \notin F BY <2>7
    <2>9. /\ Good(n) /\ FilesIn(n) = FilesIn(m) /\ n[Super] = m[Super] /\ n[Bitmap].free = F
          /\ \A c \in DOMAIN m : c # Bitmap => n[c] = m[c]
          /\ \A c \in DOMAIN m : n[c].kind = "dir" <=> m[c].kind = "dir"
          /\ \A f \in FilesIn(m) :
               FileAt(n, f) = FileAt(m, f) /\ \A k \in Places : Val(n, f, k) = Val(m, f, k)
      BY <1>1, <2>6, <2>8, BitmapStep, ZenonT(60)
    <2> DEFINE t == [s EXCEPT !.mem[Bitmap].free = @ \ SameWord(b)]
               a == [s |-> flush_block(t, Bitmap), b |-> b]
               e == [s.disk EXCEPT ![Bitmap] = n[Bitmap]]
    <2>10. alloc_block(s) = a BY <1>3, Zenon DEF alloc_block, b
    <2>11. Bitmap \in DOMAIN m /\ m[Bitmap] = BitmapBlock(free)
      BY <1>1, GoodFiles, KindFacts DEF Good
    <2>12. t \in StateSet /\ t.mem = n /\ t.disk = s.disk /\ t.images = s.images /\ t.ok = s.ok
      <3>1. [m[Bitmap] EXCEPT !.free = @ \ SameWord(b)] = BitmapBlock(F)
        BY <2>11 DEF BitmapBlock
      <3>2. t = [s EXCEPT !.mem = n] BY <2>11, <3>1 DEF StateSet
      <3>3. n \in BlockSet BY <2>9 DEF Good
      <3> QED BY <1>1, <3>2, <3>3 DEF StateSet
    <2>13. Bitmap \in 1..(NBLOCKS - 1) BY Sizing
    <2> HIDE DEF t
    <2>14. /\ a.s \in StateSet /\ a.s.mem = n /\ a.s.ok = s.ok /\ a.s.disk = e
           /\ a.s.images = s.images \cup {e} /\ a.b = b
      <3> HIDE DEF n
      <3>1. t.mem[Bitmap] = n[Bitmap] BY <2>12
      <3>2. a.s = flush_block(t, Bitmap) /\ a.b = b OBVIOUS
      <3> QED BY <2>12, <2>13, <3>1, <3>2, FlushIs
    <2> HIDE DEF n, F
    <2>15. e \in BlockSet /\ e[Bitmap] = n[Bitmap]
           /\ \A c \in DOMAIN m : c # Bitmap => e[c] = s.disk[c]
      BY <1>1, <2>9, <2>13, GoodFiles DEF BlockSet
    <2> HIDE DEF e
    <2>16. Below(e, n, {})
      <3>1. DOMAIN e = DOMAIN m /\ DOMAIN m = DOMAIN n /\ DOMAIN m = 1..(NBLOCKS - 1)
        BY <1>1, <2>9, <2>15, GoodFiles DEF BlockSet
      <3>2. e[Super] = s.disk[Super] BY <2>15, <3>1, Sizing
      <3>3. n[Bitmap].kind = "bitmap" BY <2>9 DEF Good
      <3>4. \A c \in DOMAIN e : e[c].kind = "dir" => n[c].kind = "dir"
        <4>1. \A c \in DOMAIN s.disk : s.disk[c].kind = "dir" => m[c].kind = "dir"
          BY <1>1 DEF Below
        <4>2. DOMAIN s.disk = DOMAIN m BY <1>1, <3>1 DEF BlockSet
        <4> QED BY <2>9, <2>15, <3>1, <3>3, <4>1, <4>2
      <3>5. ASSUME NEW f \in FilesIn(n), NEW k \in 0..NDIRECT
            PROVE Ptr(e, f, k) \in {0, Bad, Ptr(n, f, k)}
        <4>1. f \in FilesIn(m) BY <2>9
        <4>2. f[1] \in DOMAIN m /\ f[1] # Bitmap /\ (f = Root => f[1] = Super)
          <5>1. f = Root => f[1] = Super BY DEF Root
          <5>2. f # Root => f[1] \in Nums BY <1>1, <4>1, GoodFiles
          <5> QED BY <3>1, <5>1, <5>2, Sizing DEF Nums
        <4>3. FileAt(e, f) = FileAt(s.disk, f) BY <2>15, <4>2, FileBlock
        <4>4. FileAt(n, f) = FileAt(m, f) BY <2>9, <4>1
        <4> QED BY <1>1, <4>1, <4>3, <4>4 DEF Ptr, Below
      <3> QED BY <1>1, <2>9, <2>15, <3>2, <3>3, <3>4, <3>5 DEF Below
    <2>17. GoodDisk(e) BY <2>9, <2>15, <2>16, BelowGoodDisk
    <2>18. Safe(a.s, {}) BY <1>1, <2>9, <2>14, <2>16, <2>17 DEF Safe
    <2>19. b \in Nums /\ b \in DOMAIN m /\ b # Bitmap
      BY <1>1, <2>1, <2>4, GoodFiles, Sizing DEF Nums
    <2>20. n[b].kind # "dir"
      <3>1. m[b].kind = "dir" => b \in DirBlocks(m) BY <1>1, <2>19 DEF Good
      <3>2. b \notin DirBlocks(m) BY <1>1, <2>4, <2>7, DirOwned, GoodFiles
      <3> QED BY <2>9, <2>19, <3>1, <3>2
    <2>21. \A f \in FilesIn(m), k \in Places : Val(n, f, k) # b BY <2>4, <2>7, <2>9
    <2>22. b \notin n[Bitmap].free BY <2>5, <2>9 DEF F
    <2> QED BY <2>9, <2>10, <2>14, <2>18, <2>19, <2>20, <2>21, <2>22
  <1> QED BY <1>2, <1>3

-----------------------------------------------------------------------------
(* Entries and slots *)

\* The blocks m after a write of file to the entry of f.
WithEntry(m, f, file) == [m EXCEPT ![f[1]] = DirBlock([m[f[1]].ents EXCEPT ![f[2]] = file])]

\* A write to the entry of f changes f alone.
LEMMA EntryStep ==
  ASSUME NEW m, Good(m), NEW f \in FilesIn(m) \ {Root}, NEW file \in FileSet,
         NEW n, n = WithEntry(m, f, file)
  PROVE  /\ n \in BlockSet /\ n[Super] = m[Super] /\ n[Bitmap] = m[Bitmap]
         /\ \A b \in DOMAIN m : b # f[1] => n[b] = m[b]
         /\ \A b \in DOMAIN m : n[b].kind = m[b].kind
         /\ FileAt(n, f) = file
         /\ \A g \in FilesIn(m) \ {f} :
              FileAt(n, g) = FileAt(m, g) /\ \A k \in Places : Val(n, g, k) = Val(m, g, k)
         /\ file.indirect = FileAt(m, f).indirect =>
              \A k \in Places : k > NDIRECT => Val(n, f, k) = Val(m, f, k)
PROOF
  <1> DEFINE E == [m[f[1]].ents EXCEPT ![f[2]] = file]
  <1>1. /\ f[1] \in DirBlocks(m) /\ f[2] \in 1..BLKFILES /\ f = <<f[1], f[2]>>
        /\ m[f[1]].kind = "dir" /\ f[1] \in Nums /\ f[1] \in DOMAIN m
        /\ m[f[1]] \in Contents
    BY GoodFiles, Sizing DEF Nums
  <1>2. m[f[1]].ents \in [1..BLKFILES -> FileSet] BY <1>1, KindFacts
  <1>3. E \in [1..BLKFILES -> FileSet] /\ E[f[2]] = file
        /\ \A j \in 1..BLKFILES : j # f[2] => E[j] = m[f[1]].ents[j]
    BY <1>1, <1>2
  <1> HIDE DEF E
  <1>4. DirBlock(E) \in Contents /\ DirBlock(E).kind = "dir" /\ DirBlock(E).ents = E
    BY <1>3, MakeFacts, MadeKinds
  <1>5. n \in BlockSet /\ n[f[1]] = DirBlock(E) /\ \A b \in DOMAIN m : b # f[1] => n[b] = m[b]
    BY <1>1, <1>4, GoodFiles DEF BlockSet, E, WithEntry
  <1>6. n[Super] = m[Super] /\ n[Bitmap] = m[Bitmap]
    BY <1>1, <1>5, GoodFiles, Sizing DEF Nums
  <1>7. \A b \in DOMAIN m : n[b].kind = m[b].kind BY <1>1, <1>4, <1>5
  <1>8. FileAt(n, f) = file
    <2>1. FileAt(n, <<f[1], f[2]>>) = E[f[2]] BY <1>1, <1>4, <1>5, FileAtFacts
    <2> QED BY <1>1, <1>3, <2>1
  <1>9. ASSUME NEW g \in FilesIn(m), g # f PROVE FileAt(n, g) = FileAt(m, g)
    <2>1. CASE g = Root BY <1>6, <2>1, FileAtFacts
    <2>2. CASE g # Root
      <3>1. /\ g[1] \in DOMAIN m /\ g[2] \in 1..BLKFILES /\ g = <<g[1], g[2]>>
            /\ FileAt(m, g) = m[g[1]].ents[g[2]]
        BY <2>2, GoodFiles, Sizing DEF Nums
      <3>2. CASE g[1] = f[1]
        <4>1. g[2] # f[2] BY <1>1, <1>9, <3>1, <3>2
        <4>2. FileAt(n, <<g[1], g[2]>>) = E[g[2]] BY <1>4, <1>5, <3>1, <3>2, FileAtFacts
        <4> QED BY <1>3, <3>1, <3>2, <4>1, <4>2
      <3>3. CASE g[1] # f[1]
        <4>1. n[g[1]] = m[g[1]] BY <1>5, <3>1, <3>3
        <4> QED BY <2>2, <4>1, FileBlock
      <3> QED BY <3>2, <3>3
    <2> QED BY <2>1, <2>2
  <1>10. ASSUME NEW g \in FilesIn(m), FileAt(m, g).indirect \notin {0, Bad}
         PROVE n[FileAt(m, g).indirect] = m[FileAt(m, g).indirect]
    <2>1. m[FileAt(m, g).indirect].kind = "indirect" BY <1>10 DEF Good
    <2>2. FileAt(m, g).indirect \in DOMAIN m
      <3>1. FileAt(m, g).indirect \in Pointers BY GoodFiles DEF FileSet
      <3> QED BY <1>10, <3>1, GoodFiles, Sizing DEF Pointers
    <2> QED BY <1>1, <1>5, <2>1, <2>2
  <1>11. ASSUME NEW g \in FilesIn(m), g # f, NEW k \in Places PROVE Val(n, g, k) = Val(m, g, k)
    BY <1>9, <1>10, <1>11 DEF Val, Ptr
  <1>12. ASSUME file.indirect = FileAt(m, f).indirect, NEW k \in Places, k > NDIRECT
         PROVE Val(n, f, k) = Val(m, f, k)
    <2>1. ~(k <= NDIRECT) BY <1>12, Sizing DEF Places
    <2> QED BY <1>8, <1>10, <1>12, <2>1 DEF Val
  <1> QED BY <1>5, <1>6, <1>7, <1>8, <1>9, <1>11, <1>12

\* The place of block n of a file, the block of its slot, and what SetSlot
\* writes there.
Place(n) == IF n < NDIRECT THEN n ELSE n + 1
SlotBlock(m, f, n) == IF n < NDIRECT THEN f[1] ELSE FileAt(m, f).indirect
BytesWith(bytes, k, v) ==
  [j \in 0..(NINDIRECT - 1) |-> IF j = k THEN v ELSE IF j \in Covered(k) THEN 0 ELSE bytes[j]]
SlotContent(m, f, n, v) ==
  IF n < NDIRECT
  THEN DirBlock([m[f[1]].ents EXCEPT ![f[2]] = [FileAt(m, f) EXCEPT !.direct[n] = v]])
  ELSE IndirectBlock(BytesWith(m[FileAt(m, f).indirect].bytes, n - NDIRECT, v))
WithSlot(m, f, n, v) == [m EXCEPT ![SlotBlock(m, f, n)] = SlotContent(m, f, n, v)]

\* Writing a file of the directory, as a write to its block.
LEMMA SetIs ==
  ASSUME NEW s, NEW f, f # Root, s.mem[f[1]].kind = "dir", NEW file
  PROVE  Set(s, f, file) = Put(s, f[1], DirBlock([s.mem[f[1]].ents EXCEPT ![f[2]] = file]))
PROOF
  <1>1. Ents(s, f[1]) = s.mem[f[1]].ents BY DEF Ents
  <1> QED BY <1>1, Zenon DEF Set

\* Writing a block pointer, as a write to the block that holds it.
LEMMA SetSlotIs ==
  ASSUME NEW s, NEW f, f # Root, s.mem[f[1]].kind = "dir", NEW n, NEW v
  PROVE  SetSlot(s, f, n, v) = Put(s, SlotBlock(s.mem, f, n), SlotContent(s.mem, f, n, v))
PROOF
  <1>1. Get(s, f) = FileAt(s.mem, f) BY FileAtOf
  <1>2. CASE n < NDIRECT
    <2>1. SetSlot(s, f, n, v) = Set(s, f, [FileAt(s.mem, f) EXCEPT !.direct[n] = v])
      BY <1>1, <1>2, Zenon DEF SetSlot
    <2>2. Set(s, f, [FileAt(s.mem, f) EXCEPT !.direct[n] = v])
            = Put(s, f[1], DirBlock([s.mem[f[1]].ents EXCEPT
                                       ![f[2]] = [FileAt(s.mem, f) EXCEPT !.direct[n] = v]]))
      BY SetIs, Zenon
    <2> QED BY <1>2, <2>1, <2>2, Zenon DEF SlotBlock, SlotContent
  <1>3. CASE ~(n < NDIRECT)
    <2>1. SetSlot(s, f, n, v) = SetEntry(s, FileAt(s.mem, f).indirect, n - NDIRECT, v)
      BY <1>1, <1>3, Zenon DEF SetSlot
    <2> QED BY <1>3, <2>1, Zenon DEF SetEntry, SlotBlock, SlotContent, BytesWith
  <1> QED BY <1>2, <1>3

\* The bytes of an indirect block after a write of four of them.
LEMMA BytesWithFacts ==
  ASSUME NEW bytes \in [0..(NINDIRECT - 1) -> 0..(NBLOCKS - 1)], NEW k \in 0..(NINDIRECT - 1),
         NEW v \in 0..(NBLOCKS - 1)
  PROVE  /\ BytesWith(bytes, k, v) \in [0..(NINDIRECT - 1) -> 0..(NBLOCKS - 1)]
         /\ BytesWith(bytes, k, v)[k] = v
         /\ \A j \in 0..(NINDIRECT - 1) : j # k => BytesWith(bytes, k, v)[j] \in {0, bytes[j]}
BY Sizing DEF BytesWith

\* The indirect block of a file is a block of its own.
LEMMA IndirectOwned ==
  ASSUME NEW m, Good(m), NEW f \in FilesIn(m), FileAt(m, f).indirect \notin {0, Bad}
  PROVE  LET i == FileAt(m, f).indirect
         IN /\ i \in Nums /\ i \in DOMAIN m /\ m[i].kind = "indirect" /\ f # Root
            /\ i # Super /\ i # Bitmap
            /\ m[i].bytes \in [0..(NINDIRECT - 1) -> 0..(NBLOCKS - 1)]
            /\ \A g \in FilesIn(m) : g # f => FileAt(m, g).indirect # i
            /\ \A k \in Places : k > NDIRECT => Val(m, f, k) = m[i].bytes[k - NDIRECT - 1]
PROOF
  <1> DEFINE i == FileAt(m, f).indirect
  <1>1. NDIRECT \in 0..NDIRECT BY Sizing
  <1>2. \A g : NDIRECT \in Places /\ Val(m, g, NDIRECT) = FileAt(m, g).indirect
    BY <1>1, PtrVal DEF Ptr
  <1>3. i \in Nums /\ \A g \in FilesIn(m) : g # f => FileAt(m, g).indirect # i
    BY <1>2, OwnFacts
  <1>4. i \in DOMAIN m /\ i # Super /\ i # Bitmap BY <1>3, GoodFiles, Sizing DEF Nums
  <1>5. m[i].kind = "indirect" BY DEF Good
  <1>6. m[i].bytes \in [0..(NINDIRECT - 1) -> 0..(NBLOCKS - 1)] BY <1>4, <1>5, GoodFiles, KindFacts
  <1>7. f # Root BY FileAtFacts DEF Good, RootGood
  <1>8. \A k \in Places : k > NDIRECT => Val(m, f, k) = m[i].bytes[k - NDIRECT - 1]
    BY Sizing DEF Val, Places
  <1> QED BY <1>3, <1>4, <1>5, <1>6, <1>7, <1>8

\* SetSlot with 0 or a block that nobody has.
LEMMA SlotStep ==
  ASSUME NEW m, Good(m), NEW f \in FilesIn(m) \ {Root}, NEW n \in 0..(NDIRECT + NINDIRECT - 1),
         n >= NDIRECT => FileAt(m, f).indirect \notin {0, Bad},
         NEW v,
         \/ v = 0
         \/ /\ v \in Nums /\ v \notin m[Bitmap].free
            /\ \A g \in FilesIn(m), k \in Places : Val(m, g, k) # v,
         NEW w, w = WithSlot(m, f, n, v)
  PROVE  /\ Good(w) /\ FilesIn(w) = FilesIn(m) /\ w[Super] = m[Super] /\ w[Bitmap] = m[Bitmap]
         /\ SlotBlock(m, f, n) \in Nums /\ SlotContent(m, f, n, v) \in Contents
         /\ \A b \in DOMAIN m : w[b].kind = m[b].kind
         /\ Place(n) \in Places /\ Val(w, f, Place(n)) = v
         /\ \A g \in FilesIn(m), k \in Places :
              ~(g = f /\ k = Place(n)) => Val(w, g, k) \in {0, Bad, Val(m, g, k)}
         /\ \A g \in FilesIn(m), k \in 0..NDIRECT :
              ~(g = f /\ k = Place(n)) => Ptr(w, g, k) = Ptr(m, g, k)
PROOF
  <1> DEFINE B == SlotBlock(m, f, n)
             C == SlotContent(m, f, n, v)
  <1>0. /\ f[1] \in DirBlocks(m) /\ f[2] \in 1..BLKFILES /\ f = <<f[1], f[2]>>
        /\ m[f[1]].kind = "dir" /\ f[1] \in Nums /\ FileAt(m, f) \in FileSet
    BY GoodFiles
  <1>1. v \in 0..(NBLOCKS - 1) /\ v # Bad BY Sizing DEF Nums
  <1>2. Place(n) \in Places BY Sizing DEF Place, Places
  <1>3. /\ w \in BlockSet /\ w[Super] = m[Super] /\ w[Bitmap] = m[Bitmap]
        /\ B \in Nums /\ C \in Contents
        /\ \A b \in DOMAIN m : w[b].kind = m[b].kind
        /\ \A g \in FilesIn(m) :
             FileAt(w, g).indirect \notin {0, Bad} => w[FileAt(w, g).indirect].kind = "indirect"
        /\ Val(w, f, Place(n)) = v
        /\ \A g \in FilesIn(m), k \in Places :
             ~(g = f /\ k = Place(n)) => Val(w, g, k) \in {0, Bad, Val(m, g, k)}
        /\ \A g \in FilesIn(m), k \in 0..NDIRECT :
             ~(g = f /\ k = Place(n)) => Ptr(w, g, k) = Ptr(m, g, k)
    <2>1. CASE n < NDIRECT
      <3> DEFINE file == [FileAt(m, f) EXCEPT !.direct[n] = v]
                 E == DirBlock([m[f[1]].ents EXCEPT ![f[2]] = file])
      <3>1. n \in FileNumbers /\ Place(n) = n /\ n # NDIRECT BY <2>1, Sizing DEF FileNumbers, Place
      <3>2. /\ file \in FileSet /\ file.direct[n] = v /\ file.indirect = FileAt(m, f).indirect
            /\ \A k \in FileNumbers : k # n => file.direct[k] = FileAt(m, f).direct[k]
        BY <1>0, <1>1, <3>1, Sizing DEF FileSet, Pointers
      <3>3. B = f[1] /\ C = E BY <2>1 DEF SlotBlock, SlotContent
      <3>4. w = WithEntry(m, f, file) BY <3>3 DEF WithSlot, WithEntry
      <3> HIDE DEF file
      <3>5. /\ w \in BlockSet /\ w[Super] = m[Super] /\ w[Bitmap] = m[Bitmap]
            /\ \A b \in DOMAIN m : b # f[1] => w[b] = m[b]
            /\ \A b \in DOMAIN m : w[b].kind = m[b].kind
            /\ FileAt(w, f) = file
            /\ \A g \in FilesIn(m) \ {f} :
                 FileAt(w, g) = FileAt(m, g) /\ \A k \in Places : Val(w, g, k) = Val(m, g, k)
            /\ file.indirect = FileAt(m, f).indirect =>
                 \A k \in Places : k > NDIRECT => Val(w, f, k) = Val(m, f, k)
        BY <3>2, <3>4, EntryStep
      <3>6. E \in Contents
        <4>1. f[1] \in DOMAIN m BY GoodFiles, <1>0, Sizing DEF Nums
        <4>2. w[f[1]] = E BY <3>4, <4>1 DEF WithEntry
        <4> HIDE DEF E
        <4>3. f[1] \in 1..(NBLOCKS - 1) BY <4>1, GoodFiles
        <4> QED BY <3>5, <4>2, <4>3 DEF BlockSet
      <3>7. \A g \in FilesIn(m) : FileAt(w, g).indirect = FileAt(m, g).indirect BY <3>2, <3>5
      <3>8. ASSUME NEW g \in FilesIn(m), FileAt(w, g).indirect \notin {0, Bad}
            PROVE w[FileAt(w, g).indirect].kind = "indirect"
        <4>1. FileAt(m, g).indirect \in DOMAIN m /\ m[FileAt(m, g).indirect].kind = "indirect"
          BY <3>7, <3>8, IndirectOwned
        <4> QED BY <3>5, <3>7, <4>1
      <3>9. ASSUME NEW k \in 0..NDIRECT
            PROVE  Ptr(w, f, k) = IF k = n THEN v ELSE Ptr(m, f, k)
        <4>1. k # NDIRECT => k \in FileNumbers BY Sizing DEF FileNumbers
        <4> QED BY <3>1, <3>2, <3>5, <4>1 DEF Ptr
      <3>10. \A g \in FilesIn(m), k \in 0..NDIRECT :
               ~(g = f /\ k = Place(n)) => Ptr(w, g, k) = Ptr(m, g, k)
        BY <3>1, <3>5, <3>9 DEF Ptr
      <3>11. Val(w, f, Place(n)) = v
        <4>1. n \in 0..NDIRECT BY <2>1, Sizing
        <4> QED BY <3>1, <3>9, <4>1, PtrVal
      <3>12. ASSUME NEW g \in FilesIn(m), NEW k \in Places, ~(g = f /\ k = Place(n))
             PROVE Val(w, g, k) = Val(m, g, k)
        <4>1. CASE k \in 0..NDIRECT
          <5>1. Val(w, g, k) = Ptr(w, g, k) BY <4>1, PtrVal
          <5>2. Val(m, g, k) = Ptr(m, g, k) BY <4>1, PtrVal
          <5> QED BY <3>10, <3>12, <4>1, <5>1, <5>2
        <4>2. CASE k \notin 0..NDIRECT
          <5>1. k > NDIRECT BY <4>2, Sizing DEF Places
          <5> QED BY <3>2, <3>5, <5>1
        <4> QED BY <4>1, <4>2
      <3> QED BY <1>0, <3>3, <3>5, <3>6, <3>8, <3>10, <3>11, <3>12
    <2>2. CASE ~(n < NDIRECT)
      <3> DEFINE i == FileAt(m, f).indirect
                 K == n - NDIRECT
                 Y == BytesWith(m[i].bytes, K, v)
      <3>1. n >= NDIRECT /\ K \in 0..(NINDIRECT - 1) /\ Place(n) = n + 1 /\ Place(n) > NDIRECT
            /\ Place(n) - NDIRECT - 1 = K
        BY <2>2, Sizing DEF Place
      <3>2. /\ i \in Nums /\ i \in DOMAIN m /\ m[i].kind = "indirect"
            /\ i # Super /\ i # Bitmap /\ i \notin {0, Bad}
            /\ m[i].bytes \in [0..(NINDIRECT - 1) -> 0..(NBLOCKS - 1)]
            /\ \A g \in FilesIn(m) : g # f => FileAt(m, g).indirect # i
            /\ \A k \in Places : k > NDIRECT => Val(m, f, k) = m[i].bytes[k - NDIRECT - 1]
        BY <3>1, IndirectOwned
      <3>3. /\ Y \in [0..(NINDIRECT - 1) -> 0..(NBLOCKS - 1)] /\ Y[K] = v
            /\ \A j \in 0..(NINDIRECT - 1) : j # K => Y[j] \in {0, m[i].bytes[j]}
        <4> HIDE DEF i, K
        <4> QED BY <1>1, <3>1, <3>2, BytesWithFacts
      <3>4. B = i /\ C = IndirectBlock(Y) BY <2>2 DEF SlotBlock, SlotContent
      <3> HIDE DEF Y
      <3>5. C \in Contents /\ C.kind = "indirect" /\ C.bytes = Y
        BY <3>3, <3>4, MakeFacts, MadeKinds
      <3>6. w \in BlockSet /\ w[i] = C /\ \A b \in DOMAIN m : b # i => w[b] = m[b]
        BY <3>2, <3>4, <3>5, GoodFiles DEF BlockSet, WithSlot
      <3>7. w[Super] = m[Super] /\ w[Bitmap] = m[Bitmap] BY <3>2, <3>6, GoodFiles
      <3>8. \A b \in DOMAIN m : w[b].kind = m[b].kind BY <3>2, <3>5, <3>6
      <3>9. \A g \in FilesIn(m) : g # f =>
              FileAt(w, g) = FileAt(m, g) /\ \A k \in Places : Val(w, g, k) = Val(m, g, k)
        <4> HIDE DEF i
        <4>1. m[i].kind # "dir" BY <3>2
        <4> QED BY <3>2, <3>6, <4>1, OtherBlock
      <3>10. FileAt(w, f) = FileAt(m, f)
        <4> HIDE DEF i
        <4>1. f[1] \in DOMAIN m BY <1>0, GoodFiles, Sizing DEF Nums
        <4>2. f[1] # i BY <1>0, <3>2
        <4> QED BY <3>6, <4>1, <4>2, FileBlock
      <3>11. ASSUME NEW g \in FilesIn(m), FileAt(w, g).indirect \notin {0, Bad}
             PROVE w[FileAt(w, g).indirect].kind = "indirect"
        <4>1. FileAt(w, g) = FileAt(m, g) BY <3>9, <3>10
        <4>2. FileAt(m, g).indirect \in DOMAIN m /\ m[FileAt(m, g).indirect].kind = "indirect"
          BY <3>11, <4>1, IndirectOwned
        <4> QED BY <3>8, <4>1, <4>2
      <3>12. \A g \in FilesIn(m), k \in 0..NDIRECT : Ptr(w, g, k) = Ptr(m, g, k)
        BY <3>9, <3>10 DEF Ptr
      <3>13. ASSUME NEW k \in Places, k > NDIRECT PROVE Val(w, f, k) = Y[k - NDIRECT - 1]
        BY <3>2, <3>5, <3>6, <3>10, <3>13, Sizing DEF Val, Places
      <3>14. Val(w, f, Place(n)) = v BY <1>2, <3>1, <3>3, <3>13
      <3>15. ASSUME NEW k \in Places, k # Place(n) PROVE Val(w, f, k) \in {0, Bad, Val(m, f, k)}
        <4>1. CASE k \in 0..NDIRECT
          <5>1. Val(w, f, k) = Ptr(w, f, k) BY <4>1, PtrVal
          <5>2. Val(m, f, k) = Ptr(m, f, k) BY <4>1, PtrVal
          <5> QED BY <3>12, <4>1, <5>1, <5>2
        <4>2. CASE k \notin 0..NDIRECT
          <5>1. k > NDIRECT /\ k - NDIRECT - 1 \in 0..(NINDIRECT - 1) /\ k - NDIRECT - 1 # K
            BY <3>1, <3>15, <4>2, Sizing DEF Places
          <5>2. Val(w, f, k) = Y[k - NDIRECT - 1] BY <3>13, <5>1
          <5>3. Val(m, f, k) = m[i].bytes[k - NDIRECT - 1] BY <3>2, <5>1
          <5> QED BY <3>3, <5>1, <5>2, <5>3
        <4> QED BY <4>1, <4>2
      <3> QED BY <3>2, <3>4, <3>5, <3>6, <3>7, <3>8, <3>9, <3>11, <3>12, <3>14, <3>15
    <2> QED BY <2>1, <2>2
  <1>4. w[Bitmap].kind = "bitmap" BY <1>3 DEF Good
  <1>5. ASSUME NEW g \in FilesIn(m), NEW k \in Places, Val(w, g, k) \notin {0, Bad}
        PROVE Val(w, g, k) \notin w[Bitmap].free
    <2>1. CASE g = f /\ k = Place(n) BY <1>3, <1>5, <2>1
    <2>2. CASE ~(g = f /\ k = Place(n))
      <3>1. Val(w, g, k) = Val(m, g, k) BY <1>3, <1>5, <2>2
      <3> QED BY <1>3, <1>5, <3>1, OwnFacts
    <2> QED BY <2>1, <2>2
  <1>6. Good(w) /\ FilesIn(w) = FilesIn(m)
    <2>1. \A b \in DOMAIN m : w[b].kind = "dir" <=> m[b].kind = "dir" BY <1>3
    <2>2. \A g \in FilesIn(m), k \in Places :
            /\ ~(g = f /\ k = Place(n)) => Val(w, g, k) \in {0, Bad, Val(m, g, k)}
            /\ Val(w, g, k) \notin {0, Bad} => Val(w, g, k) \notin w[Bitmap].free
      BY <1>3, <1>5
    <2>3. \/ Val(w, f, Place(n)) \in {0, Bad, Val(m, f, Place(n))}
          \/ /\ Val(w, f, Place(n)) \in Nums
             /\ \A g \in FilesIn(m), k \in Places : Val(m, g, k) # Val(w, f, Place(n))
      BY <1>3
    <2>4. /\ w \in BlockSet /\ w[Super] = m[Super]
          /\ \A g \in FilesIn(m) :
               FileAt(w, g).indirect \notin {0, Bad} => w[FileAt(w, g).indirect].kind = "indirect"
      BY <1>3
    <2> QED BY <1>4, <2>1, <2>2, <2>3, <2>4, GoodStep
  <1> QED BY <1>2, <1>3, <1>6

\* The blocks m with c in block b.
WithBlock(m, b, c) == [m EXCEPT ![b] = c]

\* A write to a block that is no directory's and no file's indirect block.
LEMMA PutGood ==
  ASSUME NEW m, Good(m), NEW b \in Nums, m[b].kind # "dir",
         \A g \in FilesIn(m) : FileAt(m, g).indirect # b,
         NEW c \in Contents, c.kind # "dir", NEW n, n = WithBlock(m, b, c)
  PROVE  /\ Good(n) /\ FilesIn(n) = FilesIn(m) /\ n[Super] = m[Super] /\ n[Bitmap] = m[Bitmap]
         /\ n[b] = c /\ \A a \in DOMAIN m : a # b => n[a] = m[a]
         /\ \A a \in DOMAIN m : n[a].kind = "dir" <=> m[a].kind = "dir"
         /\ \A g \in FilesIn(m) :
              FileAt(n, g) = FileAt(m, g) /\ \A k \in Places : Val(n, g, k) = Val(m, g, k)
PROOF
  <1>1. b \in DOMAIN m /\ b # Super /\ b # Bitmap BY GoodFiles, Sizing DEF Nums
  <1>2. n \in BlockSet /\ n[b] = c /\ \A a \in DOMAIN m : a # b => n[a] = m[a]
    BY <1>1, GoodFiles DEF BlockSet, WithBlock
  <1>3. n[Super] = m[Super] /\ n[Bitmap] = m[Bitmap] /\ n[Bitmap].kind = "bitmap"
    BY <1>1, <1>2, GoodFiles DEF Good
  <1>4. \A a \in DOMAIN m : n[a].kind = "dir" <=> m[a].kind = "dir" BY <1>2
  <1>5. ASSUME NEW g \in FilesIn(m)
        PROVE FileAt(n, g) = FileAt(m, g) /\ \A k \in Places : Val(n, g, k) = Val(m, g, k)
    BY <1>1, <1>2, OtherBlock
  <1>6. ASSUME NEW g \in FilesIn(m), FileAt(n, g).indirect \notin {0, Bad}
        PROVE n[FileAt(n, g).indirect].kind = "indirect"
    <2>1. FileAt(n, g) = FileAt(m, g) BY <1>5
    <2>2. FileAt(m, g).indirect \in DOMAIN m /\ m[FileAt(m, g).indirect].kind = "indirect"
      BY <1>6, <2>1, IndirectOwned
    <2> QED BY <1>2, <2>1, <2>2
  <1>7. Good(n) /\ FilesIn(n) = FilesIn(m)
    <2>1. \A g \in FilesIn(m), k \in Places :
            /\ Val(n, g, k) = Val(m, g, k)
            /\ Val(n, g, k) \notin {0, Bad} => Val(n, g, k) \notin n[Bitmap].free
      BY <1>3, <1>5, OwnFacts
    <2>2. Root \in FilesIn(m) /\ 0 \in Places BY GoodFiles, Sizing DEF Places
    <2>3. Val(n, Root, 0) = Val(m, Root, 0) BY <2>1, <2>2
    <2> QED BY <1>2, <1>3, <1>4, <1>6, <2>1, <2>3, GoodStep
  <1> QED BY <1>2, <1>3, <1>4, <1>5, <1>7

\* Only directory blocks and indirect blocks can be in the way of a write to
\* a block without an owner, or to a block of data.
LEMMA NoIndirect ==
  ASSUME NEW m, Good(m), NEW b \in Nums,
         \/ \A f \in FilesIn(m), k \in Places : Val(m, f, k) # b
         \/ \E f \in FilesIn(m), k \in Places : k # NDIRECT /\ Val(m, f, k) = b
  PROVE  \A g \in FilesIn(m) : FileAt(m, g).indirect # b
PROOF
  <1>1. NDIRECT \in 0..NDIRECT BY Sizing
  <1>2. \A g : NDIRECT \in Places /\ Val(m, g, NDIRECT) = FileAt(m, g).indirect
    BY <1>1, PtrVal DEF Ptr
  <1>3. b \notin {0, Bad} BY Sizing DEF Nums
  <1> QED BY <1>2, <1>3, OwnFacts

Cleared == IndirectBlock([k \in 0..(NINDIRECT - 1) |-> 0])

\* A write to the entry of f that leaves its pointers, takes them away, or
\* gives it a cleared indirect block that nobody has.
LEMMA EntryGood ==
  ASSUME NEW m, Good(m), NEW f \in FilesIn(m) \ {Root}, NEW file \in FileSet,
         NEW n, n = WithEntry(m, f, file),
         \A k \in FileNumbers : file.direct[k] = FileAt(m, f).direct[k],
         \/ file.indirect \in {0, FileAt(m, f).indirect}
         \/ /\ file.indirect \in Nums /\ file.indirect \notin m[Bitmap].free
            /\ \A g \in FilesIn(m), k \in Places : Val(m, g, k) # file.indirect
            /\ m[file.indirect] = Cleared
  PROVE  /\ Good(n) /\ FilesIn(n) = FilesIn(m) /\ n[Super] = m[Super] /\ n[Bitmap] = m[Bitmap]
         /\ \A b \in DOMAIN m : n[b].kind = m[b].kind
         /\ FileAt(n, f) = file
         /\ \A g \in FilesIn(m), k \in Places :
              ~(g = f /\ k = NDIRECT) => Val(n, g, k) \in {0, Bad, Val(m, g, k)}
         /\ \A g \in FilesIn(m), k \in 0..NDIRECT :
              ~(g = f /\ k = NDIRECT) => Ptr(n, g, k) = Ptr(m, g, k)
         /\ Val(n, f, NDIRECT) = file.indirect
PROOF
  <1>1. /\ n \in BlockSet /\ n[Super] = m[Super] /\ n[Bitmap] = m[Bitmap]
        /\ \A b \in DOMAIN m : b # f[1] => n[b] = m[b]
        /\ \A b \in DOMAIN m : n[b].kind = m[b].kind
        /\ FileAt(n, f) = file
        /\ \A g \in FilesIn(m) \ {f} :
             FileAt(n, g) = FileAt(m, g) /\ \A k \in Places : Val(n, g, k) = Val(m, g, k)
        /\ file.indirect = FileAt(m, f).indirect =>
             \A k \in Places : k > NDIRECT => Val(n, f, k) = Val(m, f, k)
    BY EntryStep
  <1> DEFINE i == file.indirect
             old == FileAt(m, f).indirect
             clear == Cleared
  <1>2. clear.kind = "indirect" /\ \A k \in 0..(NINDIRECT - 1) : clear.bytes[k] = 0
    <2> DEFINE z == [k \in 0..(NINDIRECT - 1) |-> 0]
    <2>1. \A k \in 0..(NINDIRECT - 1) : z[k] = 0 OBVIOUS
    <2>2. clear = IndirectBlock(z) BY DEF Cleared
    <2> HIDE DEF z, clear
    <2> QED BY <2>1, <2>2, MadeKinds
  <1>3. f[1] \in DirBlocks(m) /\ m[f[1]].kind = "dir" BY GoodFiles
  <1>4. i \notin {0, Bad, old} =>
          /\ i \in Nums /\ i \in DOMAIN m /\ i \notin m[Bitmap].free
          /\ \A g \in FilesIn(m), k \in Places : Val(m, g, k) # i
          /\ m[i] = clear /\ n[i] = clear
    <2> HIDE DEF clear
    <2>1. ASSUME i \notin {0, Bad, old} PROVE i \in Nums /\ m[i] = clear
      BY <2>1 DEF clear
    <2>2. ASSUME i \notin {0, Bad, old} PROVE i \in DOMAIN m /\ i # f[1]
      <3>1. i \in DOMAIN m BY <2>1, <2>2, GoodFiles, Sizing DEF Nums
      <3> QED BY <1>2, <1>3, <2>1, <2>2, <3>1
    <2> QED BY <1>1, <2>1, <2>2
  <1> HIDE DEF clear
  <1>5. \A g \in FilesIn(m), k \in 0..NDIRECT :
          ~(g = f /\ k = NDIRECT) => Ptr(n, g, k) = Ptr(m, g, k)
    <2>1. ASSUME NEW k \in 0..NDIRECT, k # NDIRECT PROVE Ptr(n, f, k) = Ptr(m, f, k)
      <3>1. k \in FileNumbers BY <2>1, Sizing DEF FileNumbers
      <3> QED BY <1>1, <2>1, <3>1 DEF Ptr
    <2> QED BY <1>1, <2>1 DEF Ptr
  <1>6. ASSUME NEW k \in Places, k > NDIRECT PROVE Val(n, f, k) \in {0, Val(m, f, k)}
    <2>1. ~(k <= NDIRECT) /\ k - NDIRECT - 1 \in 0..(NINDIRECT - 1)
      BY <1>6, Sizing DEF Places
    <2>2. CASE i = old BY <1>1, <1>6, <2>2
    <2>3. CASE i \in {0, Bad} BY <1>1, <2>1, <2>3 DEF Val
    <2>4. CASE i \notin {0, Bad, old}
      <3>1. Val(n, f, k) = n[i].bytes[k - NDIRECT - 1] BY <1>1, <2>1, <2>4 DEF Val
      <3> QED BY <1>2, <1>4, <2>1, <2>4, <3>1
    <2> QED BY <2>2, <2>3, <2>4
  <1>7. Val(n, f, NDIRECT) = i /\ NDIRECT \in Places
    <2>1. NDIRECT \in 0..NDIRECT BY Sizing
    <2> QED BY <1>1, <2>1, PtrVal DEF Ptr
  <1>8. ASSUME NEW g \in FilesIn(m), NEW k \in Places, ~(g = f /\ k = NDIRECT)
        PROVE Val(n, g, k) \in {0, Bad, Val(m, g, k)}
    <2>1. CASE k \in 0..NDIRECT
      <3>1. Val(n, g, k) = Ptr(n, g, k) BY <2>1, PtrVal
      <3>2. Val(m, g, k) = Ptr(m, g, k) BY <2>1, PtrVal
      <3> QED BY <1>5, <1>8, <2>1, <3>1, <3>2
    <2>2. CASE k \notin 0..NDIRECT
      <3>1. k > NDIRECT BY <2>2, Sizing DEF Places
      <3> QED BY <1>1, <1>6, <3>1
    <2> QED BY <2>1, <2>2
  <1>9. Val(m, f, NDIRECT) = old
    <2>1. NDIRECT \in 0..NDIRECT BY Sizing
    <2> QED BY <2>1, PtrVal DEF Ptr
  <1>10. ASSUME NEW g \in FilesIn(m), NEW k \in Places, Val(n, g, k) \notin {0, Bad}
         PROVE Val(n, g, k) \notin n[Bitmap].free
    <2>1. CASE Val(n, g, k) = Val(m, g, k) BY <1>1, <1>10, <2>1, OwnFacts
    <2>2. CASE Val(n, g, k) # Val(m, g, k)
      <3>1. g = f /\ k = NDIRECT BY <1>8, <1>10, <2>2
      <3>2. Val(n, g, k) = i /\ i \notin {0, Bad, old} BY <1>7, <1>9, <1>10, <2>2, <3>1
      <3> QED BY <1>1, <1>4, <3>2
    <2> QED BY <2>1, <2>2
  <1>11. ASSUME NEW g \in FilesIn(m), FileAt(n, g).indirect \notin {0, Bad}
         PROVE n[FileAt(n, g).indirect].kind = "indirect"
    <2>1. CASE FileAt(n, g).indirect = FileAt(m, g).indirect
      <3>1. FileAt(m, g).indirect \in DOMAIN m /\ m[FileAt(m, g).indirect].kind = "indirect"
        BY <1>11, <2>1, IndirectOwned
      <3> QED BY <1>1, <2>1, <3>1
    <2>2. CASE FileAt(n, g).indirect # FileAt(m, g).indirect
      <3>1. g = f /\ FileAt(n, g).indirect = i /\ i \notin {0, Bad, old} BY <1>1, <1>11, <2>2
      <3> QED BY <1>2, <1>4, <3>1
    <2> QED BY <2>1, <2>2
  <1>12. Good(n) /\ FilesIn(n) = FilesIn(m)
    <2>1. n[Bitmap].kind = "bitmap" BY <1>1 DEF Good
    <2>2. \A b \in DOMAIN m : n[b].kind = "dir" <=> m[b].kind = "dir" BY <1>1
    <2>3. \A g \in FilesIn(m), k \in Places :
            /\ ~(g = f /\ k = NDIRECT) => Val(n, g, k) \in {0, Bad, Val(m, g, k)}
            /\ Val(n, g, k) \notin {0, Bad} => Val(n, g, k) \notin n[Bitmap].free
      BY <1>8, <1>10
    <2>4. \/ Val(n, f, NDIRECT) \in {0, Bad, Val(m, f, NDIRECT)}
          \/ /\ Val(n, f, NDIRECT) \in Nums
             /\ \A g \in FilesIn(m), k \in Places : Val(m, g, k) # Val(n, f, NDIRECT)
      BY <1>4, <1>7, <1>9
    <2>5. \A g \in FilesIn(m) :
            FileAt(n, g).indirect \notin {0, Bad} => n[FileAt(n, g).indirect].kind = "indirect"
      BY <1>11
    <2>6. n \in BlockSet /\ n[Super] = m[Super] BY <1>1
    <2> QED BY <2>1, <2>2, <2>3, <2>4, <2>5, <2>6, GoodStep
  <1> QED BY <1>1, <1>5, <1>7, <1>8, <1>12

-----------------------------------------------------------------------------
(* file_block_walk and file_get_block *)

\* Block n of f has a slot: the indirect block is there if it is needed.
HasSlot(m, f, n) ==
  n \in 0..(NDIRECT + NINDIRECT - 1) /\ (n >= NDIRECT => FileAt(m, f).indirect \notin {0, Bad})

\* A number that no block has, at which diskaddr panics.
Beyond(p) == p \in Nat /\ p >= NBLOCKS

\* An entry shows the number that is at its place, unless another one
\* overlaps it.
LEMMA EntryVal ==
  ASSUME NEW s, NEW i, i # Bad, s.mem[i].kind = "indirect",
         s.mem[i].bytes \in [0..(NINDIRECT - 1) -> 0..(NBLOCKS - 1)],
         NEW k \in 0..(NINDIRECT - 1)
  PROVE  /\ Entry(s, i, k) = s.mem[i].bytes[k] \/ Beyond(Entry(s, i, k))
         /\ Entry(s, i, k) = 0 => s.mem[i].bytes[k] = 0
PROOF
  <1> DEFINE a == Byte(s, i, k)
             b == Byte(s, i, k + 1)
             c == Byte(s, i, k + 2)
             e == Byte(s, i, k + 3)
  <1>1. ASSUME NEW j \in Nat PROVE Byte(s, i, j) \in 0..(NBLOCKS - 1)
    <2>1. CASE j < NINDIRECT BY <2>1, Sizing DEF Byte
    <2>2. CASE ~(j < NINDIRECT) BY <2>2, Sizing DEF Byte
    <2> QED BY <2>1, <2>2
  <1>2. k \in Nat /\ k + 1 \in Nat /\ k + 2 \in Nat /\ k + 3 \in Nat BY Sizing
  <1>3. a \in 0..(NBLOCKS - 1) /\ b \in 0..(NBLOCKS - 1) /\ c \in 0..(NBLOCKS - 1)
        /\ e \in 0..(NBLOCKS - 1)
    BY <1>1, <1>2
  <1>4. a = s.mem[i].bytes[k] BY Sizing DEF Byte
  <1>5. Entry(s, i, k) = a + 256 * (b + 256 * (c + 256 * e)) BY Zenon DEF Entry
  <1> HIDE DEF a, b, c, e
  <1>6. PICK x : x = a + 256 * (b + 256 * (c + 256 * e)) OBVIOUS
  <1>6a. NBLOCKS \in 5..256 BY FsBlocksAssumption
  <1>7. x = a \/ Beyond(x) BY <1>3, <1>6, <1>6a DEF Beyond
  <1>8. x = 0 => a = 0 BY <1>3, <1>6, <1>6a
  <1> QED BY <1>4, <1>5, <1>6, <1>7, <1>8

\* What a slot shows is the number at its place, or out of range.
LEMMA SlotVal ==
  ASSUME NEW s, Good(s.mem), NEW f \in FilesIn(s.mem), NEW n, HasSlot(s.mem, f, n)
  PROVE  /\ Place(n) \in Places
         /\ Slot(s, f, n) = Val(s.mem, f, Place(n)) \/ Beyond(Slot(s, f, n))
         /\ Slot(s, f, n) = 0 => Val(s.mem, f, Place(n)) = 0
PROOF
  <1>1. Get(s, f) = FileAt(s.mem, f) BY FileAtOf
  <1>2. n \in 0..(NDIRECT + NINDIRECT - 1) /\ Place(n) \in Places
    BY Sizing DEF HasSlot, Place, Places
  <1>3. /\ Slot(s, f, n) = Val(s.mem, f, Place(n)) \/ Beyond(Slot(s, f, n))
        /\ Slot(s, f, n) = 0 => Val(s.mem, f, Place(n)) = 0
    <2>1. CASE n < NDIRECT
      <3>1. Slot(s, f, n) = FileAt(s.mem, f).direct[n] BY <1>1, <2>1, Zenon DEF Slot
      <3>2. Place(n) = n /\ n # NDIRECT /\ n \in 0..NDIRECT BY <1>2, <2>1, Sizing DEF Place
      <3>3. Val(s.mem, f, n) = Ptr(s.mem, f, n) BY <3>2, PtrVal
      <3> QED BY <3>1, <3>2, <3>3 DEF Ptr
    <2>2. CASE ~(n < NDIRECT)
      <3> DEFINE i == FileAt(s.mem, f).indirect
      <3>1. i \notin {0, Bad} BY <1>2, <2>2, Sizing DEF HasSlot
      <3>2. Slot(s, f, n) = Entry(s, i, n - NDIRECT) BY <1>1, <2>2, Zenon DEF Slot
      <3>3. /\ \/ Entry(s, i, n - NDIRECT) = s.mem[i].bytes[n - NDIRECT]
               \/ Beyond(Entry(s, i, n - NDIRECT))
            /\ Entry(s, i, n - NDIRECT) = 0 => s.mem[i].bytes[n - NDIRECT] = 0
        <4>1. s.mem[i].kind = "indirect" BY <3>1 DEF Good
        <4>2. i \in DOMAIN s.mem BY <3>1, IndirectOwned
        <4>3. s.mem[i].bytes \in [0..(NINDIRECT - 1) -> 0..(NBLOCKS - 1)]
          BY <4>1, <4>2, GoodFiles, KindFacts
        <4>4. n - NDIRECT \in 0..(NINDIRECT - 1) BY <1>2, <2>2, Sizing
        <4> HIDE DEF i
        <4> QED BY <3>1, <4>1, <4>3, <4>4, EntryVal
      <3>4. Place(n) > NDIRECT /\ Place(n) - NDIRECT - 1 = n - NDIRECT
        BY <1>2, <2>2, Sizing DEF Place
      <3>5. Val(s.mem, f, Place(n)) = s.mem[i].bytes[n - NDIRECT]
        BY <1>2, <3>1, <3>4, IndirectOwned
      <3> QED BY <3>2, <3>3, <3>5
    <2> QED BY <2>1, <2>2
  <1> QED BY <1>2, <1>3, Sizing

\* A readable block has a block number.
LEMMA ReadableFacts ==
  ASSUME NEW s, NEW b, Readable(s, b) PROVE b \in 1..(NBLOCKS - 1) /\ b \notin {0, Bad}
BY Sizing DEF Readable

\* The walk without and with alloc.
Walk(s, f, n) == file_block_walk(s, f, n, FALSE)
WalkAlloc(s, f, n) == file_block_walk(s, f, n, TRUE)

\* Without alloc the walk changes nothing, or panics.
LEMMA WalkNoAlloc ==
  ASSUME NEW s \in StateSet, NEW f, NEW n \in Nat, NEW w, w = Walk(s, f, n)
  PROVE  /\ w.s \in {s, panic(s)} /\ (w.err => w.s = s)
         /\ ~w.err /\ w.s.ok => HasSlot(s.mem, f, n) /\ w.s = s
PROOF
  <1> DEFINE i == Get(s, f).indirect
  <1>1. Get(s, f) = FileAt(s.mem, f) BY FileAtOf
  <1>2. panic(s).ok = FALSE BY PanicIs
  <1>3. CASE n >= NDIRECT + NINDIRECT
    <2>1. w = [s |-> s, err |-> TRUE] BY <1>3, Zenon DEF Walk, file_block_walk
    <2> QED BY <2>1
  <1>4. CASE ~(n >= NDIRECT + NINDIRECT) /\ n < NDIRECT
    <2>1. w = [s |-> s, err |-> FALSE] BY <1>4, Zenon DEF Walk, file_block_walk
    <2>2. HasSlot(s.mem, f, n) BY <1>4, Sizing DEF HasSlot
    <2> QED BY <2>1, <2>2
  <1>5. CASE ~(n >= NDIRECT + NINDIRECT) /\ ~(n < NDIRECT) /\ i # 0
    <2>1. w = [s |-> IF Readable(s, i) THEN s ELSE panic(s), err |-> FALSE]
      BY <1>5, Zenon DEF Walk, file_block_walk
    <2>2. CASE Readable(s, i)
      <3>1. w = [s |-> s, err |-> FALSE] BY <2>1, <2>2
      <3>2. HasSlot(s.mem, f, n) BY <1>1, <1>5, <2>2, ReadableFacts, Sizing DEF HasSlot
      <3> QED BY <3>1, <3>2
    <2>3. CASE ~Readable(s, i)
      <3>1. w = [s |-> panic(s), err |-> FALSE] BY <2>1, <2>3
      <3> QED BY <1>2, <3>1
    <2> QED BY <2>2, <2>3
  <1>6. CASE ~(n >= NDIRECT + NINDIRECT) /\ ~(n < NDIRECT) /\ i = 0
    <2>1. w = [s |-> s, err |-> TRUE] BY <1>6, Zenon DEF Walk, file_block_walk
    <2> QED BY <2>1
  <1> QED BY <1>3, <1>4, <1>5, <1>6

\* A state with the same disk as a safe one.
LEMMA CacheSafe ==
  ASSUME NEW s, NEW X, Safe(s, X), NEW t \in StateSet, t.disk = s.disk, t.images = s.images,
         Good(t.mem), NEW Y, Below(t.disk, t.mem, Y)
  PROVE  Safe(t, Y)
BY DEF Safe

\* A slot that held no number gets a block that nobody has.
LEMMA SetSlotSafe ==
  ASSUME NEW s, NEW X, Safe(s, X), NEW f \in FilesIn(s.mem) \ {Root}, NEW n,
         HasSlot(s.mem, f, n), Val(s.mem, f, Place(n)) \in {0, Bad},
         NEW v \in Nums, v \notin s.mem[Bitmap].free,
         \A g \in FilesIn(s.mem), k \in Places : Val(s.mem, g, k) # v
  PROVE  LET t == SetSlot(s, f, n, v) IN
         /\ Safe(t, X) /\ t.ok = s.ok /\ FilesIn(t.mem) = FilesIn(s.mem)
         /\ Val(t.mem, f, Place(n)) = v
PROOF
  <1> DEFINE m == s.mem
             t == SetSlot(s, f, n, v)
             w == WithSlot(m, f, n, v)
  <1>1. s \in StateSet /\ Good(m) /\ Below(s.disk, m, X) /\ s.disk \in BlockSet
    BY DEF Safe, StateSet
  <1>2. n \in 0..(NDIRECT + NINDIRECT - 1) /\ (n >= NDIRECT => FileAt(m, f).indirect \notin {0, Bad})
    BY DEF HasSlot
  <1>3. /\ Good(w) /\ FilesIn(w) = FilesIn(m) /\ w[Super] = m[Super] /\ w[Bitmap] = m[Bitmap]
        /\ SlotBlock(m, f, n) \in Nums /\ SlotContent(m, f, n, v) \in Contents
        /\ \A b \in DOMAIN m : w[b].kind = m[b].kind
        /\ Place(n) \in Places /\ Val(w, f, Place(n)) = v
        /\ \A g \in FilesIn(m), k \in 0..NDIRECT :
             ~(g = f /\ k = Place(n)) => Ptr(w, g, k) = Ptr(m, g, k)
    <2> HIDE DEF m, w
    <2>1. w = WithSlot(m, f, n, v) BY DEF w
    <2>2. f \in FilesIn(m) \ {Root} /\ v \notin m[Bitmap].free
          /\ \A g \in FilesIn(m), k \in Places : Val(m, g, k) # v
      BY DEF m
    <2> QED BY <1>1, <1>2, <2>1, <2>2, SlotStep
  <1>4. m[f[1]].kind = "dir" BY <1>1, GoodFiles
  <1>5. t = Put(s, SlotBlock(m, f, n), SlotContent(m, f, n, v)) BY <1>4, SetSlotIs
  <1>6. SlotBlock(m, f, n) \in 1..(NBLOCKS - 1) BY <1>3, Sizing DEF Nums
  <1> HIDE DEF t
  <1>7. /\ t \in StateSet /\ t.disk = s.disk /\ t.images = s.images /\ t.ok = s.ok
        /\ t.mem = w
    BY <1>1, <1>3, <1>5, <1>6, PutIs DEF WithSlot
  <1>8. Below(s.disk, w, X)
    <2>1. \A g \in FilesIn(m) \ X, k \in 0..NDIRECT :
            Ptr(m, g, k) \in {0, Bad} \/ Ptr(w, g, k) = Ptr(m, g, k)
      <3>1. \A k \in 0..NDIRECT : Val(m, f, k) = Ptr(m, f, k) BY PtrVal
      <3> QED BY <1>3, <3>1
    <2> HIDE DEF m, w
    <2>2. \A b \in DOMAIN m : w[b].kind = "dir" <=> m[b].kind = "dir" BY <1>3
    <2> QED BY <1>1, <1>3, <2>1, <2>2, BelowStep
  <1>9. Safe(t, X) BY <1>3, <1>7, <1>8, CacheSafe
  <1> QED BY <1>3, <1>7, <1>9 DEF t

\* The walk of file_get_block: the indirect block it allocates is cleared and
\* on the disk before the file points to it.
LEMMA WalkSafe ==
  ASSUME NEW s, Safe(s, {}), NEW f \in FilesIn(s.mem) \ {Root}, NEW n \in Nat,
         NEW w, w = WalkAlloc(s, f, n)
  PROVE  /\ Safe(w.s, {}) /\ FilesIn(w.s.mem) = FilesIn(s.mem)
         /\ ~w.err /\ w.s.ok => HasSlot(w.s.mem, f, n)
PROOF
  <1> DEFINE file == Get(s, f)
             i == file.indirect
             a == alloc_block(s)
             cleared == Cleared
             nf == [file EXCEPT !.indirect = a.b]
             u == Set(a.s, f, nf)
             t == Put(u, a.b, cleared)
  <1>1. /\ s \in StateSet /\ Good(s.mem) /\ file = FileAt(s.mem, f)
        /\ Safe(panic(s), {}) /\ panic(s).ok = FALSE /\ panic(s).mem = s.mem
    BY FileAtOf, PanicIs, PanicSafe DEF Safe
  <1>2. CASE n >= NDIRECT + NINDIRECT
    <2>1. w = [s |-> s, err |-> TRUE] BY <1>2, Zenon DEF WalkAlloc, file_block_walk
    <2> QED BY <2>1
  <1>3. CASE ~(n >= NDIRECT + NINDIRECT) /\ n < NDIRECT
    <2>1. w = [s |-> s, err |-> FALSE] BY <1>3, Zenon DEF WalkAlloc, file_block_walk
    <2>2. HasSlot(s.mem, f, n) BY <1>3, Sizing DEF HasSlot
    <2> QED BY <2>1, <2>2
  <1>4. CASE ~(n >= NDIRECT + NINDIRECT) /\ ~(n < NDIRECT) /\ i # 0
    <2>1. w = [s |-> IF Readable(s, i) THEN s ELSE panic(s), err |-> FALSE]
      BY <1>4, Zenon DEF WalkAlloc, file_block_walk
    <2>2. CASE Readable(s, i)
      <3>1. w = [s |-> s, err |-> FALSE] BY <2>1, <2>2
      <3>2. HasSlot(s.mem, f, n) BY <1>1, <1>4, <2>2, ReadableFacts, Sizing DEF HasSlot
      <3> QED BY <3>1, <3>2
    <2>3. CASE ~Readable(s, i)
      <3>1. w = [s |-> panic(s), err |-> FALSE] BY <2>1, <2>3
      <3> QED BY <1>1, <3>1
    <2> QED BY <2>2, <2>3
  <1>5. CASE ~(n >= NDIRECT + NINDIRECT) /\ ~(n < NDIRECT) /\ i = 0 /\ a.b = Bad
    <2>1. w = [s |-> s, err |-> TRUE] BY <1>5, Zenon DEF WalkAlloc, file_block_walk
    <2> QED BY <2>1
  <1>6. CASE ~(n >= NDIRECT + NINDIRECT) /\ ~(n < NDIRECT) /\ i = 0 /\ a.b # Bad
    <2>1. w = [s |-> flush_block(t, a.b), err |-> FALSE]
      BY <1>6, Zenon DEF WalkAlloc, file_block_walk, Cleared
    <2>2. /\ Safe(a.s, {}) /\ a.s.ok = s.ok
          /\ FilesIn(a.s.mem) = FilesIn(s.mem)
          /\ FileAt(a.s.mem, f) = file
          /\ a.b \in Nums /\ a.b \notin a.s.mem[Bitmap].free /\ a.s.mem[a.b].kind # "dir"
          /\ \A g \in FilesIn(s.mem), k \in Places : Val(a.s.mem, g, k) # a.b
      BY <1>1, <1>6, AllocSafe
    <2> DEFINE m == a.s.mem
               m1 == WithBlock(m, a.b, cleared)
               m2 == WithEntry(m1, f, nf)
    <2>3. /\ a.s \in StateSet /\ Good(m) /\ Below(a.s.disk, m, {}) /\ a.s.disk \in BlockSet
      BY <2>2 DEF Safe, StateSet
    <2>4. cleared \in Contents /\ cleared.kind = "indirect"
      BY MakeFacts, MadeKinds, Sizing DEF Cleared
    <2>5. \A g \in FilesIn(m) : FileAt(m, g).indirect # a.b BY <2>2, <2>3, NoIndirect
    <2> HIDE DEF cleared, a, file
    <2>6. /\ Good(m1) /\ FilesIn(m1) = FilesIn(m)
          /\ m1[Super] = m[Super] /\ m1[Bitmap] = m[Bitmap] /\ m1[a.b] = cleared
          /\ \A b \in DOMAIN m : b # a.b => m1[b] = m[b]
          /\ \A b \in DOMAIN m : m1[b].kind = "dir" <=> m[b].kind = "dir"
          /\ \A g \in FilesIn(m) :
               FileAt(m1, g) = FileAt(m, g) /\ \A k \in Places : Val(m1, g, k) = Val(m, g, k)
      <3> HIDE DEF m, m1
      <3>1. m1 = WithBlock(m, a.b, cleared) BY DEF m1
      <3>2. m[a.b].kind # "dir" BY <2>2 DEF m
      <3> QED BY <2>2, <2>3, <2>4, <2>5, <3>1, <3>2, PutGood
    <2>7. file \in FileSet /\ f \in FilesIn(m) \ {Root}
      BY <1>1, <2>2, GoodFiles DEF file
    <2>8. /\ nf \in FileSet /\ nf.indirect = a.b
          /\ \A k \in FileNumbers : nf.direct[k] = file.direct[k]
      BY <2>2, <2>7, Sizing DEF FileSet, Pointers, Nums
    <2> HIDE DEF nf
    <2>9. /\ Good(m2) /\ FilesIn(m2) = FilesIn(m1)
          /\ m2[Super] = m1[Super] /\ m2[Bitmap] = m1[Bitmap]
          /\ \A b \in DOMAIN m1 : m2[b].kind = m1[b].kind
          /\ FileAt(m2, f) = nf
          /\ \A g \in FilesIn(m1), k \in 0..NDIRECT :
               ~(g = f /\ k = NDIRECT) => Ptr(m2, g, k) = Ptr(m1, g, k)
      <3>1. /\ nf.indirect \in Nums /\ nf.indirect \notin m1[Bitmap].free
            /\ \A g \in FilesIn(m1), k \in Places : Val(m1, g, k) # nf.indirect
        BY <2>2, <2>6, <2>8
      <3>2. m1[nf.indirect] = Cleared
        BY <2>6, <2>8 DEF cleared
      <3>3. f \in FilesIn(m1) \ {Root} /\ \A k \in FileNumbers : nf.direct[k] = FileAt(m1, f).direct[k]
        BY <2>2, <2>6, <2>7, <2>8
      <3> HIDE DEF m1, m2
      <3>4. m2 = WithEntry(m1, f, nf) BY DEF m2
      <3> QED BY <2>6, <2>8, <3>1, <3>2, <3>3, <3>4, EntryGood
    <2>10. /\ f[1] \in DOMAIN m /\ f[1] # a.b /\ m[f[1]].kind = "dir" /\ a.b \in DOMAIN m
           /\ DOMAIN m = 1..(NBLOCKS - 1) /\ f[1] \in Nums
      <3>1. f[1] \in Nums /\ m[f[1]].kind = "dir" BY <2>3, <2>7, GoodFiles
      <3>2. DOMAIN m = 1..(NBLOCKS - 1) BY <2>3, GoodFiles
      <3> QED BY <2>2, <3>1, <3>2, Sizing DEF Nums
    <2>11. t \in StateSet /\ t.mem = m2 /\ t.disk = a.s.disk /\ t.images = a.s.images
           /\ t.ok = a.s.ok
      <3> DEFINE D == DirBlock([m[f[1]].ents EXCEPT ![f[2]] = nf])
      <3>1. u = Put(a.s, f[1], D) BY <2>7, <2>10, SetIs
      <3>2. D \in Contents
        <4>1. m[f[1]].ents \in [1..BLKFILES -> FileSet] BY <2>3, <2>10, GoodFiles, KindFacts
        <4>2. [m[f[1]].ents EXCEPT ![f[2]] = nf] \in [1..BLKFILES -> FileSet] BY <2>8, <4>1
        <4> QED BY <4>2, MakeFacts
      <3> HIDE DEF u
      <3>3. D = DirBlock([m1[f[1]].ents EXCEPT ![f[2]] = nf]) BY <2>6, <2>10
      <3> HIDE DEF D
      <3>4. u \in StateSet /\ u.mem = [m EXCEPT ![f[1]] = D] /\ u.disk = a.s.disk
            /\ u.images = a.s.images /\ u.ok = a.s.ok
        BY <2>3, <2>10, <3>1, <3>2, PutIs
      <3>5. t \in StateSet /\ t.mem = [u.mem EXCEPT ![a.b] = cleared] /\ t.disk = u.disk
            /\ t.images = u.images /\ t.ok = u.ok
        BY <2>4, <2>10, <3>4, PutIs
      <3>6. m2 = [m1 EXCEPT ![f[1]] = D] BY <3>3 DEF WithEntry
      <3>7. m1 = [m EXCEPT ![a.b] = cleared] BY DEF WithBlock
      <3>8. [[m EXCEPT ![f[1]] = D] EXCEPT ![a.b] = cleared]
              = [[m EXCEPT ![a.b] = cleared] EXCEPT ![f[1]] = D]
        BY <2>10
      <3> HIDE DEF t, m1, m2
      <3> QED BY <3>4, <3>5, <3>6, <3>7, <3>8
    <2>12. Below(a.s.disk, m2, {})
      <3>1. \A g \in FilesIn(m), k \in 0..NDIRECT :
              Ptr(m, g, k) \in {0, Bad} \/ Ptr(m2, g, k) = Ptr(m, g, k)
        <4>1. Ptr(m, f, NDIRECT) = 0 BY <1>6, <2>2 DEF Ptr
        <4>2. \A g \in FilesIn(m), k \in 0..NDIRECT : Ptr(m1, g, k) = Ptr(m, g, k)
          BY <2>6 DEF Ptr
        <4> QED BY <2>6, <2>9, <4>1, <4>2
      <3>2. DOMAIN m1 = DOMAIN m BY DEF WithBlock
      <3> HIDE DEF m, m1, m2
      <3>3. \A b \in DOMAIN m : m2[b].kind = "dir" <=> m[b].kind = "dir" BY <2>6, <2>9, <3>2
      <3>4. m2[Super] = m[Super] /\ m2[Bitmap] = m[Bitmap] BY <2>6, <2>9
      <3> QED BY <2>3, <3>1, <3>3, <3>4, BelowStep
    <2> HIDE DEF t
    <2>13. Safe(t, {}) BY <2>2, <2>9, <2>11, <2>12, CacheSafe
    <2>14. a.b \in 1..(NBLOCKS - 1) BY <2>10
    <2>15. Safe(flush_block(t, a.b), {}) /\ flush_block(t, a.b).mem = m2
      BY <2>11, <2>13, <2>14, FlushSafe
    <2>16. HasSlot(m2, f, n) BY <1>6, <2>2, <2>8, <2>9, Sizing DEF HasSlot, Nums
    <2>17. FilesIn(m2) = FilesIn(s.mem) BY <2>2, <2>6, <2>9
    <2> QED BY <2>1, <2>15, <2>16, <2>17
  <1> QED BY <1>2, <1>3, <1>4, <1>5, <1>6

\* file_get_block: the block it returns is a block of the file, not its
\* indirect block.
LEMMA GetBlockSafe ==
  ASSUME NEW s, Safe(s, {}), NEW f \in FilesIn(s.mem) \ {Root}, NEW n \in Nat,
         NEW g, g = file_get_block(s, f, n)
  PROVE  /\ Safe(g.s, {}) /\ FilesIn(g.s.mem) = FilesIn(s.mem)
         /\ ~g.err /\ g.s.ok =>
              g.b \in Nums /\ \E k \in Places : k # NDIRECT /\ Val(g.s.mem, f, k) = g.b
PROOF
  <1>1. PICK w : w = WalkAlloc(s, f, n) OBVIOUS
  <1>2. PICK a : a = alloc_block(w.s) OBVIOUS
  <1>3. g = IF ~s.ok \/ ~w.s.ok \/ w.err THEN [s |-> w.s, err |-> TRUE, b |-> Bad]
            ELSE IF Slot(w.s, f, n) = 0
            THEN [s |-> IF a.b = Bad THEN panic(w.s) ELSE SetSlot(a.s, f, n, a.b),
                  err |-> FALSE, b |-> a.b]
            ELSE [s |-> IF Readable(w.s, Slot(w.s, f, n)) THEN w.s ELSE panic(w.s),
                  err |-> FALSE, b |-> Slot(w.s, f, n)]
    BY <1>1, <1>2, Zenon DEF WalkAlloc, file_get_block
  <1> DEFINE p == Slot(w.s, f, n)
  <1>4. /\ Safe(w.s, {}) /\ FilesIn(w.s.mem) = FilesIn(s.mem)
        /\ ~w.err /\ w.s.ok => HasSlot(w.s.mem, f, n)
    BY <1>1, WalkSafe
  <1>5. Safe(panic(w.s), {}) /\ panic(w.s).mem = w.s.mem /\ panic(w.s).ok = FALSE
    BY <1>4, PanicIs, PanicSafe DEF Safe
  <1>6. Good(w.s.mem) BY <1>4 DEF Safe
  <1>7. CASE ~s.ok \/ ~w.s.ok \/ w.err
    <2>1. g = [s |-> w.s, err |-> TRUE, b |-> Bad] BY <1>3, <1>7
    <2> QED BY <1>4, <2>1
  <1>8. CASE ~(~s.ok \/ ~w.s.ok \/ w.err) /\ p = 0
    <2>1. g = [s |-> IF a.b = Bad THEN panic(w.s) ELSE SetSlot(a.s, f, n, a.b),
               err |-> FALSE, b |-> a.b]
      BY <1>3, <1>8
    <2>2. HasSlot(w.s.mem, f, n) /\ f \in FilesIn(w.s.mem) \ {Root} BY <1>4, <1>8
    <2>3. Place(n) \in Places /\ Val(w.s.mem, f, Place(n)) = 0 BY <1>6, <1>8, <2>2, SlotVal
    <2>4. /\ Safe(a.s, {}) /\ a.s.ok = w.s.ok /\ FilesIn(a.s.mem) = FilesIn(w.s.mem)
          /\ FileAt(a.s.mem, f) = FileAt(w.s.mem, f)
          /\ Val(a.s.mem, f, Place(n)) = Val(w.s.mem, f, Place(n))
          /\ a.b # Bad =>
               /\ a.b \in Nums /\ a.b \notin a.s.mem[Bitmap].free
               /\ \A h \in FilesIn(w.s.mem), k \in Places : Val(a.s.mem, h, k) # a.b
      BY <1>2, <1>4, <2>2, <2>3, AllocSafe
    <2>5. HasSlot(a.s.mem, f, n) BY <2>2, <2>4 DEF HasSlot
    <2>6. CASE a.b = Bad
      <3>1. g = [s |-> panic(w.s), err |-> FALSE, b |-> a.b] BY <2>1, <2>6
      <3> QED BY <1>4, <1>5, <3>1
    <2>7. CASE a.b # Bad
      <3> DEFINE t == SetSlot(a.s, f, n, a.b)
      <3>1. g = [s |-> t, err |-> FALSE, b |-> a.b] BY <2>1, <2>7
      <3>2. Safe(t, {}) /\ FilesIn(t.mem) = FilesIn(a.s.mem) /\ Val(t.mem, f, Place(n)) = a.b
        BY <2>2, <2>3, <2>4, <2>5, <2>7, SetSlotSafe
      <3>3. Place(n) # NDIRECT BY Sizing DEF Place
      <3> HIDE DEF t
      <3> QED BY <1>4, <2>3, <2>4, <2>7, <3>1, <3>2, <3>3
    <2> QED BY <2>6, <2>7
  <1>9. CASE ~(~s.ok \/ ~w.s.ok \/ w.err) /\ p # 0
    <2>1. g = [s |-> IF Readable(w.s, p) THEN w.s ELSE panic(w.s), err |-> FALSE, b |-> p]
      BY <1>3, <1>9
    <2>2. CASE ~Readable(w.s, p)
      <3>1. g = [s |-> panic(w.s), err |-> FALSE, b |-> p] BY <2>1, <2>2
      <3> QED BY <1>4, <1>5, <3>1
    <2>3. CASE Readable(w.s, p)
      <3>1. g = [s |-> w.s, err |-> FALSE, b |-> p] BY <2>1, <2>3
      <3>2. HasSlot(w.s.mem, f, n) /\ f \in FilesIn(w.s.mem) BY <1>4, <1>9
      <3>3. p # Bad /\ p \in 1..(NBLOCKS - 1) BY <2>3, ReadableFacts
      <3>3a. ~Beyond(p)
        <4> HIDE DEF p
        <4> QED BY <3>3, Sizing DEF Beyond
      <3>4. Place(n) \in Places /\ Val(w.s.mem, f, Place(n)) = p
        BY <1>6, <3>2, <3>3a, SlotVal
      <3>5. p \in Nums BY <1>6, <1>9, <3>2, <3>3, <3>4, OwnFacts
      <3>6. Place(n) # NDIRECT BY Sizing DEF Place
      <3> QED BY <1>4, <3>1, <3>4, <3>5, <3>6
    <2> QED BY <2>2, <2>3
  <1> QED BY <1>7, <1>8, <1>9

-----------------------------------------------------------------------------
(* Loops *)

\* The step k of a loop is F[<<x, k>>]; it stays in S; t are the states of a
\* loop that starts in s.
StepsIn(N, S, F) == \A x \in S, k \in 1..N : F[<<x, k>>] \in S
Runs(N, s, F, t) == t[0] = s /\ \A k \in 1..N : t[k] = F[<<t[k - 1], k>>]

\* A loop of N steps over states of S has a run.
LEMMA LoopRuns ==
  ASSUME NEW N \in Nat, NEW S, NEW s \in S, NEW F, StepsIn(N, S, F)
  PROVE  \E t \in [0..N -> S] : Runs(N, s, F, t)
PROOF
  <1>0. \A x \in S, k \in 1..N : F[<<x, k>>] \in S BY DEF StepsIn
  <1> DEFINE Is(t, m) == t[0] = s /\ \A k \in 1..m : t[k] = F[<<t[k - 1], k>>]
             Has(m) == \E t \in [0..m -> S] : Is(t, m)
             M == {m \in Nat : m <= N /\ ~Has(m)}
  <1>1. Has(0)
    <2> DEFINE t == [k \in 0..0 |-> s]
    <2>1. t \in [0..0 -> S] /\ t[0] = s OBVIOUS
    <2>2. \A k \in 1..0 : FALSE OBVIOUS
    <2> HIDE DEF t
    <2> QED BY <2>1, <2>2
  <1>2. ASSUME NEW m \in 1..N, Has(m - 1) PROVE Has(m)
    <2>1. PICK t \in [0..(m - 1) -> S] : Is(t, m - 1) BY <1>2
    <2>2. m - 1 \in 0..(m - 1) OBVIOUS
    <2>3. t[m - 1] \in S BY <2>1, <2>2
    <2> DEFINE e == F[<<t[m - 1], m>>]
    <2>4. e \in S BY <1>0, <2>3
    <2> DEFINE g == [k \in 0..m |-> IF k = m THEN e ELSE t[k]]
    <2>5. \A k \in 0..m : k # m => k \in 0..(m - 1) OBVIOUS
    <2>6. g \in [0..m -> S] BY <2>1, <2>4, <2>5
    <2>7. g[m] = e /\ \A k \in 0..(m - 1) : g[k] = t[k] OBVIOUS
    <2> HIDE DEF g
    <2>8. ASSUME NEW k \in 1..m PROVE g[k] = F[<<g[k - 1], k>>]
      <3>1. k - 1 \in 0..(m - 1) /\ g[k - 1] = t[k - 1] BY <2>7
      <3>2. CASE k = m BY <2>7, <3>1, <3>2
      <3>3. CASE k # m
        <4>1. k \in 1..(m - 1) /\ k \in 0..(m - 1) BY <3>3
        <4> QED BY <2>1, <2>7, <3>1, <4>1
      <3> QED BY <3>2, <3>3
    <2>9. g[0] = s BY <2>1, <2>7
    <2> QED BY <2>6, <2>8, <2>9
  <1> HIDE DEF Has
  <1>3. ASSUME M # {} PROVE FALSE
    <2>1. PICK m \in M : \A y \in M : m <= y BY <1>3, MinNat
    <2>2. m # 0 /\ m \in 1..N BY <1>1, <2>1
    <2>3. m - 1 \in Nat /\ m - 1 \notin M BY <2>1, <2>2
    <2>4. Has(m - 1) BY <2>2, <2>3
    <2> QED BY <1>2, <2>1, <2>2, <2>4
  <1>4. Has(N) BY <1>3
  <1> QED BY <1>4 DEF Has, Runs

\* What its first state has and every step keeps, its last state has.
LEMMA LoopKeeps ==
  ASSUME NEW N \in Nat, NEW S, NEW t, t[0] \in S,
         \A k \in 1..N : t[k - 1] \in S => t[k] \in S
  PROVE  t[N] \in S
PROOF
  <1> DEFINE M == {k \in Nat : k <= N /\ t[k] \notin S}
  <1>1. ASSUME M # {} PROVE FALSE
    <2>1. PICK m \in M : \A y \in M : m <= y BY <1>1, MinNat
    <2>2. m \in 1..N BY <2>1
    <2>3. m - 1 \in Nat /\ m - 1 \notin M BY <2>1, <2>2
    <2> QED BY <2>1, <2>2, <2>3
  <1> QED BY <1>1

\* One round of the loop of file_read.
LEMMA ReadNthSafe ==
  ASSUME NEW s, Safe(s, {}), NEW f \in FilesIn(s.mem) \ {Root}, NEW n \in Nat
  PROVE  Safe(read_nth(s, f, n), {}) /\ FilesIn(read_nth(s, f, n).mem) = FilesIn(s.mem)
PROOF
  <1>1. PICK g : g = file_get_block(s, f, n) OBVIOUS
  <1>2. Safe(g.s, {}) /\ FilesIn(g.s.mem) = FilesIn(s.mem) BY <1>1, GetBlockSafe
  <1>3. read_nth(s, f, n) \in {s, g.s} BY <1>1 DEF read_nth
  <1> QED BY <1>2, <1>3

\* file_read: a hole is filled, with the disk and the cache safe at each block.
LEMMA ReadSafe ==
  ASSUME NEW s, Safe(s, {}), NEW f \in FilesIn(s.mem) \ {Root}
  PROVE  Safe(file_read(s, f), {})
PROOF
  <1> DEFINE N == Get(s, f).size
             S == {x \in StateSet : Safe(x, {}) /\ FilesIn(x.mem) = FilesIn(s.mem)}
             F == [y \in S \X (1..N) |-> read_nth(y[1], f, y[2] - 1)]
             Is(t) == t = [k \in 0..N |-> IF k = 0 THEN s ELSE read_nth(t[k - 1], f, k - 1)]
             r == CHOOSE t : Is(t)
  <1>1. N \in Nat BY FileAtOf, GoodFiles DEF Safe, FileSet
  <1>2. s \in S BY DEF Safe
  <1>3. ASSUME NEW x \in S, NEW k \in 1..N PROVE read_nth(x, f, k - 1) \in S
    <2>1. k - 1 \in Nat BY <1>1
    <2>2. Safe(x, {}) /\ FilesIn(x.mem) = FilesIn(s.mem) BY <1>3
    <2>3. Safe(read_nth(x, f, k - 1), {}) /\ FilesIn(read_nth(x, f, k - 1).mem) = FilesIn(x.mem)
      BY <2>1, <2>2, ReadNthSafe
    <2> QED BY <2>2, <2>3 DEF Safe
  <1>4. file_read(s, f) = r[N] BY Zenon DEF file_read
  <1> HIDE DEF N, S
  <1>5. \A x \in S, k \in 1..N : F[<<x, k>>] = read_nth(x, f, k - 1) OBVIOUS
  <1> HIDE DEF F
  <1>6. PICK t \in [0..N -> S] : t[0] = s /\ \A k \in 1..N : t[k] = F[<<t[k - 1], k>>]
    <2>1. StepsIn(N, S, F) BY <1>3, <1>5 DEF StepsIn
    <2>2. PICK t \in [0..N -> S] : Runs(N, s, F, t) BY <1>1, <1>2, <2>1, LoopRuns
    <2> QED BY <2>2 DEF Runs
  <1>7. Is(t)
    <2>1. \A k \in 0..N : k # 0 => k \in 1..N /\ k - 1 \in 0..N BY <1>1
    <2>2. \A k \in 0..N : k # 0 => t[k] = read_nth(t[k - 1], f, k - 1)
      BY <1>5, <1>6, <2>1
    <2>3. t = [k \in 0..N |-> t[k]] BY <1>6
    <2> QED BY <1>6, <2>2, <2>3
  <1>8. Is(r) BY <1>7
  <1> HIDE DEF r
  <1>9. r[0] = s /\ \A k \in 1..N : r[k] = read_nth(r[k - 1], f, k - 1) BY <1>1, <1>8
  <1>10. r[N] \in S
    <2>1. \A k \in 1..N : r[k - 1] \in S => r[k] \in S BY <1>3, <1>9
    <2>2. r[0] \in S BY <1>2, <1>9
    <2> QED BY <1>1, <2>1, <2>2, LoopKeeps
  <1> QED BY <1>4, <1>10 DEF S

-----------------------------------------------------------------------------
(* Freeing blocks *)

\* The free blocks after free_block(p).
FreeWith(m, p) == IF p \in Nums THEN m[Bitmap].free \cup {p} ELSE m[Bitmap].free

\* What free_block does, unless it sets a bit outside the bitmap.
LEMMA FreeIs ==
  ASSUME NEW s \in StateSet, Good(s.mem), NEW p, Beyond(p) \/ p \in Nums,
         NEW v, v = free_block(s, p), v # panic(s)
  PROVE  /\ v \in StateSet /\ v.disk = s.disk /\ v.images = s.images /\ v.ok = s.ok
         /\ v.mem = WithBlock(s.mem, Bitmap, BitmapBlock(FreeWith(s.mem, p)))
         /\ FreeWith(s.mem, p) \in SUBSET Nums
PROOF
  <1> DEFINE m == s.mem
             free == m[Bitmap].free
  <1>1. /\ m \in BlockSet /\ Bitmap \in DOMAIN m /\ m[Bitmap] = BitmapBlock(free)
        /\ free \in SUBSET Nums
    BY GoodFiles, KindFacts DEF Good
  <1>2. FreeWith(m, p) \in SUBSET Nums BY <1>1 DEF FreeWith
  <1>3. CASE p \notin Nums
    <2>0. ~(p < NBLOCKS) BY <1>3, Sizing DEF Beyond
    <2>1. v = s BY <2>0, Zenon DEF free_block
    <2>2. WithBlock(m, Bitmap, BitmapBlock(free)) = m BY <1>1 DEF WithBlock, BlockSet
    <2> QED BY <1>2, <1>3, <2>1, <2>2 DEF FreeWith
  <1>4. CASE p \in Nums
    <2>0. p < NBLOCKS BY <1>4, Sizing DEF Nums
    <2>1. v = [s EXCEPT !.mem[Bitmap].free = @ \cup {p}] BY <2>0, Zenon DEF free_block
    <2>2. [m[Bitmap] EXCEPT !.free = @ \cup {p}] = BitmapBlock(free \cup {p})
      BY <1>1 DEF BitmapBlock
    <2> DEFINE n == WithBlock(m, Bitmap, BitmapBlock(free \cup {p}))
    <2>3. v = [s EXCEPT !.mem = n] BY <1>1, <2>1, <2>2 DEF WithBlock, StateSet
    <2>4. BitmapBlock(free \cup {p}) \in Contents BY <1>2, <1>4, MakeFacts DEF FreeWith
    <2>5. n \in BlockSet BY <1>1, <2>4 DEF WithBlock, BlockSet
    <2> HIDE DEF n
    <2>6. v \in StateSet /\ v.disk = s.disk /\ v.images = s.images /\ v.ok = s.ok /\ v.mem = n
      BY <2>3, <2>5 DEF StateSet
    <2> QED BY <1>2, <1>4, <2>6 DEF FreeWith, n
  <1> QED BY <1>3, <1>4

\* A block that was taken from the file f may be freed.
LEMMA FreeGood ==
  ASSUME NEW m, Good(m), NEW x, Good(x), FilesIn(x) = FilesIn(m), x[Bitmap] = m[Bitmap],
         NEW f \in FilesIn(m), NEW k0 \in Places, Val(x, f, k0) = 0,
         \A g \in FilesIn(m), k \in Places :
           ~(g = f /\ k = k0) => Val(x, g, k) \in {0, Bad, Val(m, g, k)},
         NEW p, p \in Nums => p = Val(m, f, k0),
         NEW n, n = WithBlock(x, Bitmap, BitmapBlock(FreeWith(m, p)))
  PROVE  /\ Good(n) /\ FilesIn(n) = FilesIn(m) /\ n[Super] = x[Super]
         /\ m[Bitmap].free \subseteq n[Bitmap].free
         /\ \A b \in DOMAIN x : n[b].kind = "dir" <=> x[b].kind = "dir"
         /\ \A g \in FilesIn(m) : FileAt(n, g) = FileAt(x, g)
PROOF
  <1> DEFINE F == FreeWith(m, p)
  <1>1. m[Bitmap].free \in SUBSET Nums BY GoodFiles
  <1>2. p \in Nums => \A g \in FilesIn(m), l \in Places : Val(m, g, l) = p => g = f /\ l = k0
    BY OwnFacts, Sizing DEF Nums
  <1>3. F \in SUBSET Nums /\ m[Bitmap].free \subseteq F BY <1>1, <1>2 DEF FreeWith
  <1>4. ASSUME NEW g \in FilesIn(m), NEW k \in Places PROVE Val(x, g, k) \notin F
    <2>1. CASE Val(x, g, k) \in {0, Bad} BY <1>3, <2>1, Sizing DEF Nums
    <2>2. CASE Val(x, g, k) \notin {0, Bad}
      <3>1. ~(g = f /\ k = k0) /\ Val(x, g, k) = Val(m, g, k) BY <2>2
      <3>2. Val(m, g, k) \notin m[Bitmap].free BY <2>2, <3>1, OwnFacts
      <3>3. p \in Nums => Val(m, g, k) # p BY <1>2, <3>1
      <3> QED BY <3>1, <3>2, <3>3 DEF FreeWith
    <2> QED BY <2>1, <2>2
  <1>5. n = [x EXCEPT ![Bitmap] = BitmapBlock(F)] BY DEF WithBlock
  <1> HIDE DEF F
  <1>6. LET y == [x EXCEPT ![Bitmap] = BitmapBlock(F)]
        IN /\ Good(y) /\ FilesIn(y) = FilesIn(x) /\ y[Super] = x[Super] /\ y[Bitmap].free = F
           /\ \A b \in DOMAIN x : b # Bitmap => y[b] = x[b]
           /\ \A b \in DOMAIN x : y[b].kind = "dir" <=> x[b].kind = "dir"
           /\ \A g \in FilesIn(x) :
                FileAt(y, g) = FileAt(x, g) /\ \A k \in Places : Val(y, g, k) = Val(x, g, k)
    BY <1>3, <1>4, BitmapStep
  <1> QED BY <1>3, <1>5, <1>6

\* The blocks x are m without the number at the place k0 of f.
TookAway(m, x, f, k0) ==
  /\ Good(x) /\ FilesIn(x) = FilesIn(m) /\ x[Super] = m[Super] /\ x[Bitmap] = m[Bitmap]
  /\ \A b \in DOMAIN m : x[b].kind = m[b].kind
  /\ k0 \in Places /\ Val(x, f, k0) = 0
  /\ \A g \in FilesIn(m), k \in Places :
       ~(g = f /\ k = k0) => Val(x, g, k) \in {0, Bad, Val(m, g, k)}
  /\ \A g \in FilesIn(m), k \in 0..NDIRECT :
       ~(g = f /\ k = k0) => Ptr(x, g, k) = Ptr(m, g, k)

\* The file that is being truncated.
Only(f) == {f}

\* The state t is s without the block number p at the place k0 of f, and
\* with that block free.
Frees(s, t, f, x, k0, p) ==
  /\ f \in FilesIn(s.mem) /\ TookAway(s.mem, x, f, k0)
  /\ p \in Nums => p = Val(s.mem, f, k0)
  /\ t \in StateSet /\ t.disk = s.disk /\ t.images = s.images
  /\ t.mem = WithBlock(x, Bitmap, BitmapBlock(FreeWith(s.mem, p)))

\* What frees a block of f and takes its pointer away is safe but for
\* the disk's copy of f.
LEMMA FreeSafe ==
  ASSUME NEW s, NEW f, Safe(s, Only(f)), NEW t, NEW x, NEW k0, NEW p, Frees(s, t, f, x, k0, p)
  PROVE  Safe(t, Only(f)) /\ FilesIn(t.mem) = FilesIn(s.mem)
PROOF
  <1>0. /\ f \in FilesIn(s.mem) /\ TookAway(s.mem, x, f, k0)
        /\ p \in Nums => p = Val(s.mem, f, k0)
        /\ t \in StateSet /\ t.disk = s.disk /\ t.images = s.images
        /\ t.mem = WithBlock(x, Bitmap, BitmapBlock(FreeWith(s.mem, p)))
    BY DEF Frees
  <1>1. s \in StateSet /\ Good(s.mem) /\ Below(s.disk, s.mem, Only(f)) /\ s.disk \in BlockSet
    BY DEF Safe, StateSet
  <1>2. PICK m : m = s.mem OBVIOUS
  <1>2a. /\ Good(x) /\ FilesIn(x) = FilesIn(m) /\ x[Super] = m[Super] /\ x[Bitmap] = m[Bitmap]
         /\ \A b \in DOMAIN m : x[b].kind = m[b].kind
         /\ k0 \in Places /\ Val(x, f, k0) = 0
         /\ \A g \in FilesIn(m), k \in Places :
              ~(g = f /\ k = k0) => Val(x, g, k) \in {0, Bad, Val(m, g, k)}
         /\ \A g \in FilesIn(m), k \in 0..NDIRECT :
              ~(g = f /\ k = k0) => Ptr(x, g, k) = Ptr(m, g, k)
    BY <1>0, <1>2 DEF TookAway
  <1>3. PICK n : n = t.mem OBVIOUS
  <1>4. /\ Good(n) /\ FilesIn(n) = FilesIn(m) /\ n[Super] = x[Super]
        /\ m[Bitmap].free \subseteq n[Bitmap].free
        /\ \A b \in DOMAIN x : n[b].kind = "dir" <=> x[b].kind = "dir"
        /\ \A g \in FilesIn(m) : FileAt(n, g) = FileAt(x, g)
    BY <1>0, <1>1, <1>2, <1>2a, <1>3, FreeGood
  <1>5. DOMAIN x = DOMAIN m BY <1>1, <1>2, <1>2a, GoodFiles
  <1>6. Below(s.disk, n, Only(f))
    <2>1. \A b \in DOMAIN m : n[b].kind = "dir" <=> m[b].kind = "dir" BY <1>2a, <1>4, <1>5
    <2>2. \A g \in FilesIn(m) \ Only(f), k \in 0..NDIRECT : Ptr(n, g, k) = Ptr(m, g, k)
      BY <1>2a, <1>4 DEF Ptr, Only
    <2>3. n[Super] = m[Super] BY <1>2a, <1>4
    <2> QED BY <1>0, <1>1, <1>2, <1>4, <2>1, <2>2, <2>3, BelowStep
  <1> QED BY <1>0, <1>2, <1>3, <1>4, <1>6, CacheSafe

\* One round of the loop of file_truncate_blocks.
LEMMA FreeNthSafe ==
  ASSUME NEW s, NEW f \in FilesIn(s.mem) \ {Root}, Safe(s, Only(f)), NEW n \in Nat
  PROVE  Safe(free_nth(s, f, n), Only(f)) /\ FilesIn(free_nth(s, f, n).mem) = FilesIn(s.mem)
PROOF
  <1>1. PICK w : w = Walk(s, f, n) OBVIOUS
  <1>2. PICK m : m = s.mem OBVIOUS
  <1>3. s \in StateSet /\ Good(m) BY <1>2 DEF Safe
  <1> DEFINE p == Slot(w.s, f, n)
             u == free_block(w.s, p)
             t == SetSlot(u, f, n, 0)
  <1>3a. PICK r : r = free_nth(s, f, n) OBVIOUS
  <1>4. r = IF ~s.ok THEN s
            ELSE IF w.err \/ ~w.s.ok \/ p = 0 THEN w.s ELSE IF u.ok THEN t ELSE u
    BY <1>1, <1>3a, Zenon DEF Walk, free_nth, file_free_block
  <1>5. /\ w.s \in {s, panic(s)}
        /\ ~w.err /\ w.s.ok => HasSlot(m, f, n) /\ w.s = s
    BY <1>1, <1>2, <1>3, WalkNoAlloc
  <1>6. Safe(panic(s), Only(f)) /\ panic(s).mem = m BY <1>2, <1>3, PanicSafe, PanicIs
  <1>7. CASE ~s.ok \/ w.err \/ ~w.s.ok \/ p = 0
    <2>1. r \in {s, panic(s)} BY <1>4, <1>5, <1>7
    <2> QED BY <1>2, <1>3a, <1>6, <2>1
  <1>7a. CASE ~(~s.ok \/ w.err \/ ~w.s.ok \/ p = 0) /\ u = panic(s)
    <2>1. ~u.ok BY <1>3, <1>7a, <1>2, PanicIs
    <2>2. r = u BY <1>4, <1>7a, <2>1
    <2> QED BY <1>2, <1>3a, <1>6, <1>7a, <2>2
  <1>8. CASE ~(~s.ok \/ w.err \/ ~w.s.ok \/ p = 0) /\ u # panic(s)
    <2>0. w.s = s /\ HasSlot(m, f, n) /\ p # 0 BY <1>5, <1>8
    <2>2. Place(n) \in Places /\ (p = Val(m, f, Place(n)) \/ Beyond(p))
      BY <1>2, <1>3, <2>0, SlotVal
    <2> HIDE DEF p
    <2>3. Beyond(p) \/ p \in Nums
      BY <1>2, <1>3, <2>0, <2>2, OwnFacts, Sizing DEF Beyond
    <2>4. PICK v : v = free_block(s, p) OBVIOUS
    <2>4a. v # panic(s) /\ u = v BY <1>8, <2>0, <2>4
    <2>5. /\ v \in StateSet /\ v.disk = s.disk /\ v.images = s.images
          /\ v.mem = WithBlock(m, Bitmap, BitmapBlock(FreeWith(m, p)))
          /\ FreeWith(m, p) \in SUBSET Nums /\ v.ok = s.ok
      BY <1>2, <1>3, <2>3, <2>4, <2>4a, FreeIs
    <2>1. r = t /\ w.s = s /\ HasSlot(m, f, n) /\ p # 0
      BY <1>4, <1>8, <2>0, <2>4a, <2>5
    <2>6. PICK x : x = WithSlot(m, f, n, 0) OBVIOUS
    <2> DEFINE B == SlotBlock(m, f, n)
               C == SlotContent(m, f, n, 0)
               G == BitmapBlock(FreeWith(m, p))
    <2>7. /\ Good(x) /\ FilesIn(x) = FilesIn(m) /\ x[Super] = m[Super] /\ x[Bitmap] = m[Bitmap]
          /\ B \in Nums /\ C \in Contents
          /\ \A b \in DOMAIN m : x[b].kind = m[b].kind
          /\ Val(x, f, Place(n)) = 0
          /\ \A g \in FilesIn(m), k \in Places :
               ~(g = f /\ k = Place(n)) => Val(x, g, k) \in {0, Bad, Val(m, g, k)}
          /\ \A g \in FilesIn(m), k \in 0..NDIRECT :
               ~(g = f /\ k = Place(n)) => Ptr(x, g, k) = Ptr(m, g, k)
      <3>1. /\ n \in 0..(NDIRECT + NINDIRECT - 1)
            /\ n >= NDIRECT => FileAt(m, f).indirect \notin {0, Bad}
        BY <2>1 DEF HasSlot
      <3> QED BY <1>2, <1>3, <2>6, <3>1, SlotStep
    <2>8. /\ f[1] \in Nums /\ m[f[1]].kind = "dir" /\ f[1] \in DOMAIN m /\ f[1] # Bitmap
          /\ DOMAIN m = 1..(NBLOCKS - 1) /\ Bitmap \in DOMAIN m /\ m \in BlockSet
      <3>1. f[1] \in Nums /\ m[f[1]].kind = "dir" BY <1>2, <1>3, GoodFiles
      <3> QED BY <1>3, <3>1, GoodFiles, Sizing DEF Nums
    <2>9. \A b \in DOMAIN m : b # Bitmap => v.mem[b] = m[b]
      BY <2>5, <2>8 DEF WithBlock
    <2>10. SlotBlock(v.mem, f, n) = B /\ SlotContent(v.mem, f, n, 0) = C
      <3>1. v.mem[f[1]] = m[f[1]] BY <2>8, <2>9
      <3>2. FileAt(v.mem, f) = FileAt(m, f) BY <3>1, FileBlock
      <3>3. ~(n < NDIRECT) => v.mem[FileAt(m, f).indirect] = m[FileAt(m, f).indirect]
        <4>1. ASSUME ~(n < NDIRECT) PROVE FileAt(m, f).indirect \notin {0, Bad}
          BY <2>1, <4>1, Sizing DEF HasSlot
        <4>2. ASSUME ~(n < NDIRECT)
              PROVE FileAt(m, f).indirect \in DOMAIN m /\ FileAt(m, f).indirect # Bitmap
          BY <1>2, <1>3, <4>1, <4>2, IndirectOwned
        <4> QED BY <2>9, <4>2
      <3>4. CASE n < NDIRECT BY <3>1, <3>2, <3>4, Zenon DEF SlotBlock, SlotContent
      <3>5. CASE ~(n < NDIRECT) BY <3>2, <3>3, <3>5, Zenon DEF SlotBlock, SlotContent
      <3> QED BY <3>4, <3>5
    <2>11. t = Put(v, B, C)
      <3>1. v.mem[f[1]].kind = "dir" BY <2>8, <2>9
      <3>2. t = SetSlot(v, f, n, 0) BY <2>1, <2>4
      <3>3. SetSlot(v, f, n, 0) = Put(v, SlotBlock(v.mem, f, n), SlotContent(v.mem, f, n, 0))
        BY <3>1, SetSlotIs
      <3> QED BY <2>10, <3>2, <3>3
    <2> HIDE DEF t
    <2>12. /\ t \in StateSet /\ t.disk = s.disk /\ t.images = s.images
           /\ t.mem = [v.mem EXCEPT ![B] = C]
      <3>1. B \in 1..(NBLOCKS - 1) BY <2>7, Sizing DEF Nums
      <3> HIDE DEF B, C
      <3> QED BY <2>5, <2>7, <2>11, <3>1, PutIs
    <2>13. t.mem = WithBlock(x, Bitmap, G)
      <3>1. B # Bitmap /\ B \in DOMAIN m BY <2>7, <2>8, Sizing DEF Nums
      <3>2. x = [m EXCEPT ![B] = C] BY <2>6 DEF WithSlot
      <3> HIDE DEF B, C, G
      <3>3. v.mem = [m EXCEPT ![Bitmap] = G] BY <2>5 DEF WithBlock, G
      <3>4. [[m EXCEPT ![Bitmap] = G] EXCEPT ![B] = C]
              = [[m EXCEPT ![B] = C] EXCEPT ![Bitmap] = G]
        BY <2>8, <3>1
      <3> QED BY <2>12, <3>2, <3>3, <3>4 DEF WithBlock
    <2>14. Safe(t, Only(f)) /\ FilesIn(t.mem) = FilesIn(m)
      <3>1. TookAway(m, x, f, Place(n)) BY <2>2, <2>7 DEF TookAway
      <3>2. /\ t \in StateSet /\ t.disk = s.disk /\ t.images = s.images
            /\ t.mem = WithBlock(x, Bitmap, BitmapBlock(FreeWith(s.mem, p)))
        BY <1>2, <2>12, <2>13
      <3>3. p \in Nums => p = Val(s.mem, f, Place(n)) BY <1>2, <2>2, Sizing DEF Nums, Beyond
      <3>3a. Frees(s, t, f, x, Place(n), p) BY <3>1, <3>2, <3>3, <1>2 DEF Frees
      <3>4. Safe(t, Only(f)) /\ FilesIn(t.mem) = FilesIn(s.mem) BY <3>3a, FreeSafe
      <3> QED BY <1>2, <3>4
    <2> QED BY <1>2, <1>3a, <2>1, <2>14
  <1> QED BY <1>7, <1>7a, <1>8

\* A state without a truncated file is safe whatever file is truncated.
LEMMA SafeAny ==
  ASSUME NEW s, Safe(s, {}), NEW X PROVE Safe(s, X)
BY DEF Safe, Below

\* The loop of file_truncate_blocks.
LEMMA FreeBlocksSafe ==
  ASSUME NEW s, Safe(s, {}), NEW f \in FilesIn(s.mem) \ {Root},
         NEW size \in Nat, NEW old \in Nat, old > size
  PROVE  /\ Safe(free_blocks(s, f, size, old), Only(f))
         /\ FilesIn(free_blocks(s, f, size, old).mem) = FilesIn(s.mem)
PROOF
  <1> DEFINE N == old - size
             S == {x \in StateSet : Safe(x, Only(f)) /\ FilesIn(x.mem) = FilesIn(s.mem)}
             F == [y \in S \X (1..N) |-> free_nth(y[1], f, size + y[2] - 1)]
             Is(t) == t = [k \in 0..N |-> IF k = 0 THEN s ELSE free_nth(t[k - 1], f, size + k - 1)]
             r == CHOOSE t : Is(t)
  <1>1. N \in Nat OBVIOUS
  <1>2. s \in S BY SafeAny DEF Safe
  <1>3. ASSUME NEW x \in S, NEW k \in 1..N PROVE free_nth(x, f, size + k - 1) \in S
    <2>1. size + k - 1 \in Nat BY <1>1
    <2>2. Safe(x, Only(f)) /\ FilesIn(x.mem) = FilesIn(s.mem) BY <1>3
    <2>3. /\ Safe(free_nth(x, f, size + k - 1), Only(f))
          /\ FilesIn(free_nth(x, f, size + k - 1).mem) = FilesIn(x.mem)
      BY <2>1, <2>2, FreeNthSafe
    <2> QED BY <2>2, <2>3 DEF Safe
  <1>4. free_blocks(s, f, size, old) = r[N] BY Zenon DEF free_blocks
  <1> HIDE DEF N, S
  <1>5. \A x \in S, k \in 1..N : F[<<x, k>>] = free_nth(x, f, size + k - 1) OBVIOUS
  <1> HIDE DEF F
  <1>6. PICK t \in [0..N -> S] : t[0] = s /\ \A k \in 1..N : t[k] = F[<<t[k - 1], k>>]
    <2>1. StepsIn(N, S, F) BY <1>3, <1>5 DEF StepsIn
    <2>2. PICK t \in [0..N -> S] : Runs(N, s, F, t) BY <1>1, <1>2, <2>1, LoopRuns
    <2> QED BY <2>2 DEF Runs
  <1>7. Is(t)
    <2>1. \A k \in 0..N : k # 0 => k \in 1..N /\ k - 1 \in 0..N BY <1>1
    <2>2. \A k \in 0..N : k # 0 => t[k] = free_nth(t[k - 1], f, size + k - 1)
      BY <1>5, <1>6, <2>1
    <2>3. t = [k \in 0..N |-> t[k]] BY <1>6
    <2> QED BY <1>6, <2>2, <2>3
  <1>8. Is(r) BY <1>7
  <1> HIDE DEF r
  <1>9. r[0] = s /\ \A k \in 1..N : r[k] = free_nth(r[k - 1], f, size + k - 1) BY <1>1, <1>8
  <1>10. r[N] \in S
    <2>1. \A k \in 1..N : r[k - 1] \in S => r[k] \in S BY <1>3, <1>9
    <2>2. r[0] \in S BY <1>2, <1>9
    <2> QED BY <1>1, <2>1, <2>2, LoopKeeps
  <1> QED BY <1>4, <1>10 DEF S

\* Set on a state, through the blocks it leaves.
LEMMA SetSafe ==
  ASSUME NEW s \in StateSet, Good(s.mem), NEW f \in FilesIn(s.mem) \ {Root}, NEW file \in FileSet,
         NEW t, t = Set(s, f, file)
  PROVE  /\ t \in StateSet /\ t.disk = s.disk /\ t.images = s.images /\ t.ok = s.ok
         /\ t.mem = WithEntry(s.mem, f, file)
PROOF
  <1>1. PICK m : m = s.mem OBVIOUS
  <1>2. /\ f[1] \in Nums /\ m[f[1]].kind = "dir" /\ f[2] \in 1..BLKFILES
        /\ DOMAIN m = 1..(NBLOCKS - 1)
    BY <1>1, GoodFiles
  <1>3. f[1] \in 1..(NBLOCKS - 1) BY <1>2, Sizing DEF Nums
  <1> DEFINE D == DirBlock([m[f[1]].ents EXCEPT ![f[2]] = file])
  <1>4. t = Put(s, f[1], D) BY <1>1, <1>2, SetIs
  <1>5. D \in Contents
    <2>1. m[f[1]].ents \in [1..BLKFILES -> FileSet] BY <1>1, <1>2, <1>3, GoodFiles, KindFacts
    <2>2. [m[f[1]].ents EXCEPT ![f[2]] = file] \in [1..BLKFILES -> FileSet] BY <2>1
    <2> QED BY <2>2, MakeFacts
  <1>6. WithEntry(m, f, file) = [m EXCEPT ![f[1]] = D] BY DEF WithEntry
  <1> HIDE DEF D
  <1> QED BY <1>1, <1>3, <1>4, <1>5, <1>6, PutIs

\* file_truncate_blocks: the indirect block goes with the last of its numbers.
LEMMA TruncateSafe ==
  ASSUME NEW s, Safe(s, {}), NEW f \in FilesIn(s.mem) \ {Root}, NEW size \in Nat,
         Get(s, f).size > size,
         NEW r, r = file_truncate_blocks(s, f, size)
  PROVE  Safe(r, Only(f)) /\ FilesIn(r.mem) = FilesIn(s.mem)
PROOF
  <1>1. PICK t : t = free_blocks(s, f, size, Get(s, f).size) OBVIOUS
  <1>2. Get(s, f).size \in Nat BY FileAtOf, GoodFiles DEF Safe, FileSet
  <1>3. Safe(t, Only(f)) /\ FilesIn(t.mem) = FilesIn(s.mem) BY <1>1, <1>2, FreeBlocksSafe
  <1>4. PICK m : m = t.mem OBVIOUS
  <1>5. PICK file : file = Get(t, f) OBVIOUS
  <1>6. /\ t \in StateSet /\ Good(m) /\ f \in FilesIn(m) \ {Root} /\ file = FileAt(m, f)
        /\ file \in FileSet
    BY <1>3, <1>4, <1>5, FileAtOf, GoodFiles DEF Safe
  <1>7. PICK i : i = file.indirect OBVIOUS
  <1>8. PICK nf : nf = [file EXCEPT !.indirect = 0] OBVIOUS
  <1>8a. PICK v : v = free_block(t, i) OBVIOUS
  <1>9. r = IF ~t.ok \/ size > NDIRECT \/ i = 0 THEN t
            ELSE IF v.ok THEN Set(v, f, [Get(v, f) EXCEPT !.indirect = 0]) ELSE v
    BY <1>1, <1>5, <1>7, <1>8a, Zenon DEF file_truncate_blocks
  <1>10. CASE ~t.ok \/ size > NDIRECT \/ i = 0 BY <1>3, <1>9, <1>10
  <1>10a. CASE ~(~t.ok \/ size > NDIRECT \/ i = 0) /\ v = panic(t)
    <2>1. Safe(panic(t), Only(f)) /\ panic(t).mem = m /\ ~v.ok
      BY <1>3, <1>4, <1>6, <1>10a, PanicSafe, PanicIs
    <2>2. r = v BY <1>9, <1>10a, <2>1
    <2> QED BY <1>3, <1>4, <1>10a, <2>1, <2>2
  <1>11. CASE ~(~t.ok \/ size > NDIRECT \/ i = 0) /\ v # panic(t)
    <2>1. nf \in FileSet /\ nf.indirect = 0 /\ \A k \in FileNumbers : nf.direct[k] = file.direct[k]
      BY <1>6, <1>8, Sizing DEF FileSet, Pointers
    <2>2. PICK x : x = WithEntry(m, f, nf) OBVIOUS
    <2>3. /\ Good(x) /\ FilesIn(x) = FilesIn(m) /\ x[Super] = m[Super] /\ x[Bitmap] = m[Bitmap]
          /\ \A b \in DOMAIN m : x[b].kind = m[b].kind
          /\ \A g \in FilesIn(m), k \in Places :
               ~(g = f /\ k = NDIRECT) => Val(x, g, k) \in {0, Bad, Val(m, g, k)}
          /\ \A g \in FilesIn(m), k \in 0..NDIRECT :
               ~(g = f /\ k = NDIRECT) => Ptr(x, g, k) = Ptr(m, g, k)
          /\ Val(x, f, NDIRECT) = 0
      BY <1>6, <2>1, <2>2, EntryGood
    <2>4. NDIRECT \in Places /\ Val(m, f, NDIRECT) = i
      <3>1. NDIRECT \in 0..NDIRECT BY Sizing
      <3> QED BY <1>6, <1>7, <3>1, PtrVal DEF Ptr
    <2>5. TookAway(m, x, f, NDIRECT) BY <2>3, <2>4 DEF TookAway
    <2>6. Beyond(i) \/ i \in Nums BY <1>6, <1>11, <2>4, OwnFacts, Sizing DEF Beyond
    <2>8. PICK G : G = BitmapBlock(FreeWith(m, i)) OBVIOUS
    <2>9. /\ v \in StateSet /\ v.disk = t.disk /\ v.images = t.images
          /\ v.mem = WithBlock(m, Bitmap, G)
          /\ FreeWith(m, i) \in SUBSET Nums /\ v.ok = t.ok
      BY <1>4, <1>6, <1>8a, <1>11, <2>6, <2>8, FreeIs
    <2>10. /\ f[1] \in Nums /\ m[f[1]].kind = "dir" /\ f[1] \in DOMAIN m /\ f[1] # Bitmap
           /\ f[2] \in 1..BLKFILES /\ DOMAIN m = 1..(NBLOCKS - 1) /\ Bitmap \in DOMAIN m
      <3>1. f[1] \in Nums /\ m[f[1]].kind = "dir" /\ f[2] \in 1..BLKFILES BY <1>6, GoodFiles
      <3> QED BY <1>6, <3>1, GoodFiles, Sizing DEF Nums
    <2>11. PICK D : D = DirBlock([m[f[1]].ents EXCEPT ![f[2]] = nf]) OBVIOUS
    <2>12. v.mem[f[1]] = m[f[1]] BY <2>9, <2>10 DEF WithBlock
    <2>13. r = Put(v, f[1], D)
      <3>0. Get(v, f) = file BY <1>6, <2>12, FileAtOf, FileBlock, GoodFiles
      <3>1. r = Set(v, f, nf) BY <1>8, <1>9, <1>11, <2>9, <3>0
      <3>2. v.mem[f[1]].kind = "dir" BY <2>10, <2>12
      <3> QED BY <2>11, <2>12, <3>1, <3>2, SetIs
    <2>14. D \in Contents
      <3>1. m[f[1]].ents \in [1..BLKFILES -> FileSet] BY <1>6, <2>10, GoodFiles, KindFacts
      <3>2. [m[f[1]].ents EXCEPT ![f[2]] = nf] \in [1..BLKFILES -> FileSet] BY <2>1, <3>1
      <3> QED BY <2>11, <3>2, MakeFacts
    <2>15. /\ r \in StateSet /\ r.disk = t.disk /\ r.images = t.images
           /\ r.mem = [v.mem EXCEPT ![f[1]] = D]
      BY <2>9, <2>10, <2>13, <2>14, PutIs
    <2>16. r.mem = WithBlock(x, Bitmap, G)
      <3>1. x = [m EXCEPT ![f[1]] = D] BY <2>2, <2>11 DEF WithEntry
      <3>2. v.mem = [m EXCEPT ![Bitmap] = G] BY <2>9 DEF WithBlock
      <3>3. [[m EXCEPT ![Bitmap] = G] EXCEPT ![f[1]] = D]
              = [[m EXCEPT ![f[1]] = D] EXCEPT ![Bitmap] = G]
        BY <2>10
      <3> QED BY <2>15, <3>1, <3>2, <3>3 DEF WithBlock
    <2>17. Frees(t, r, f, x, NDIRECT, i)
      BY <1>4, <1>6, <1>11, <2>4, <2>5, <2>8, <2>15, <2>16 DEF Frees
    <2> QED BY <1>3, <2>17, FreeSafe
  <1> QED BY <1>10, <1>10a, <1>11

\* A file that is being truncated may get any size, or any name.
LEMMA ResizeSafe ==
  ASSUME NEW s, NEW X, Safe(s, X), NEW f \in FilesIn(s.mem) \ {Root}, NEW file \in FileSet,
         file.indirect = FileAt(s.mem, f).indirect,
         \A k \in FileNumbers : file.direct[k] = FileAt(s.mem, f).direct[k],
         NEW t, t = Set(s, f, file)
  PROVE  Safe(t, X) /\ FilesIn(t.mem) = FilesIn(s.mem) /\ t.ok = s.ok
PROOF
  <1>1. PICK m : m = s.mem OBVIOUS
  <1>2. s \in StateSet /\ Good(m) /\ Below(s.disk, m, X) /\ s.disk \in BlockSet
    BY <1>1 DEF Safe, StateSet
  <1>3. PICK n : n = WithEntry(m, f, file) OBVIOUS
  <1>4. /\ t \in StateSet /\ t.disk = s.disk /\ t.images = s.images /\ t.ok = s.ok
        /\ t.mem = n
    BY <1>1, <1>2, <1>3, SetSafe
  <1>5. /\ Good(n) /\ FilesIn(n) = FilesIn(m) /\ n[Super] = m[Super] /\ n[Bitmap] = m[Bitmap]
        /\ \A b \in DOMAIN m : n[b].kind = m[b].kind
        /\ FileAt(n, f) = file
        /\ \A g \in FilesIn(m), k \in 0..NDIRECT :
             ~(g = f /\ k = NDIRECT) => Ptr(n, g, k) = Ptr(m, g, k)
    BY <1>1, <1>2, <1>3, EntryGood
  <1>6. Below(s.disk, n, X)
    <2>1. Ptr(n, f, NDIRECT) = Ptr(m, f, NDIRECT) BY <1>1, <1>5 DEF Ptr
    <2>2. \A g \in FilesIn(m) \ X, k \in 0..NDIRECT : Ptr(n, g, k) = Ptr(m, g, k)
      BY <1>5, <2>1
    <2>3. \A b \in DOMAIN m : n[b].kind = "dir" <=> m[b].kind = "dir" BY <1>5
    <2> QED BY <1>2, <1>5, <2>2, <2>3, BelowStep
  <1> QED BY <1>1, <1>4, <1>5, <1>6, CacheSafe

\* file_set_size: the flush at its end puts the truncated file on the disk
\* before its blocks are used again.
LEMMA SetSizeSafe ==
  ASSUME NEW s, Safe(s, {}), NEW f \in FilesIn(s.mem) \ {Root}, NEW size \in Nat,
         NEW r, r = file_set_size(s, f, size)
  PROVE  /\ Safe(r, Only(f)) /\ FilesIn(r.mem) = FilesIn(s.mem)
         /\ r.ok \/ Get(s, f).size <= size => Safe(r, {})
PROOF
  <1>0. Get(s, f).size \in Nat BY FileAtOf, GoodFiles DEF Safe, FileSet
  <1>1. PICK t : t = IF Get(s, f).size > size THEN file_truncate_blocks(s, f, size) ELSE s
    OBVIOUS
  <1>2. /\ Safe(t, Only(f)) /\ FilesIn(t.mem) = FilesIn(s.mem)
        /\ Get(s, f).size <= size => t = s
    <2>1. CASE Get(s, f).size > size
      <3>1. t = file_truncate_blocks(s, f, size) BY <1>1, <2>1
      <3>2. Safe(t, Only(f)) /\ FilesIn(t.mem) = FilesIn(s.mem) BY <2>1, <3>1, TruncateSafe
      <3> QED BY <1>0, <2>1, <3>2
    <2>2. CASE ~(Get(s, f).size > size)
      <3>1. t = s BY <1>1, <2>2
      <3> QED BY <3>1, SafeAny
    <2> QED BY <2>1, <2>2
  <1>3. PICK file : file = [Get(t, f) EXCEPT !.size = size] OBVIOUS
  <1>4. PICK u : u = Set(t, f, file) OBVIOUS
  <1>5. r = IF t.ok THEN flush_block(u, f[1]) ELSE t
    BY <1>1, <1>3, <1>4, Zenon DEF file_set_size, set_size_of
  <1>6. CASE ~t.ok
    <2>1. r = t BY <1>5, <1>6
    <2> QED BY <1>2, <1>6, <2>1
  <1>7. CASE t.ok
    <2>1. r = flush_block(u, f[1]) BY <1>5, <1>7
    <2>2. /\ file \in FileSet /\ file.indirect = FileAt(t.mem, f).indirect
          /\ \A k \in FileNumbers : file.direct[k] = FileAt(t.mem, f).direct[k]
          /\ f \in FilesIn(t.mem) \ {Root} /\ f[1] \in Nums
      <3>1. Get(t, f) = FileAt(t.mem, f) /\ Get(t, f) \in FileSet /\ f[1] \in Nums
        BY <1>2, FileAtOf, GoodFiles DEF Safe
      <3> QED BY <1>2, <1>3, <3>1 DEF FileSet
    <2>3. Safe(u, Only(f)) /\ FilesIn(u.mem) = FilesIn(t.mem) BY <1>2, <1>4, <2>2, ResizeSafe
    <2>4. f[1] \in 1..(NBLOCKS - 1) BY <2>2, Sizing DEF Nums
    <2>5. \A g \in Only(f) : g \in FilesIn(u.mem) /\ g[1] = f[1] BY <1>2, <2>3 DEF Only
    <2>6. Safe(r, {}) /\ r.mem = u.mem BY <2>1, <2>3, <2>4, <2>5, FlushSafe
    <2> QED BY <1>2, <2>3, <2>6, SafeAny
  <1> QED BY <1>6, <1>7

-----------------------------------------------------------------------------
(* Writing and flushing *)

\* file_write: the block that it fills is nobody's but f's, and neither a
\* directory nor an indirect block.
LEMMA WriteSafe ==
  ASSUME NEW s, Safe(s, {}), NEW f \in FilesIn(s.mem) \ {Root}, NEW n \in Nat,
         NEW r, r = file_write(s, f, n)
  PROVE  Safe(r, {})
PROOF
  <1>0. Get(s, f).size \in Nat BY FileAtOf, GoodFiles DEF Safe, FileSet
  <1>1. PICK t : t = IF n >= Get(s, f).size THEN file_set_size(s, f, n + 1) ELSE s OBVIOUS
  <1>2. Safe(t, {}) /\ FilesIn(t.mem) = FilesIn(s.mem)
    <2>1. CASE n >= Get(s, f).size
      <3>1. t = file_set_size(s, f, n + 1) /\ n + 1 \in Nat /\ Get(s, f).size <= n + 1
        BY <1>0, <1>1, <2>1
      <3> QED BY <3>1, SetSizeSafe
    <2>2. CASE ~(n >= Get(s, f).size) BY <1>1, <2>2
    <2> QED BY <2>1, <2>2
  <1>3. PICK g : g = file_get_block(t, f, n) OBVIOUS
  <1>4. r = IF g.err \/ ~g.s.ok THEN g.s ELSE Put(g.s, g.b, TextBlock)
    BY <1>1, <1>3, Zenon DEF file_write, fill_block
  <1>5. /\ Safe(g.s, {}) /\ FilesIn(g.s.mem) = FilesIn(t.mem)
        /\ ~g.err /\ g.s.ok =>
             g.b \in Nums /\ \E k \in Places : k # NDIRECT /\ Val(g.s.mem, f, k) = g.b
    BY <1>2, <1>3, GetBlockSafe
  <1>6. CASE g.err \/ ~g.s.ok BY <1>4, <1>5, <1>6
  <1>7. CASE ~(g.err \/ ~g.s.ok)
    <2>1. PICK m : m = g.s.mem OBVIOUS
    <2>2. PICK b : b = g.b OBVIOUS
    <2>3. /\ g.s \in StateSet /\ Good(m) /\ Below(g.s.disk, m, {}) /\ g.s.disk \in BlockSet
          /\ f \in FilesIn(m) \ {Root} /\ b \in Nums /\ r = Put(g.s, b, TextBlock)
      BY <1>2, <1>4, <1>5, <1>7, <2>1, <2>2 DEF Safe, StateSet
    <2>4. PICK k \in Places : k # NDIRECT /\ Val(m, f, k) = b BY <1>5, <1>7, <2>1, <2>2
    <2>5. \A h \in FilesIn(m) : FileAt(m, h).indirect # b BY <2>3, <2>4, NoIndirect
    <2>6. b \in DOMAIN m /\ b \in 1..(NBLOCKS - 1) /\ b \notin {0, Bad}
      BY <2>3, GoodFiles, Sizing DEF Nums
    <2>7. m[b].kind # "dir"
      <3>1. SUFFICES ASSUME m[b].kind = "dir" PROVE FALSE OBVIOUS
      <3>2. b \in DirBlocks(m) BY <2>3, <2>6, <3>1, GoodFiles
      <3>3. PICK l \in Places : Val(m, Root, l) = b BY <2>3, <3>2, DirOwned
      <3>4. Root \in FilesIn(m) BY <2>3, GoodFiles
      <3> QED BY <2>3, <2>4, <2>6, <3>3, <3>4, OwnFacts
    <2>8. TextBlock \in Contents /\ TextBlock.kind # "dir" BY MakeFacts, MadeKinds
    <2>9. PICK x : x = WithBlock(m, b, TextBlock) OBVIOUS
    <2>10. /\ Good(x) /\ FilesIn(x) = FilesIn(m) /\ x[Super] = m[Super] /\ x[Bitmap] = m[Bitmap]
           /\ \A a \in DOMAIN m : x[a].kind = "dir" <=> m[a].kind = "dir"
           /\ \A h \in FilesIn(m) : FileAt(x, h) = FileAt(m, h)
      BY <2>3, <2>5, <2>7, <2>8, <2>9, PutGood
    <2>11. /\ r \in StateSet /\ r.mem = x /\ r.disk = g.s.disk /\ r.images = g.s.images
      BY <2>1, <2>3, <2>6, <2>8, <2>9, PutIs DEF WithBlock
    <2>12. Below(g.s.disk, x, {})
      <3>1. \A h \in FilesIn(m), l \in 0..NDIRECT : Ptr(x, h, l) = Ptr(m, h, l)
        BY <2>10 DEF Ptr
      <3> QED BY <2>3, <2>10, <3>1, BelowStep
    <2> QED BY <1>5, <2>10, <2>11, <2>12, CacheSafe
  <1> QED BY <1>6, <1>7

\* A flush of one block of a file.
LEMMA FlushNthSafe ==
  ASSUME NEW s, Safe(s, {}), NEW f \in FilesIn(s.mem), NEW n \in Nat, NEW r, r = flush_nth(s, f, n)
  PROVE  Safe(r, {}) /\ r.mem = s.mem
PROOF
  <1>1. PICK w : w = Walk(s, f, n) OBVIOUS
  <1>2. PICK p : p = Slot(s, f, n) OBVIOUS
  <1>3. r = IF ~s.ok \/ w.err THEN s
            ELSE IF ~w.s.ok THEN w.s
            ELSE IF p = 0 THEN s
            ELSE IF p >= NBLOCKS THEN panic(s)
            ELSE flush_block(s, p)
    BY <1>1, <1>2, Zenon DEF Walk, flush_nth
  <1>4. s \in StateSet /\ Good(s.mem) BY DEF Safe
  <1>5. /\ w.s \in {s, panic(s)}
        /\ ~w.err /\ w.s.ok => HasSlot(s.mem, f, n)
    BY <1>1, <1>4, WalkNoAlloc
  <1>6. Safe(panic(s), {}) /\ panic(s).mem = s.mem BY <1>4, PanicSafe, PanicIs
  <1>7. CASE ~s.ok \/ w.err \/ ~w.s.ok \/ p = 0 \/ p >= NBLOCKS BY <1>3, <1>5, <1>6, <1>7
  <1>8. CASE ~(~s.ok \/ w.err \/ ~w.s.ok \/ p = 0 \/ p >= NBLOCKS)
    <2>1. r = flush_block(s, p) BY <1>3, <1>8
    <2>2. HasSlot(s.mem, f, n) BY <1>5, <1>8
    <2>3. Place(n) \in Places /\ Val(s.mem, f, Place(n)) = p
      BY <1>2, <1>4, <1>8, <2>2, SlotVal DEF Beyond
    <2>4. p \in Nums BY <1>4, <1>8, <2>3, OwnFacts, Sizing
    <2>5. p \in 1..(NBLOCKS - 1) BY <2>4, Sizing DEF Nums
    <2> QED BY <2>1, <2>5, FlushSafe
  <1> QED BY <1>7, <1>8

\* The loop of file_flush.
LEMMA FlushContentsSafe ==
  ASSUME NEW s, Safe(s, {}), NEW f \in FilesIn(s.mem)
  PROVE  Safe(flush_contents(s, f), {}) /\ flush_contents(s, f).mem = s.mem
PROOF
  <1> DEFINE N == Get(s, f).size
             S == {x \in StateSet : Safe(x, {}) /\ x.mem = s.mem}
             F == [y \in S \X (1..N) |-> flush_nth(y[1], f, y[2] - 1)]
             Is(t) == t = [k \in 0..N |-> IF k = 0 THEN s ELSE flush_nth(t[k - 1], f, k - 1)]
             r == CHOOSE t : Is(t)
  <1>1. N \in Nat BY FileAtOf, GoodFiles DEF Safe, FileSet
  <1>2. s \in S BY DEF Safe
  <1>3. ASSUME NEW x \in S, NEW k \in 1..N PROVE flush_nth(x, f, k - 1) \in S
    <2>1. k - 1 \in Nat BY <1>1
    <2>2. Safe(x, {}) /\ x.mem = s.mem BY <1>3
    <2>3. Safe(flush_nth(x, f, k - 1), {}) /\ flush_nth(x, f, k - 1).mem = x.mem
      BY <2>1, <2>2, FlushNthSafe
    <2> QED BY <2>2, <2>3 DEF Safe
  <1>4. flush_contents(s, f) = r[N] BY Zenon DEF flush_contents
  <1> HIDE DEF N, S
  <1>5. \A x \in S, k \in 1..N : F[<<x, k>>] = flush_nth(x, f, k - 1) OBVIOUS
  <1> HIDE DEF F
  <1>6. PICK t \in [0..N -> S] : t[0] = s /\ \A k \in 1..N : t[k] = F[<<t[k - 1], k>>]
    <2>1. StepsIn(N, S, F) BY <1>3, <1>5 DEF StepsIn
    <2>2. PICK t \in [0..N -> S] : Runs(N, s, F, t) BY <1>1, <1>2, <2>1, LoopRuns
    <2> QED BY <2>2 DEF Runs
  <1>7. Is(t)
    <2>1. \A k \in 0..N : k # 0 => k \in 1..N /\ k - 1 \in 0..N BY <1>1
    <2>2. \A k \in 0..N : k # 0 => t[k] = flush_nth(t[k - 1], f, k - 1)
      BY <1>5, <1>6, <2>1
    <2>3. t = [k \in 0..N |-> t[k]] BY <1>6
    <2> QED BY <1>6, <2>2, <2>3
  <1>8. Is(r) BY <1>7
  <1> HIDE DEF r
  <1>9. r[0] = s /\ \A k \in 1..N : r[k] = flush_nth(r[k - 1], f, k - 1) BY <1>1, <1>8
  <1>10. r[N] \in S
    <2>1. \A k \in 1..N : r[k - 1] \in S => r[k] \in S BY <1>3, <1>9
    <2>2. r[0] \in S BY <1>2, <1>9
    <2> QED BY <1>1, <2>1, <2>2, LoopKeeps
  <1> QED BY <1>4, <1>10 DEF S

\* file_flush, of a file or of the root directory.
LEMMA FlushFileSafe ==
  ASSUME NEW s, Safe(s, {}), NEW f \in FilesIn(s.mem), NEW r, r = file_flush(s, f)
  PROVE  Safe(r, {})
PROOF
  <1>1. PICK t : t = flush_contents(s, f) OBVIOUS
  <1>2. Safe(t, {}) /\ t.mem = s.mem BY <1>1, FlushContentsSafe
  <1>3. f[1] \in 1..(NBLOCKS - 1)
    <2>1. f = Root => f[1] = Super BY DEF Root
    <2>2. f # Root => f[1] \in Nums BY GoodFiles DEF Safe
    <2> QED BY <2>1, <2>2, Sizing DEF Nums
  <1>4. PICK u : u = flush_block(t, f[1]) OBVIOUS
  <1>5. Safe(u, {}) /\ u.mem = s.mem BY <1>2, <1>3, <1>4, FlushSafe
  <1>6. PICK i : i = Get(s, f).indirect OBVIOUS
  <1>7. r = IF ~t.ok THEN t
            ELSE IF i = 0 THEN u
            ELSE IF i = Bad THEN panic(u)
            ELSE flush_block(u, i)
    BY <1>1, <1>4, <1>6, Zenon DEF file_flush
  <1>8. CASE ~t.ok \/ i = 0 BY <1>2, <1>5, <1>7, <1>8
  <1>9. CASE ~(~t.ok \/ i = 0) /\ i = Bad
    <2>1. r = panic(u) BY <1>7, <1>9
    <2> QED BY <1>5, <2>1, PanicSafe
  <1>10. CASE ~(~t.ok \/ i = 0) /\ i # Bad
    <2>1. r = flush_block(u, i) BY <1>7, <1>10
    <2>2. Good(s.mem) /\ i = FileAt(s.mem, f).indirect BY <1>6, FileAtOf DEF Safe
    <2>3. i \in Nums BY <1>10, <2>2, IndirectOwned
    <2>4. i \in 1..(NBLOCKS - 1) BY <2>3, Sizing DEF Nums
    <2> QED BY <1>5, <2>1, <2>4, FlushSafe
  <1> QED BY <1>8, <1>9, <1>10

\* fs_sync.
LEMMA SyncSafe ==
  ASSUME NEW s, Safe(s, {}) PROVE Safe(fs_sync(s), {})
PROOF
  <1> DEFINE N == NBLOCKS - 1
             S == {x \in StateSet : Safe(x, {})}
             F == [y \in S \X (1..N) |-> flush_block(y[1], y[2])]
             Is(t) == t = [b \in 0..N |-> IF b = 0 THEN s ELSE flush_block(t[b - 1], b)]
             r == CHOOSE t : Is(t)
  <1>1. N \in Nat BY Sizing
  <1>2. s \in S BY DEF Safe
  <1>3. ASSUME NEW x \in S, NEW k \in 1..N PROVE flush_block(x, k) \in S
    <2>1. k \in 1..(NBLOCKS - 1) /\ Safe(x, {}) BY <1>3
    <2>2. Safe(flush_block(x, k), {}) BY <2>1, FlushSafe
    <2> QED BY <2>2 DEF Safe
  <1>4. fs_sync(s) = r[N] BY Zenon DEF fs_sync
  <1> HIDE DEF N, S
  <1>5. \A x \in S, k \in 1..N : F[<<x, k>>] = flush_block(x, k) OBVIOUS
  <1> HIDE DEF F
  <1>6. PICK t \in [0..N -> S] : t[0] = s /\ \A k \in 1..N : t[k] = F[<<t[k - 1], k>>]
    <2>1. StepsIn(N, S, F) BY <1>3, <1>5 DEF StepsIn
    <2>2. PICK t \in [0..N -> S] : Runs(N, s, F, t) BY <1>1, <1>2, <2>1, LoopRuns
    <2> QED BY <2>2 DEF Runs
  <1>7. Is(t)
    <2>1. \A k \in 0..N : k # 0 => k \in 1..N /\ k - 1 \in 0..N BY <1>1
    <2>2. \A k \in 0..N : k # 0 => t[k] = flush_block(t[k - 1], k)
      BY <1>5, <1>6, <2>1
    <2>3. t = [k \in 0..N |-> t[k]] BY <1>6
    <2> QED BY <1>6, <2>2, <2>3
  <1>8. Is(r) BY <1>7
  <1> HIDE DEF r
  <1>9. r[0] = s /\ \A k \in 1..N : r[k] = flush_block(r[k - 1], k) BY <1>1, <1>8
  <1>10. r[N] \in S
    <2>1. \A k \in 1..N : r[k - 1] \in S => r[k] \in S BY <1>3, <1>9
    <2>2. r[0] \in S BY <1>2, <1>9
    <2> QED BY <1>1, <2>1, <2>2, LoopKeeps
  <1> QED BY <1>4, <1>10 DEF S

-----------------------------------------------------------------------------
(* The root directory *)

\* The first slot of a set of slots: the least block, then the least entry.
LEMMA FirstIs ==
  ASSUME NEW S, S \subseteq Nat \X Nat, S # {} PROVE FirstOf(S) \in S
PROOF
  <1> DEFINE R == {x[1] : x \in S}
  <1>1. R \subseteq Nat /\ R # {} OBVIOUS
  <1>2. PICK a \in R : \A y \in R : a <= y BY <1>1, MinNat
  <1> DEFINE C == {x[2] : x \in {y \in S : y[1] = a}}
  <1>3. C \subseteq Nat /\ C # {} BY <1>2
  <1>4. PICK c \in C : \A y \in C : c <= y BY <1>3, MinNat
  <1>5. PICK x \in S : x[1] = a /\ x[2] = c BY <1>4
  <1>6. ASSUME NEW y \in S PROVE Before(x, y)
    <2>1. y[1] \in R /\ a <= y[1] BY <1>2
    <2>2. CASE y[1] = a
      <3>1. y[2] \in C /\ c <= y[2] BY <1>4, <2>2
      <3> QED BY <1>5, <2>2, <3>1 DEF Before
    <2>3. CASE y[1] # a
      <3>1. a < y[1] BY <1>1, <2>1, <2>3
      <3> QED BY <1>5, <3>1 DEF Before
    <2> QED BY <2>2, <2>3
  <1> QED BY <1>6 DEF FirstOf

\* The slots of the root directory are files.
LEMMA SlotsAreFiles ==
  ASSUME NEW s, Good(s.mem)
  PROVE  /\ Get(s, Root) = s.mem[Super].root
         /\ DirSlots(s) \subseteq FileNumbers \X (1..BLKFILES)
         /\ \A x \in DirSlots(s) : At(s, x) \in FilesIn(s.mem) \ {Root}
         /\ Open(s) \subseteq FilesIn(s.mem) \ {Root}
         /\ Files(s) \subseteq FilesIn(s.mem)
PROOF
  <1>1. Get(s, Root) = s.mem[Super].root BY FileAtOf, FileAtFacts
  <1>2. DirSlots(s) \subseteq FileNumbers \X (1..BLKFILES) BY DEF DirSlots, FileNumbers
  <1>3. ASSUME NEW x \in DirSlots(s) PROVE At(s, x) \in FilesIn(s.mem) \ {Root}
    <2>1. x[1] \in FileNumbers /\ x[2] \in 1..BLKFILES /\ x[1] < s.mem[Super].root.size
      BY <1>1 DEF DirSlots, FileNumbers
    <2>2. s.mem[Super].root.direct[x[1]] \in DirBlocks(s.mem) BY <2>1 DEF DirBlocks
    <2>3. At(s, x) = <<s.mem[Super].root.direct[x[1]], x[2]>> BY <1>1 DEF At
    <2> QED BY <2>1, <2>2, <2>3, GoodFiles
  <1>4. Root \in FilesIn(s.mem) BY GoodFiles
  <1> QED BY <1>1, <1>2, <1>3, <1>4 DEF Open, Files

\* The state at the end of an operation: after a panic only what is on the
\* disk matters.
Ended(s) ==
  /\ \A d \in s.images : GoodDisk(d)
  /\ s.ok => Safe(s, {})

\* A safe state without pending truncation ends an operation.
LEMMA SafeEnded ==
  ASSUME NEW s, NEW X, Safe(s, X), s.ok => Safe(s, {}) PROVE Ended(s)
BY DEF Safe, Ended

\* The file system m with the block b as the next block of the root directory,
\* whose entries point to nothing.
WithDir(m, root, b, ents) == [m EXCEPT ![Super] = SuperBlock(root), ![b] = DirBlock(ents)]

\* The entries of a new block of the directory point to nothing.
Blank(ents) ==
  /\ ents \in [1..BLKFILES -> FileSet]
  /\ \A j \in 1..BLKFILES :
       ents[j].indirect \in {0, Bad} /\ \A k \in FileNumbers : ents[j].direct[k] \in {0, Bad}

\* The root directory r with the block b.
Grown(r, b) == [r EXCEPT !.size = @ + 1, !.direct[r.size] = b]

\* The root directory with one block more.
LEMMA GrownFacts ==
  ASSUME NEW m, Good(m), m[Super].root.size < NDIRECT, NEW b \in Nums,
         NEW r, r = Grown(m[Super].root, b)
  PROVE  /\ r \in FileSet /\ r.size = m[Super].root.size + 1 /\ r.indirect = 0
         /\ m[Super].root.size \in FileNumbers
         /\ r.direct[m[Super].root.size] = b
         /\ \A k \in FileNumbers : k # m[Super].root.size => r.direct[k] = m[Super].root.direct[k]
PROOF
  <1>1. PICK o : o = m[Super].root OBVIOUS
  <1>2. o \in FileSet /\ o.size \in 1..NDIRECT /\ o.indirect = 0
    BY <1>1, GoodFiles, FileAtFacts DEF Good, RootGood
  <1>3. o.size \in FileNumbers BY <1>1, <1>2, Sizing DEF FileNumbers
  <1>4. b \in Pointers BY Sizing DEF Nums, Pointers
  <1>5. r = [o EXCEPT !.size = @ + 1, !.direct[o.size] = b] BY <1>1, Zenon DEF Grown
  <1>6. PICK e : e = [o.direct EXCEPT ![o.size] = b] OBVIOUS
  <1>7. /\ e \in [FileNumbers -> Pointers] /\ e[o.size] = b
        /\ \A k \in FileNumbers : k # o.size => e[k] = o.direct[k]
    BY <1>2, <1>3, <1>4, <1>6 DEF FileSet
  <1>8. r = [o EXCEPT !.size = o.size + 1, !.direct = e] BY <1>2, <1>5, <1>6 DEF FileSet
  <1>9. r \in FileSet /\ r.size = o.size + 1 /\ r.direct = e /\ r.indirect = o.indirect
    <2>1. o.size + 1 \in Nat /\ o.name \in FileNames \cup {"/", NoName, Garbage}
          /\ o.indirect \in Pointers
      BY <1>2, Sizing DEF FileSet
    <2>2. r = [name |-> o.name, size |-> o.size + 1, direct |-> e, indirect |-> o.indirect]
      BY <1>2, <1>8 DEF FileSet
    <2> QED BY <1>7, <2>1, <2>2 DEF FileSet
  <1> QED BY <1>1, <1>2, <1>3, <1>7, <1>9

\* A root directory with one block more, blank, is still good.
LEMMA WithDirGood ==
  ASSUME NEW m, Good(m), m[Super].root.size < NDIRECT,
         NEW b \in Nums, b \notin m[Bitmap].free, m[b].kind # "dir",
         \A f \in FilesIn(m), k \in Places : Val(m, f, k) # b,
         NEW ents, Blank(ents),
         NEW n, n = WithDir(m, Grown(m[Super].root, b), b, ents)
  PROVE  /\ Good(n) /\ FilesIn(n) = FilesIn(m) \cup ({b} \X (1..BLKFILES))
         /\ n[Bitmap] = m[Bitmap] /\ n[Super] = SuperBlock(Grown(m[Super].root, b))
         /\ n[b].kind = "dir"
         /\ \A c \in DOMAIN m : c \notin {Super, b} => n[c] = m[c]
         /\ \A f \in FilesIn(m) \ {Root} : FileAt(n, f) = FileAt(m, f)
PROOF
  <1>1. PICK r : r = Grown(m[Super].root, b) OBVIOUS
  <1>2. PICK z : z = m[Super].root.size OBVIOUS
  <1>3. /\ r \in FileSet /\ r.size = z + 1 /\ r.indirect = 0 /\ z \in FileNumbers
        /\ r.direct[z] = b
        /\ \A k \in FileNumbers : k # z => r.direct[k] = m[Super].root.direct[k]
    BY <1>1, <1>2, GrownFacts
  <1>4. z \in 1..NDIRECT /\ z < NDIRECT BY <1>2 DEF Good, RootGood
  <1>5. /\ b \in DOMAIN m /\ b # Super /\ b # Bitmap /\ Super # Bitmap
        /\ Super \in DOMAIN m /\ Bitmap \in DOMAIN m /\ m \in BlockSet
        /\ DOMAIN m = 1..(NBLOCKS - 1)
    BY GoodFiles, Sizing DEF Nums
  <1>6. SuperBlock(r) \in Contents /\ DirBlock(ents) \in Contents
    BY <1>3, MakeFacts DEF Blank
  <1>7. n = [m EXCEPT ![Super] = SuperBlock(r), ![b] = DirBlock(ents)] BY <1>1 DEF WithDir
  <1>8. /\ n \in BlockSet /\ DOMAIN n = DOMAIN m
        /\ n[Super] = SuperBlock(r) /\ n[b] = DirBlock(ents) /\ n[Bitmap] = m[Bitmap]
        /\ \A c \in DOMAIN m : c \notin {Super, b} => n[c] = m[c]
    BY <1>5, <1>6, <1>7 DEF BlockSet
  <1>9. n[Super].kind = "super" /\ n[Super].root = r /\ n[b].kind = "dir" /\ n[b].ents = ents
    BY <1>8, MadeKinds
  <1>10. m[Super].kind = "super" /\ m[Bitmap].kind = "bitmap" BY DEF Good
  <1>11. DirBlocks(n) = DirBlocks(m) \cup {b}
    <2>1. \A k \in FileNumbers : k < r.size <=> k < z \/ k = z
      BY <1>3, <1>4 DEF FileNumbers
    <2>2. DirBlocks(n) = {r.direct[k] : k \in {l \in FileNumbers : l < z \/ l = z}}
      BY <1>9, <2>1 DEF DirBlocks
    <2>3. DirBlocks(m) = {m[Super].root.direct[k] : k \in {l \in FileNumbers : l < z}}
      BY <1>2 DEF DirBlocks
    <2>4. \A k \in FileNumbers : k < z => k # z BY <1>4 DEF FileNumbers
    <2> QED BY <1>3, <2>2, <2>3, <2>4
  <1>12. FilesIn(n) = FilesIn(m) \cup ({b} \X (1..BLKFILES)) BY <1>11 DEF FilesIn
  <1>13. RootGood(n)
    <2>1. \A k \in FileNumbers :
            IF k < z THEN m[Super].root.direct[k] \in Nums /\ m[m[Super].root.direct[k]].kind = "dir"
            ELSE m[Super].root.direct[k] = 0
      BY <1>2 DEF Good, RootGood
    <2>2. ASSUME NEW k \in FileNumbers
          PROVE IF k < r.size THEN r.direct[k] \in Nums /\ n[r.direct[k]].kind = "dir"
                ELSE r.direct[k] = 0
      <3>1. CASE k = z BY <1>3, <1>4, <1>9, <3>1
      <3>2. CASE k < z
        <4>1. k < r.size /\ k # z BY <1>3, <1>4, <3>2 DEF FileNumbers
        <4>2. r.direct[k] \in Nums /\ m[r.direct[k]].kind = "dir" BY <1>3, <2>1, <3>2, <4>1
        <4>3. r.direct[k] \in DOMAIN m /\ r.direct[k] \notin {Super, b}
          BY <1>5, <1>10, <4>2, Sizing DEF Nums
        <4> QED BY <1>8, <4>1, <4>2, <4>3
      <3>3. CASE k # z /\ ~(k < z)
        <4>1. ~(k < r.size) BY <1>3, <1>4, <3>3 DEF FileNumbers
        <4> QED BY <1>3, <2>1, <3>3, <4>1
      <3> QED BY <3>1, <3>2, <3>3
    <2>3. r.size \in 1..NDIRECT BY <1>3, <1>4, Sizing
    <2> QED BY <1>3, <1>9, <2>2, <2>3 DEF RootGood
  <1>14. \A c \in DOMAIN n : n[c].kind = "dir" => c \in DirBlocks(n)
    <2>1. \A c \in DOMAIN m : m[c].kind = "dir" => c \in DirBlocks(m) BY DEF Good
    <2> QED BY <1>8, <1>9, <1>11, <2>1
  <1>15. ASSUME NEW f \in FilesIn(m) \ {Root} PROVE FileAt(n, f) = FileAt(m, f)
    <2>1. f[1] \in DOMAIN m /\ m[f[1]].kind = "dir" BY GoodFiles, Sizing DEF Nums
    <2>2. f[1] \notin {Super, b} BY <1>10, <2>1
    <2>3. n[f[1]] = m[f[1]] BY <1>8, <2>1, <2>2
    <2> QED BY <1>15, <2>3, FileBlock
  <1>16. \A j \in 1..BLKFILES : FileAt(n, <<b, j>>) = ents[j] BY <1>9, FileAtFacts
  <1>17. FileAt(n, Root) = r /\ FileAt(m, Root) = m[Super].root BY <1>9, FileAtFacts
  <1>18. ASSUME NEW f \in FilesIn(m), FileAt(m, f).indirect \notin {0, Bad}
         PROVE  n[FileAt(m, f).indirect] = m[FileAt(m, f).indirect]
                /\ n[FileAt(m, f).indirect].kind = "indirect"
    <2>1. FileAt(m, f).indirect \in DOMAIN m /\ m[FileAt(m, f).indirect].kind = "indirect"
          /\ FileAt(m, f).indirect # Super
      BY <1>18, IndirectOwned
    <2>2. FileAt(m, f).indirect # b
      <3>1. NDIRECT \in 0..NDIRECT BY Sizing
      <3>2. NDIRECT \in Places /\ Val(m, f, NDIRECT) = FileAt(m, f).indirect
        BY <3>1, PtrVal DEF Ptr
      <3> QED BY <3>2
    <2> QED BY <1>8, <2>1, <2>2
  <1>19. ASSUME NEW f \in FilesIn(m) \ {Root}, NEW k \in Places PROVE Val(n, f, k) = Val(m, f, k)
    BY <1>15, <1>18 DEF Val, Ptr
  <1>20. ASSUME NEW k \in Places
         PROVE  Val(n, Root, k) = IF k = z THEN b ELSE Val(m, Root, k)
    <2>1. m[Super].root.indirect = 0 BY DEF Good, RootGood
    <2>2. k < NDIRECT => k \in FileNumbers BY Sizing DEF Places, FileNumbers
    <2>3. z # NDIRECT /\ z <= NDIRECT BY <1>4
    <2>4. CASE k < NDIRECT
      <3>1. k <= NDIRECT /\ k # NDIRECT BY <2>4, Sizing DEF Places
      <3>2. Val(n, Root, k) = r.direct[k] /\ Val(m, Root, k) = m[Super].root.direct[k]
        BY <1>17, <3>1 DEF Val, Ptr
      <3> QED BY <1>3, <2>2, <2>4, <3>2
    <2>5. CASE ~(k < NDIRECT)
      <3>1. k # z BY <1>4, <2>5
      <3>2. Val(n, Root, k) = 0 /\ Val(m, Root, k) = 0
        <4>1. k = NDIRECT \/ ~(k <= NDIRECT) BY <2>5, Sizing DEF Places
        <4> QED BY <1>3, <1>17, <2>1, <4>1 DEF Val, Ptr
      <3> QED BY <3>1, <3>2
    <2> QED BY <2>4, <2>5
  <1>21. ASSUME NEW j \in 1..BLKFILES, NEW k \in Places PROVE Val(n, <<b, j>>, k) \in {0, Bad}
    <2>1. ents[j].indirect \in {0, Bad} /\ \A l \in FileNumbers : ents[j].direct[l] \in {0, Bad}
      BY DEF Blank
    <2>2. k <= NDIRECT /\ k # NDIRECT => k \in FileNumbers BY Sizing DEF Places, FileNumbers
    <2> QED BY <1>16, <2>1, <2>2 DEF Val, Ptr
  <1>22. \A f \in FilesIn(n) \ FilesIn(m) : \E j \in 1..BLKFILES : f = <<b, j>> BY <1>12
  <1>23. ASSUME NEW f \in FilesIn(n) PROVE FileAt(n, f).indirect \notin {0, Bad} =>
                n[FileAt(n, f).indirect].kind = "indirect"
    <2>1. CASE f = Root BY <1>3, <1>17, <2>1
    <2>2. CASE f # Root /\ f \in FilesIn(m) BY <1>15, <1>18, <2>2
    <2>3. CASE f \notin FilesIn(m)
      <3>1. PICK j \in 1..BLKFILES : f = <<b, j>> BY <1>22, <2>3
      <3> QED BY <1>16, <3>1 DEF Blank
    <2> QED BY <2>1, <2>2, <2>3
  <1>24. ASSUME NEW f \in FilesIn(n), NEW k \in Places, Val(n, f, k) \notin {0, Bad}
         PROVE  /\ f \in FilesIn(m)
                /\ IF f = Root /\ k = z THEN Val(n, f, k) = b ELSE Val(n, f, k) = Val(m, f, k)
    <2>1. f \in FilesIn(m)
      <3>1. SUFFICES ASSUME f \notin FilesIn(m) PROVE FALSE OBVIOUS
      <3>2. PICK j \in 1..BLKFILES : f = <<b, j>> BY <1>22, <3>1
      <3> QED BY <1>21, <1>24, <3>2
    <2> QED BY <1>19, <1>20, <2>1
  <1>25. Own(n)
    <2>1. ASSUME NEW f \in FilesIn(n), NEW k \in Places, Val(n, f, k) \notin {0, Bad}
          PROVE  /\ Val(n, f, k) > Bitmap /\ Val(n, f, k) \notin n[Bitmap].free
                 /\ \A g \in FilesIn(n), l \in Places :
                      Val(n, g, l) = Val(n, f, k) => g = f /\ l = k
      <3>1. \A y \in Nums : y > Bitmap BY Sizing DEF Nums
      <3>2. ASSUME NEW g \in FilesIn(n), NEW l \in Places, Val(n, g, l) = Val(n, f, k)
            PROVE  /\ g \in FilesIn(m)
                   /\ IF g = Root /\ l = z THEN Val(n, g, l) = b ELSE Val(n, g, l) = Val(m, g, l)
        BY <1>24, <2>1, <3>2
      <3>3. CASE f = Root /\ k = z
        <4>1. Val(n, f, k) = b BY <1>24, <2>1, <3>3
        <4> QED BY <1>8, <3>1, <3>2, <3>3, <4>1
      <3>4. CASE ~(f = Root /\ k = z)
        <4>1. Val(n, f, k) = Val(m, f, k) /\ f \in FilesIn(m) BY <1>24, <2>1, <3>4
        <4>2. /\ Val(m, f, k) \in Nums /\ Val(m, f, k) \notin m[Bitmap].free
              /\ \A g \in FilesIn(m), l \in Places : Val(m, g, l) = Val(m, f, k) => g = f /\ l = k
          BY <2>1, <4>1, OwnFacts
        <4>3. ASSUME NEW g \in FilesIn(n), NEW l \in Places, Val(n, g, l) = Val(n, f, k)
              PROVE g = f /\ l = k
          BY <3>2, <4>1, <4>2, <4>3
        <4> QED BY <1>8, <3>1, <4>1, <4>2, <4>3
      <3> QED BY <3>3, <3>4
    <2> QED BY <2>1 DEF Own
  <1>26. Good(n) BY <1>8, <1>9, <1>10, <1>13, <1>14, <1>23, <1>25 DEF Good
  <1> QED BY <1>1, <1>8, <1>9, <1>12, <1>15, <1>26

\* The disk below a file system with a new block of the directory.
LEMMA WithDirBelow ==
  ASSUME NEW m, Good(m), NEW d \in BlockSet, Below(d, m, {}), m[Super].root.size < NDIRECT,
         NEW b \in Nums, b \notin m[Bitmap].free, m[b].kind # "dir",
         \A f \in FilesIn(m), k \in Places : Val(m, f, k) # b,
         NEW ents, Blank(ents),
         NEW n, n = WithDir(m, Grown(m[Super].root, b), b, ents)
  PROVE  Below(d, n, {})
PROOF
  <1>1. PICK r : r = Grown(m[Super].root, b) OBVIOUS
  <1>2. PICK z : z = m[Super].root.size OBVIOUS
  <1>3. /\ r.size = z + 1 /\ r.indirect = 0 /\ z \in FileNumbers
        /\ \A k \in FileNumbers : k # z => r.direct[k] = m[Super].root.direct[k]
    BY <1>1, <1>2, GrownFacts
  <1>4. /\ FilesIn(n) = FilesIn(m) \cup ({b} \X (1..BLKFILES))
        /\ n[Bitmap] = m[Bitmap] /\ n[Super] = SuperBlock(r) /\ n[b].kind = "dir"
        /\ \A c \in DOMAIN m : c \notin {Super, b} => n[c] = m[c]
        /\ \A f \in FilesIn(m) \ {Root} : FileAt(n, f) = FileAt(m, f)
    BY <1>1, WithDirGood
  <1>5. n[Super].root = r /\ FileAt(n, Root) = r /\ FileAt(m, Root) = m[Super].root
    BY <1>4, MadeKinds, FileAtFacts
  <1>6. /\ d[Super].kind = "super" /\ d[Bitmap].kind = "bitmap"
        /\ d[Bitmap].free \subseteq m[Bitmap].free
        /\ d[Super].root.size <= z
        /\ \A k \in FileNumbers :
             k < d[Super].root.size => d[Super].root.direct[k] = m[Super].root.direct[k]
        /\ \A c \in DOMAIN d : d[c].kind = "dir" => m[c].kind = "dir"
        /\ \A f \in FilesIn(m), k \in 0..NDIRECT : Ptr(d, f, k) \in {0, Bad, Ptr(m, f, k)}
    BY <1>2 DEF Below
  <1>7. /\ DOMAIN d = DOMAIN m /\ DOMAIN m = 1..(NBLOCKS - 1) /\ b \in DOMAIN m
        /\ Super \in DOMAIN m /\ m[Super].kind = "super"
    BY GoodFiles, Sizing DEF BlockSet, Nums, Good
  <1>8. d[Super].root.size \in Nat /\ z \in Nat
    <2>1. d[Super] \in Contents BY <1>7 DEF BlockSet
    <2> QED BY <1>3, <1>6, <2>1, KindFacts, Sizing DEF FileSet, FileNumbers
  <1>9. d[Super].root.size <= r.size BY <1>3, <1>6, <1>8
  <1>10. \A k \in FileNumbers :
           k < d[Super].root.size => d[Super].root.direct[k] = r.direct[k]
    BY <1>3, <1>6, <1>8 DEF FileNumbers
  <1>11. \A c \in DOMAIN d : d[c].kind = "dir" => n[c].kind = "dir"
    BY <1>4, <1>6, <1>7
  <1>12. ASSUME NEW f \in FilesIn(n), NEW k \in 0..NDIRECT
         PROVE Ptr(d, f, k) \in {0, Bad, Ptr(n, f, k)}
    <2>1. k # NDIRECT => k \in FileNumbers BY Sizing DEF FileNumbers
    <2>2. CASE f = Root
      <3>1. Root \in FilesIn(m) BY GoodFiles
      <3>2. Ptr(d, f, k) \in {0, Bad, Ptr(m, f, k)} BY <1>6, <2>2, <3>1
      <3>3. m[Super].root.indirect = 0 /\ m[Super].root.direct[z] = 0
        <4>1. ~(z < z) BY <1>8
        <4> QED BY <1>2, <1>3, <4>1 DEF Good, RootGood
      <3>4. CASE k = NDIRECT BY <1>3, <1>5, <2>2, <3>2, <3>3, <3>4 DEF Ptr
      <3>5. CASE k # NDIRECT /\ k = z
        <4>1. Ptr(m, f, k) = 0 BY <1>5, <2>2, <3>3, <3>5 DEF Ptr
        <4> QED BY <3>2, <4>1
      <3>6. CASE k # NDIRECT /\ k # z
        <4>1. Ptr(n, f, k) = Ptr(m, f, k) BY <1>3, <1>5, <2>1, <2>2, <3>6 DEF Ptr
        <4> QED BY <3>2, <4>1
      <3> QED BY <3>4, <3>5, <3>6
    <2>3. CASE f # Root /\ f \in FilesIn(m)
      <3>1. FileAt(n, f) = FileAt(m, f) BY <1>4, <2>3
      <3> QED BY <1>6, <2>3, <3>1 DEF Ptr
    <2>4. CASE f \notin FilesIn(m)
      <3>1. PICK j \in 1..BLKFILES : f = <<b, j>> BY <1>4, <2>4
      <3>2. d[b].kind # "dir" BY <1>6, <1>7
      <3>3. FileAt(d, f) \in {EmptyFile, GarbageFile} BY <3>1, <3>2, FileAtFacts
      <3>4. FileAt(d, f).indirect \in {0, Bad}
            /\ \A l \in FileNumbers : FileAt(d, f).direct[l] \in {0, Bad}
        BY <3>3, SpareFiles
      <3> QED BY <2>1, <3>4 DEF Ptr
    <2> QED BY <2>2, <2>3, <2>4
  <1> QED BY <1>4, <1>5, <1>6, <1>9, <1>10, <1>11, <1>12, MadeKinds DEF Below

FirstFree(free) == CHOOSE x \in free : \A y \in free : x <= y
Taken(s, b) == [s EXCEPT !.mem[Bitmap].free = @ \ SameWord(b)]

\* alloc_block by its parts.
LEMMA AllocIs ==
  ASSUME NEW s
  PROVE  alloc_block(s) =
           IF s.mem[Bitmap].free = {} THEN [s |-> s, b |-> Bad]
           ELSE [s |-> flush_block(Taken(s, FirstFree(s.mem[Bitmap].free)), Bitmap),
                 b |-> FirstFree(s.mem[Bitmap].free)]
BY Zenon DEF alloc_block, Taken, FirstFree

\* What alloc_block does to the cache.
LEMMA TakenIs ==
  ASSUME NEW s \in StateSet, s.mem[Bitmap].kind = "bitmap", NEW b, NEW t, t = Taken(s, b)
  PROVE  /\ t \in StateSet /\ t.disk = s.disk /\ t.images = s.images /\ t.ok = s.ok
         /\ t.mem = WithBlock(s.mem, Bitmap, BitmapBlock(s.mem[Bitmap].free \ SameWord(b)))
         /\ BitmapBlock(s.mem[Bitmap].free \ SameWord(b)) \in Contents
PROOF
  <1>1. PICK m : m = s.mem OBVIOUS
  <1>2. m \in BlockSet /\ Bitmap \in 1..(NBLOCKS - 1) BY <1>1, Sizing DEF StateSet
  <1>3. m[Bitmap] = BitmapBlock(m[Bitmap].free) /\ m[Bitmap].free \in SUBSET Nums
    BY <1>1, <1>2, KindFacts DEF BlockSet
  <1>4. PICK F : F = m[Bitmap].free \ SameWord(b) OBVIOUS
  <1>5. F \in SUBSET Nums BY <1>3, <1>4
  <1>6. BitmapBlock(F) \in Contents BY <1>5, MakeFacts
  <1>7. [m[Bitmap] EXCEPT !.free = @ \ SameWord(b)] = BitmapBlock(F)
    <2>1. PICK c, g : c = m[Bitmap] /\ g = m[Bitmap].free OBVIOUS
    <2>2. c = BitmapBlock(g) BY <1>3, <2>1
    <2>3. [c EXCEPT !.free = @ \ SameWord(b)] = BitmapBlock(g \ SameWord(b))
      BY <2>2 DEF BitmapBlock
    <2> QED BY <1>4, <2>1, <2>3
  <1>8. PICK n : n = WithBlock(m, Bitmap, BitmapBlock(F)) OBVIOUS
  <1>9. n \in BlockSet BY <1>2, <1>6, <1>8 DEF WithBlock, BlockSet
  <1>10. t = [s EXCEPT !.mem = n] BY <1>1, <1>2, <1>7, <1>8 DEF Taken, WithBlock, StateSet
  <1>11. t \in StateSet /\ t.disk = s.disk /\ t.images = s.images /\ t.ok = s.ok /\ t.mem = n
    BY <1>9, <1>10 DEF StateSet
  <1> QED BY <1>1, <1>4, <1>6, <1>8, <1>11

\* alloc_block does not look at the super block.
LEMMA AllocCommutes ==
  ASSUME NEW s \in StateSet, s.mem[Bitmap].kind = "bitmap", NEW c \in Contents,
         NEW t, t = Put(s, Super, c), NEW a, a = alloc_block(s), NEW e, e = alloc_block(t)
  PROVE  /\ e.b = a.b /\ e.s \in StateSet /\ e.s.disk = a.s.disk /\ e.s.images = a.s.images
         /\ e.s.ok = a.s.ok /\ e.s.mem = WithBlock(a.s.mem, Super, c)
PROOF
  <1>1. PICK m : m = s.mem OBVIOUS
  <1>2. Super \in 1..(NBLOCKS - 1) /\ Bitmap \in 1..(NBLOCKS - 1) /\ Super # Bitmap BY Sizing
  <1>3. /\ t \in StateSet /\ t.mem = WithBlock(m, Super, c) /\ t.disk = s.disk
        /\ t.images = s.images /\ t.ok = s.ok
    BY <1>1, <1>2, PutIs DEF WithBlock
  <1>4. m \in BlockSet BY <1>1 DEF StateSet
  <1>5. t.mem[Bitmap] = m[Bitmap] BY <1>2, <1>3, <1>4 DEF WithBlock, BlockSet
  <1>6. PICK free : free = m[Bitmap].free OBVIOUS
  <1>7. CASE free = {}
    <2>1. a = [s |-> s, b |-> Bad] BY <1>1, <1>6, <1>7, AllocIs
    <2>2. e = [s |-> t, b |-> Bad] BY <1>5, <1>6, <1>7, AllocIs
    <2> QED BY <1>1, <1>3, <2>1, <2>2
  <1>8. CASE free # {}
    <2>1. PICK b : b = FirstFree(free) OBVIOUS
    <2>2. PICK u : u = Taken(s, b) OBVIOUS
    <2>3. PICK v : v = Taken(t, b) OBVIOUS
    <2>4. a = [s |-> flush_block(u, Bitmap), b |-> b] BY <1>1, <1>6, <1>8, <2>1, <2>2, AllocIs
    <2>5. e = [s |-> flush_block(v, Bitmap), b |-> b] BY <1>5, <1>6, <1>8, <2>1, <2>3, AllocIs
    <2>6. PICK B : B = BitmapBlock(free \ SameWord(b)) OBVIOUS
    <2>7. /\ u \in StateSet /\ u.disk = s.disk /\ u.images = s.images /\ u.ok = s.ok
          /\ u.mem = WithBlock(m, Bitmap, B) /\ B \in Contents
      BY <1>1, <1>6, <2>2, <2>6, TakenIs
    <2>8. /\ v \in StateSet /\ v.disk = s.disk /\ v.images = s.images /\ v.ok = s.ok
          /\ v.mem = WithBlock(t.mem, Bitmap, B)
      <3>1. t.mem[Bitmap].kind = "bitmap" /\ t.mem[Bitmap].free = free BY <1>1, <1>5, <1>6
      <3>2. /\ v \in StateSet /\ v.disk = t.disk /\ v.images = t.images /\ v.ok = t.ok
            /\ v.mem = WithBlock(t.mem, Bitmap, BitmapBlock(t.mem[Bitmap].free \ SameWord(b)))
        <4>1. PICK y : y = t OBVIOUS
        <4>2. y \in StateSet /\ y.mem[Bitmap].kind = "bitmap" /\ v = Taken(y, b)
          BY <1>3, <2>3, <3>1, <4>1
        <4>3. /\ v \in StateSet /\ v.disk = y.disk /\ v.images = y.images /\ v.ok = y.ok
              /\ v.mem = WithBlock(y.mem, Bitmap, BitmapBlock(y.mem[Bitmap].free \ SameWord(b)))
          BY <4>2, TakenIs
        <4> QED BY <4>1, <4>3
      <3> QED BY <1>3, <2>6, <3>1, <3>2
    <2>9. v.mem = WithBlock(u.mem, Super, c)
      <3>1. [[m EXCEPT ![Super] = c] EXCEPT ![Bitmap] = B]
              = [[m EXCEPT ![Bitmap] = B] EXCEPT ![Super] = c]
        BY <1>2
      <3> QED BY <1>3, <2>7, <2>8, <3>1 DEF WithBlock
    <2>10. u.mem[Bitmap] = B /\ v.mem[Bitmap] = B
      BY <1>2, <1>3, <1>4, <2>7, <2>8 DEF WithBlock, BlockSet
    <2>10a. PICK d : d = [s.disk EXCEPT ![Bitmap] = B] OBVIOUS
    <2>11. /\ flush_block(u, Bitmap) \in StateSet
           /\ flush_block(u, Bitmap).mem = u.mem /\ flush_block(u, Bitmap).ok = u.ok
           /\ flush_block(u, Bitmap).disk = d
           /\ flush_block(u, Bitmap).images = s.images \cup {d}
      BY <1>2, <2>7, <2>10, <2>10a, FlushIs
    <2>12. /\ flush_block(v, Bitmap) \in StateSet
           /\ flush_block(v, Bitmap).mem = v.mem /\ flush_block(v, Bitmap).ok = v.ok
           /\ flush_block(v, Bitmap).disk = d
           /\ flush_block(v, Bitmap).images = s.images \cup {d}
      BY <1>2, <2>8, <2>10, <2>10a, FlushIs
    <2> QED BY <2>4, <2>5, <2>7, <2>8, <2>9, <2>10, <2>11, <2>12
  <1> QED BY <1>7, <1>8

\* The size of the root directory grows by a block.
Longer(s) == Set(s, Root, [Get(s, Root) EXCEPT !.size = Get(s, Root).size + 1])

GotNew(s) == file_get_block(Longer(s), Root, Get(s, Root).size)

\* The directory may grow.
MayGrow(s) ==
  /\ s \in StateSet /\ Good(s.mem) /\ s.ok /\ s.mem[Super].root.size < NDIRECT
  /\ alloc_block(s).b = Bad \/ alloc_block(s).b \in Nums
  /\ alloc_block(s).s.mem \in BlockSet

\* What file_get_block returns, a as alloc_block returned it.
NewBlock(s, g, a) ==
  /\ a.b = Bad => g.s.ok = FALSE /\ g.s.images = s.images
  /\ a.b # Bad =>
       /\ g.b = a.b /\ g.s \in StateSet /\ g.s.disk = a.s.disk
       /\ g.s.images = a.s.images /\ g.s.ok = a.s.ok
       /\ g.s.mem = WithBlock(a.s.mem, Super, SuperBlock(Grown(s.mem[Super].root, a.b)))

\* dir_alloc_file when it needs a new block: the super block gets the size,
\* then the number of the block that alloc_block returns.
LEMMA NewDirBlock ==
  ASSUME NEW s, MayGrow(s), NEW g, g = GotNew(s), NEW a, a = alloc_block(s)
  PROVE  NewBlock(s, g, a)
PROOF
  <1>0. /\ s \in StateSet /\ Good(s.mem) /\ s.ok /\ s.mem[Super].root.size < NDIRECT
        /\ a.b = Bad \/ a.b \in Nums
        /\ a.s.mem \in BlockSet
    BY DEF MayGrow
  <1>0a. PICK t : t = Longer(s) OBVIOUS
  <1>0b. g = file_get_block(t, Root, Get(s, Root).size) BY <1>0a, Zenon DEF GotNew
  <1>1. PICK o : o = s.mem[Super].root OBVIOUS
  <1>2. PICK z : z = o.size OBVIOUS
  <1>3. /\ Get(s, Root) = o /\ o \in FileSet /\ z \in 1..NDIRECT /\ z < NDIRECT
        /\ z \in FileNumbers /\ o.direct[z] = 0
    <2>1. Get(s, Root) = o /\ o \in FileSet BY <1>0, <1>1, FileAtOf, FileAtFacts, GoodFiles
    <2>2. z \in 1..NDIRECT /\ z < NDIRECT BY <1>0, <1>1, <1>2 DEF Good, RootGood
    <2>3. z \in FileNumbers /\ ~(z < z) BY <2>2, Sizing DEF FileNumbers
    <2>4. o.direct[z] = 0 BY <1>0, <1>1, <1>2, <2>3 DEF Good, RootGood
    <2> QED BY <2>1, <2>2, <2>3, <2>4
  <1>4. PICK nr : nr = [o EXCEPT !.size = z + 1] OBVIOUS
  <1>5. nr \in FileSet /\ nr.direct = o.direct BY <1>3, <1>4 DEF FileSet
  <1>6. PICK c : c = SuperBlock(nr) OBVIOUS
  <1>7. c \in Contents /\ c.root = nr /\ Super \in 1..(NBLOCKS - 1) /\ Super # Bitmap
    BY <1>5, <1>6, MakeFacts, MadeKinds, Sizing
  <1>8. t = Put(s, Super, c) BY <1>0a, <1>2, <1>3, <1>4, <1>6, Zenon DEF Set, Longer
  <1>9. /\ t \in StateSet /\ t.mem[Super] = c /\ t.images = s.images /\ t.ok = s.ok
    <2>1. s.mem \in BlockSet BY <1>0 DEF StateSet
    <2>2. PICK y : y = t OBVIOUS
    <2>3. /\ y \in StateSet /\ y.mem = [s.mem EXCEPT ![Super] = c]
          /\ y.images = s.images /\ y.ok = s.ok
      <3>1. y = Put(s, Super, c) BY <1>8, <2>2
      <3>2. y \in StateSet BY <1>0, <1>7, <3>1, PutIs
      <3>3. y.mem = [s.mem EXCEPT ![Super] = c] BY <1>0, <1>7, <3>1, PutIs
      <3>4. y.images = s.images BY <1>0, <1>7, <3>1, PutIs
      <3>5. y.ok = s.ok BY <1>0, <1>7, <3>1, PutIs
      <3> QED BY <3>2, <3>3, <3>4, <3>5
    <2>4. y.mem[Super] = c BY <1>7, <2>1, <2>3 DEF BlockSet
    <2> QED BY <2>2, <2>3, <2>4
  <1>10. Get(t, Root) = nr BY <1>7, <1>9, FileAtOf, FileAtFacts
  <1>11. PICK w : w = WalkAlloc(t, Root, z) OBVIOUS
  <1>12. w = [s |-> t, err |-> FALSE]
    <2>1. ~(z >= NDIRECT + NINDIRECT) /\ z < NDIRECT BY <1>3, Sizing
    <2> QED BY <1>11, <2>1, Zenon DEF WalkAlloc, file_block_walk
  <1>13. w.s = t /\ w.err = FALSE BY <1>12
  <1>14. PICK e : e = alloc_block(t) OBVIOUS
  <1>15. /\ e.b = a.b /\ e.s \in StateSet /\ e.s.disk = a.s.disk /\ e.s.images = a.s.images
         /\ e.s.ok = a.s.ok /\ e.s.mem = WithBlock(a.s.mem, Super, c)
    <2>1. s.mem[Bitmap].kind = "bitmap" BY <1>0 DEF Good
    <2> QED BY <1>0, <1>7, <1>8, <1>14, <2>1, AllocCommutes
  <1>16. Slot(t, Root, z) = 0
    <2>1. Slot(t, Root, z) = nr.direct[z] BY <1>3, <1>10, Zenon DEF Slot
    <2> QED BY <1>3, <1>5, <2>1
  <1>17. PICK r : r = SetSlot(e.s, Root, z, e.b) OBVIOUS
  <1>18. g = [s |-> IF e.b = Bad THEN panic(t) ELSE r, err |-> FALSE, b |-> e.b]
    <2>1. g = file_get_block(t, Root, z) BY <1>0b, <1>2, <1>3
    <2>2. w = file_block_walk(t, Root, z, TRUE) BY <1>11, Zenon DEF WalkAlloc
    <2>3. g = IF ~t.ok \/ ~w.s.ok \/ w.err THEN [s |-> w.s, err |-> TRUE, b |-> Bad]
              ELSE IF Slot(w.s, Root, z) = 0
              THEN [s |-> IF alloc_block(w.s).b = Bad THEN panic(w.s)
                          ELSE SetSlot(alloc_block(w.s).s, Root, z, alloc_block(w.s).b),
                    err |-> FALSE, b |-> alloc_block(w.s).b]
              ELSE [s |-> IF Readable(w.s, Slot(w.s, Root, z)) THEN w.s ELSE panic(w.s),
                    err |-> FALSE, b |-> Slot(w.s, Root, z)]
      BY <2>1, <2>2, Zenon DEF file_get_block
    <2>4. ~(~t.ok \/ ~w.s.ok \/ w.err) BY <1>0, <1>9, <1>13
    <2>5. Slot(w.s, Root, z) = 0 BY <1>13, <1>16
    <2>6. g = [s |-> IF alloc_block(w.s).b = Bad THEN panic(w.s)
                     ELSE SetSlot(alloc_block(w.s).s, Root, z, alloc_block(w.s).b),
               err |-> FALSE, b |-> alloc_block(w.s).b]
      BY <2>3, <2>4, <2>5, Zenon
    <2> QED BY <1>13, <1>14, <1>17, <2>6
  <1>19. CASE a.b = Bad
    <2>1. g.s = panic(t) BY <1>15, <1>18, <1>19
    <2>2. panic(t).ok = FALSE /\ panic(t).images = t.images BY <1>9, PanicIs
    <2> QED BY <1>9, <1>19, <2>1, <2>2 DEF NewBlock
  <1>20. CASE a.b # Bad
    <2>1. g.s = r /\ g.b = a.b BY <1>15, <1>18, <1>20
    <2>2. PICK G : G = Grown(o, a.b) OBVIOUS
    <2>3. Get(e.s, Root) = nr
      <3>1. e.s.mem[Super] = c BY <1>0, <1>7, <1>15 DEF WithBlock, BlockSet
      <3> QED BY <1>7, <3>1, FileAtOf, FileAtFacts
    <2>4. [nr EXCEPT !.direct[z] = a.b] = G
      <3>1. G = [o EXCEPT !.size = @ + 1, !.direct[o.size] = a.b] BY <2>2, Zenon DEF Grown
      <3> QED BY <1>2, <1>3, <1>4, <3>1 DEF FileSet
    <2>5. r = Put(e.s, Super, SuperBlock(G))
      <3>1. r = Set(e.s, Root, [nr EXCEPT !.direct[z] = a.b])
        BY <1>3, <1>15, <1>17, <2>3, Zenon DEF SetSlot
      <3> QED BY <2>4, <3>1, Zenon DEF Set
    <2>6. SuperBlock(G) \in Contents
      <3>1. G \in FileSet BY <1>0, <1>1, <1>2, <1>3, <1>20, <2>2, GrownFacts
      <3> QED BY <3>1, MakeFacts
    <2>7. PICK C : C = SuperBlock(G) OBVIOUS
    <2>8. /\ r \in StateSet /\ r.disk = e.s.disk /\ r.images = e.s.images /\ r.ok = e.s.ok
          /\ r.mem = [e.s.mem EXCEPT ![Super] = C]
      BY <1>7, <1>15, <2>5, <2>6, <2>7, PutIs
    <2>9. r.mem = WithBlock(a.s.mem, Super, C)
      <3>1. e.s.mem = [a.s.mem EXCEPT ![Super] = c] BY <1>15 DEF WithBlock
      <3>2. [[a.s.mem EXCEPT ![Super] = c] EXCEPT ![Super] = C] = [a.s.mem EXCEPT ![Super] = C]
        BY <1>0, <1>7 DEF BlockSet
      <3> QED BY <2>8, <3>1, <3>2 DEF WithBlock
    <2> QED BY <1>1, <1>15, <1>20, <2>1, <2>2, <2>7, <2>8, <2>9 DEF NewBlock
  <1> QED BY <1>19, <1>20

\* The entries of the new block, with a name in the first one.
LEMMA BlankEnts ==
  ASSUME NEW s, NEW b, s.mem[b].kind # "dir", NEW name \in FileNames,
         NEW ents, ents = [Ents(s, b) EXCEPT ![1] = [Ents(s, b)[1] EXCEPT !.name = name]]
  PROVE  Blank(ents)
PROOF
  <1>1. PICK y : y = Ents(s, b) OBVIOUS
  <1>2. PICK file \in {EmptyFile, GarbageFile} : y = [j \in 1..BLKFILES |-> file]
    BY <1>1 DEF Ents
  <1>3. file \in FileSet /\ file.indirect \in {0, Bad}
        /\ \A k \in FileNumbers : file.direct[k] \in {0, Bad}
    BY <1>2, SpareFiles
  <1>4. PICK nf : nf = [file EXCEPT !.name = name] OBVIOUS
  <1>5. nf \in FileSet /\ nf.indirect = file.indirect /\ nf.direct = file.direct
    BY <1>3, <1>4 DEF FileSet
  <1>6. 1 \in 1..BLKFILES BY Sizing
  <1>7. ents = [y EXCEPT ![1] = nf] BY <1>1, <1>2, <1>4, <1>6
  <1>8. \A j \in 1..BLKFILES : y[j] = file BY <1>2
  <1>9. y \in [1..BLKFILES -> FileSet] BY <1>2, <1>3
  <1>10. \A j \in 1..BLKFILES : ents[j] \in {file, nf} BY <1>7, <1>8, <1>9
  <1>11. ents \in [1..BLKFILES -> FileSet] BY <1>5, <1>7, <1>9
  <1> QED BY <1>3, <1>5, <1>10, <1>11 DEF Blank

\* file_create in a new block of the directory.
LEMMA CreateInNew ==
  ASSUME NEW s, Safe(s, {}), s.mem[Super].root.size < NDIRECT, NEW name \in FileNames,
         NEW a, a = alloc_block(s), a.b # Bad,
         NEW u \in StateSet, u.disk = a.s.disk, u.images = a.s.images, u.ok = a.s.ok,
         u.mem = WithBlock(a.s.mem, Super, SuperBlock(Grown(s.mem[Super].root, a.b))),
         NEW f, f = <<a.b, 1>>,
         NEW r, r = Set(u, f, [Get(u, f) EXCEPT !.name = name])
  PROVE  Safe(r, {})
PROOF
  <1>1. PICK x, m, b : x = a.s /\ m = a.s.mem /\ b = a.b OBVIOUS
  <1>2. /\ Safe(x, {}) /\ m[Super] = s.mem[Super] /\ FilesIn(m) = FilesIn(s.mem)
        /\ b \in Nums /\ b \notin m[Bitmap].free /\ m[b].kind # "dir"
        /\ \A h \in FilesIn(m), k \in Places : Val(m, h, k) # b
    BY <1>1, AllocSafe, ZenonT(60)
  <1>3. /\ x \in StateSet /\ Good(m) /\ Below(x.disk, m, {}) /\ x.disk \in BlockSet
        /\ \A d \in x.images : GoodDisk(d)
    BY <1>1, <1>2 DEF Safe, StateSet
  <1>4. PICK G : G = Grown(m[Super].root, b) OBVIOUS
  <1>5. u.mem = WithBlock(m, Super, SuperBlock(G)) BY <1>1, <1>2, <1>4
  <1>6. /\ b \in 1..(NBLOCKS - 1) /\ b # Super /\ b \in DOMAIN m /\ Super \in DOMAIN m
        /\ DOMAIN m = 1..(NBLOCKS - 1)
    BY <1>2, <1>3, GoodFiles, Sizing DEF Nums
  <1>7. u.mem[b] = m[b] BY <1>5, <1>6 DEF WithBlock
  <1>8. PICK ents : ents = [Ents(u, b) EXCEPT ![1] = [Ents(u, b)[1] EXCEPT !.name = name]]
    OBVIOUS
  <1>9. Blank(ents)
    <2>1. u.mem[b].kind # "dir" BY <1>2, <1>7
    <2> QED BY <1>8, <2>1, BlankEnts
  <1>10. DirBlock(ents) \in Contents BY <1>9, MakeFacts DEF Blank
  <1>11. f # Root /\ f[1] = b /\ f[2] = 1 BY <1>1 DEF Root
  <1>12. Get(u, f) = Ents(u, b)[1] BY <1>11, Zenon DEF Get
  <1>13. r = Put(u, b, DirBlock(ents))
    <2>1. r = Put(u, f[1], DirBlock([Ents(u, f[1]) EXCEPT ![f[2]] = [Get(u, f) EXCEPT !.name = name]]))
      BY <1>11, Zenon DEF Set
    <2> QED BY <1>8, <1>11, <1>12, <2>1
  <1>14. /\ r \in StateSet /\ r.disk = u.disk /\ r.images = u.images /\ r.ok = u.ok
         /\ r.mem = [u.mem EXCEPT ![b] = DirBlock(ents)]
    BY <1>6, <1>10, <1>13, PutIs
  <1>15. PICK n : n = WithDir(m, G, b, ents) OBVIOUS
  <1>16. r.mem = n
    <2>1. n = [m EXCEPT ![Super] = SuperBlock(G), ![b] = DirBlock(ents)] BY <1>15 DEF WithDir
    <2>2. u.mem = [m EXCEPT ![Super] = SuperBlock(G)] BY <1>5 DEF WithBlock
    <2> QED BY <1>14, <2>1, <2>2
  <1>17. m[Super].root.size < NDIRECT BY <1>2
  <1>18. n = WithDir(m, Grown(m[Super].root, b), b, ents) BY <1>4, <1>15
  <1>19. Good(n) BY <1>2, <1>3, <1>9, <1>17, <1>18, WithDirGood
  <1>20. Below(x.disk, n, {}) BY <1>2, <1>3, <1>9, <1>17, <1>18, WithDirBelow
  <1> QED BY <1>1, <1>3, <1>14, <1>16, <1>19, <1>20 DEF Safe

\* file_create: in the first entry without a name, or in a new block.
LEMMA CreateSafe ==
  ASSUME NEW s, Safe(s, {}), s.ok, NEW name \in FileNames, RootFits(s, name),
         NEW r, r = file_create(s, name)
  PROVE  Ended(r)
PROOF
  <1>1. PICK z : z = Get(s, Root).size OBVIOUS
  <1>3. PICK g : g = GotNew(s) OBVIOUS
  <1>4. PICK S : S = Named(s, NoName) OBVIOUS
  <1>5. PICK a : a = dir_alloc_file(s) OBVIOUS
  <1>6. a = IF S # {} THEN [s |-> s, f |-> At(s, FirstOf(S))] ELSE [s |-> g.s, f |-> <<g.b, 1>>]
    BY <1>3, <1>4, <1>5, Zenon DEF dir_alloc_file, Longer, GotNew
  <1>7. PICK v : v = Set(a.s, a.f, [Get(a.s, a.f) EXCEPT !.name = name]) OBVIOUS
  <1>8. r = IF dir_lookup(s, name) THEN s ELSE IF ~a.s.ok THEN a.s ELSE file_flush(v, Root)
    BY <1>5, <1>7, Zenon DEF file_create
  <1>9. s \in StateSet /\ Good(s.mem) BY DEF Safe
  <1>10. ASSUME Safe(v, {}) PROVE Ended(file_flush(v, Root))
    <2>1. Root \in FilesIn(v.mem) BY <1>10, GoodFiles DEF Safe
    <2>2. Safe(file_flush(v, Root), {}) BY <1>10, <2>1, FlushFileSafe
    <2> QED BY <2>2, SafeEnded
  <1>11. CASE dir_lookup(s, name) BY <1>8, <1>11, SafeEnded
  <1>12. CASE ~dir_lookup(s, name) /\ S # {}
    <2>1. a.s = s /\ a.f = At(s, FirstOf(S)) BY <1>6, <1>12
    <2>2. r = file_flush(v, Root) BY <1>8, <1>12, <2>1
    <2>3. PICK f : f = a.f OBVIOUS
    <2>4. f \in FilesIn(s.mem) \ {Root}
      <3>1. S \subseteq DirSlots(s) BY <1>4 DEF Named
      <3>2. S \subseteq Nat \X Nat BY <1>9, <3>1, SlotsAreFiles, Sizing DEF FileNumbers
      <3>3. FirstOf(S) \in DirSlots(s) BY <1>12, <3>1, <3>2, FirstIs
      <3> QED BY <1>9, <2>1, <2>3, <3>3, SlotsAreFiles
    <2>5. PICK file : file = [Get(s, f) EXCEPT !.name = name] OBVIOUS
    <2>6. /\ file \in FileSet /\ file.indirect = FileAt(s.mem, f).indirect
          /\ \A k \in FileNumbers : file.direct[k] = FileAt(s.mem, f).direct[k]
      <3>1. Get(s, f) = FileAt(s.mem, f) /\ Get(s, f) \in FileSet
        BY <1>9, <2>4, FileAtOf, GoodFiles
      <3> QED BY <2>5, <3>1 DEF FileSet
    <2>7. v = Set(s, f, file) BY <1>7, <2>1, <2>3, <2>5
    <2>8. Safe(v, {}) BY <2>4, <2>6, <2>7, ResizeSafe
    <2> QED BY <1>10, <2>2, <2>8
  <1>13. CASE ~dir_lookup(s, name) /\ S = {}
    <2>1. s.mem[Super].root.size < NDIRECT
      <3>1. Get(s, Root).size < NDIRECT BY <1>4, <1>13 DEF RootFits
      <3> QED BY <1>9, <3>1, SlotsAreFiles
    <2>2. a.s = g.s /\ a.f = <<g.b, 1>> BY <1>6, <1>13
    <2>3. PICK c : c = alloc_block(s) OBVIOUS
    <2>4. (c.b # Bad => c.b \in Nums) /\ Safe(c.s, {}) BY <2>3, AllocSafe
    <2>5. c.s.mem \in BlockSet BY <2>4 DEF Safe, StateSet
    <2>6. /\ c.b = Bad => g.s.ok = FALSE /\ g.s.images = s.images
          /\ c.b # Bad =>
               /\ g.b = c.b /\ g.s \in StateSet /\ g.s.disk = c.s.disk
               /\ g.s.images = c.s.images /\ g.s.ok = c.s.ok
               /\ g.s.mem = WithBlock(c.s.mem, Super, SuperBlock(Grown(s.mem[Super].root, c.b)))
      <3>1. MayGrow(s) BY <1>9, <2>1, <2>3, <2>4, <2>5 DEF MayGrow
      <3>2. NewBlock(s, g, c) BY <1>3, <2>3, <3>1, NewDirBlock
      <3> QED BY <3>2 DEF NewBlock
    <2>7. CASE c.b = Bad
      <3>1. r = g.s /\ g.s.ok = FALSE /\ g.s.images = s.images BY <1>8, <1>13, <2>2, <2>6, <2>7
      <3> QED BY <3>1 DEF Ended, Safe
    <2>8. CASE c.b # Bad
      <3>1. v = Set(g.s, <<c.b, 1>>, [Get(g.s, <<c.b, 1>>) EXCEPT !.name = name])
        BY <1>7, <2>2, <2>6, <2>8
      <3>2. PICK u, f : u = g.s /\ f = <<c.b, 1>> OBVIOUS
      <3>3. v = Set(u, f, [Get(u, f) EXCEPT !.name = name]) BY <3>1, <3>2
      <3>4. /\ u \in StateSet /\ u.disk = c.s.disk /\ u.images = c.s.images /\ u.ok = c.s.ok
            /\ u.mem = WithBlock(c.s.mem, Super, SuperBlock(Grown(s.mem[Super].root, c.b)))
        BY <2>6, <2>8, <3>2
      <3>5. Safe(v, {}) BY <2>1, <2>3, <2>8, <3>2, <3>3, <3>4, CreateInNew
      <3>6. r = file_flush(v, Root) \/ (r = a.s /\ ~a.s.ok) BY <1>8, <1>13
      <3>7. ASSUME r = a.s, ~a.s.ok PROVE Ended(r)
        <4>1. r.images = c.s.images /\ ~r.ok BY <2>2, <3>2, <3>4, <3>7
        <4> QED BY <2>4, <4>1 DEF Ended, Safe
      <3> QED BY <1>10, <3>5, <3>6, <3>7
    <2> QED BY <2>7, <2>8
  <1> QED BY <1>11, <1>12, <1>13

-----------------------------------------------------------------------------
(* Starting *)

\* check_bc smashes the super block and puts it back.
SmashFix(s, backup) ==
  flush_block(Put(flush_block(Put(s, Super, Smashed), Super), Super, backup), Super)

\* One of the two rounds of check_bc: the super block is smashed and put back.
LEMMA SmashFixSafe ==
  ASSUME NEW s, Safe(s, {}), NEW r, r = SmashFix(s, s.mem[Super])
  PROVE  Safe(r, {}) /\ r.mem = s.mem
PROOF
  <1>1. PICK m, d : m = s.mem /\ d = s.disk OBVIOUS
  <1>2. /\ s \in StateSet /\ Good(m) /\ Below(d, m, {}) /\ d \in BlockSet /\ m \in BlockSet
        /\ \A e \in s.images : GoodDisk(e)
    BY <1>1 DEF Safe, StateSet
  <1>3. Super \in 1..(NBLOCKS - 1) /\ Smashed \in Contents /\ m[Super] \in Contents
    BY <1>2, MakeFacts, Sizing DEF BlockSet
  <1>4. PICK t : t = Put(s, Super, Smashed) OBVIOUS
  <1>5. PICK m1 : m1 = [m EXCEPT ![Super] = Smashed] OBVIOUS
  <1>6. t \in StateSet /\ t.mem = m1 /\ t.disk = d /\ t.images = s.images
    BY <1>1, <1>2, <1>3, <1>4, <1>5, PutIs
  <1>7. m1[Super] = Smashed BY <1>2, <1>3, <1>5 DEF BlockSet
  <1>8. PICK d1 : d1 = [d EXCEPT ![Super] = Smashed] OBVIOUS
  <1>9. PICK u : u = flush_block(t, Super) OBVIOUS
  <1>10. /\ u \in StateSet /\ u.mem = m1 /\ u.disk = d1 /\ u.images = s.images \cup {d1}
    BY <1>3, <1>6, <1>7, <1>8, <1>9, FlushIs
  <1>10a. PICK c : c = m[Super] OBVIOUS
  <1>11. PICK v : v = Put(u, Super, c) OBVIOUS
  <1>12. PICK m2 : m2 = [m1 EXCEPT ![Super] = c] OBVIOUS
  <1>13. v \in StateSet /\ v.mem = m2 /\ v.disk = d1 /\ v.images = s.images \cup {d1}
    <2>1. c \in Contents BY <1>3, <1>10a
    <2>2. /\ v \in StateSet /\ v.mem = [u.mem EXCEPT ![Super] = c] /\ v.disk = u.disk
          /\ v.images = u.images
      BY <1>3, <1>10, <1>11, <2>1, PutIs
    <2> QED BY <1>10, <1>12, <2>2
  <1>14. m2 = m BY <1>2, <1>3, <1>5, <1>10a, <1>12 DEF BlockSet
  <1>15. PICK d2 : d2 = [d1 EXCEPT ![Super] = c] OBVIOUS
  <1>16. r = flush_block(v, Super) BY <1>1, <1>4, <1>9, <1>10a, <1>11, Zenon DEF SmashFix
  <1>17. /\ r \in StateSet /\ r.mem = m /\ r.disk = d2
         /\ r.images = s.images \cup {d1} \cup {d2}
    <2>1. v.mem[Super] = c BY <1>10a, <1>13, <1>14
    <2>2. /\ r \in StateSet /\ r.mem = v.mem
          /\ r.disk = [v.disk EXCEPT ![Super] = c]
          /\ r.images = v.images \cup {[v.disk EXCEPT ![Super] = c]}
      BY <1>3, <1>13, <1>16, <2>1, FlushIs
    <2>3. [v.disk EXCEPT ![Super] = c] = d2 BY <1>13, <1>15
    <2> QED BY <1>13, <1>14, <2>2, <2>3
  <1>18. PICK e : e = [d EXCEPT ![Super] = c] OBVIOUS
  <1>19. d2 = e BY <1>2, <1>3, <1>8, <1>15, <1>18 DEF BlockSet
  <1>20. e \in BlockSet /\ Below(e, m, {})
    <2>1. Super \in DOMAIN m BY <1>2, GoodFiles
    <2>2. LET x == [d EXCEPT ![Super] = m[Super]] IN x \in BlockSet /\ Below(x, m, {})
      BY <1>2, <2>1, FlushBelow
    <2> QED BY <1>10a, <1>18, <2>2
  <1>21. GoodDisk(d2) BY <1>2, <1>19, <1>20, BelowGoodDisk
  <1>22. GoodDisk(d1)
    <2>1. d1[Super] = Smashed BY <1>2, <1>3, <1>8 DEF BlockSet
    <2> QED BY <2>1 DEF GoodDisk
  <1>23. \A x \in r.images : GoodDisk(x) BY <1>2, <1>17, <1>21, <1>22
  <1> QED BY <1>1, <1>2, <1>17, <1>19, <1>20, <1>23 DEF Safe

\* check_bc.
LEMMA CheckSafe ==
  ASSUME NEW s, Safe(s, {}) PROVE Safe(check_bc(s), {})
PROOF
  <1>1. PICK b : b = s.mem[Super] OBVIOUS
  <1>2. PICK t : t = SmashFix(s, b) OBVIOUS
  <1>3. PICK r : r = SmashFix(t, b) OBVIOUS
  <1>4. check_bc(s) = r BY <1>1, <1>2, <1>3, Zenon DEF check_bc, SmashFix
  <1>5. Safe(t, {}) /\ t.mem = s.mem BY <1>1, <1>2, SmashFixSafe
  <1>6. Safe(r, {}) BY <1>1, <1>3, <1>5, SmashFixSafe
  <1> QED BY <1>4, <1>6

\* A file of the image.
LEMMA FinishFacts ==
  ASSUME NEW name \in FileNames \cup {"/"}, NEW start \in Nat, NEW size \in Nat,
         start + size < NBLOCKS, NEW f, f = finishfile(name, start, size)
  PROVE  /\ f \in FileSet /\ f.size = size
         /\ \A k \in FileNumbers : f.direct[k] = IF k < size THEN start + k ELSE 0
         /\ f.indirect = IF size >= NDIRECT THEN start + size ELSE 0
PROOF
  <1>1. PICK e : e = [k \in FileNumbers |-> IF k < size THEN start + k ELSE 0] OBVIOUS
  <1>2. PICK i : i = IF size >= NDIRECT THEN start + size ELSE 0 OBVIOUS
  <1>3. e \in [FileNumbers -> Pointers] BY <1>1, Sizing DEF FileNumbers, Pointers
  <1>4. i \in Pointers BY <1>2, Sizing DEF Pointers
  <1>5. f = [name |-> name, size |-> size, direct |-> e, indirect |-> i]
    BY <1>1, <1>2, Zenon DEF finishfile, FileNumbers
  <1> QED BY <1>1, <1>2, <1>3, <1>4, <1>5 DEF FileSet

\* The entry of the image's file, and the block of its directory.
ImageEntry == finishfile(ImageFile, 3, ImageSize)
ImageDir == IF ImageEntry.indirect = 0 THEN 3 + ImageSize ELSE 4 + ImageSize
ImageEnts == [j \in 1..BLKFILES |-> IF j = 1 THEN ImageEntry ELSE EmptyFile]
ImageBytes ==
  [j \in 0..(NINDIRECT - 1) |->
    IF j % 4 = 0 /\ NDIRECT + j \div 4 < ImageSize THEN 3 + NDIRECT + j \div 4 ELSE 0]

\* The blocks of the image.
LEMMA FormatIs ==
  ASSUME NEW m, m = Format, NEW f, f = ImageEntry, NEW D, D = ImageDir
  PROVE  /\ D = IF ImageSize >= NDIRECT THEN 4 + ImageSize ELSE 3 + ImageSize
         /\ DOMAIN m = 1..(NBLOCKS - 1) /\ m = [b \in 1..(NBLOCKS - 1) |-> m[b]]
         /\ D \in Nums /\ D < NBLOCKS - 1
         /\ f \in FileSet /\ ImageSize \in Nat
         /\ m[Super] = SuperBlock(finishfile("/", D, 1))
         /\ m[Bitmap] = BitmapBlock((D + 1)..(NBLOCKS - 1))
         /\ m[D] = DirBlock(ImageEnts)
         /\ \A b \in 1..(NBLOCKS - 1) : b \notin {Super, Bitmap, D} =>
              \/ m[b] \in {TextBlock, ZeroBlock} /\ (b # f.indirect \/ f.indirect = 0)
              \/ /\ b = f.indirect
                 /\ m[b] = IndirectBlock(ImageBytes)
PROOF
  <1>1. ImageSize \in 0..(NBLOCKS - 6) /\ ImageFile \in FileNames BY FsBlocksAssumption
  <1>2. /\ f \in FileSet /\ f.indirect = IF ImageSize >= NDIRECT THEN 3 + ImageSize ELSE 0
    <2>1. 3 + ImageSize < NBLOCKS /\ ImageSize \in Nat BY <1>1, Sizing
    <2> QED BY <1>1, <2>1, FinishFacts DEF ImageEntry
  <1>3. D = IF ImageSize >= NDIRECT THEN 4 + ImageSize ELSE 3 + ImageSize
    BY <1>1, <1>2, Sizing DEF ImageDir
  <1>4. D \in Nums /\ D < NBLOCKS - 1 /\ D # Super /\ D # Bitmap /\ Super # Bitmap
        /\ D \notin 3..(2 + ImageSize)
    BY <1>1, <1>3, Sizing DEF Nums
  <1>5. PICK E, I : E = ImageEnts /\ I = ImageBytes OBVIOUS
  <1>7. m = [b \in 1..(NBLOCKS - 1) |->
               CASE b = Super -> SuperBlock(finishfile("/", ImageDir, 1))
                 [] b = Bitmap -> BitmapBlock((ImageDir + 1)..(NBLOCKS - 1))
                 [] b = ImageDir -> DirBlock(ImageEnts)
                 [] b \in 3..(2 + ImageSize) -> TextBlock
                 [] b = ImageEntry.indirect -> IndirectBlock(ImageBytes)
                 [] OTHER -> ZeroBlock]
    BY Zenon DEF Format, ImageEnts, ImageBytes, ImageDir, ImageEntry
  <1>8. PICK C : C = (D + 1)..(NBLOCKS - 1) OBVIOUS
  <1>9. PICK R : R = finishfile("/", D, 1) OBVIOUS
  <1>10. ASSUME NEW b \in 1..(NBLOCKS - 1)
         PROVE  /\ b = Super => m[b] = SuperBlock(R)
                /\ b = Bitmap => m[b] = BitmapBlock(C)
                /\ b = D => m[b] = DirBlock(E)
                /\ b \notin {Super, Bitmap, D} =>
                     IF b \in 3..(2 + ImageSize) THEN m[b] = TextBlock
                     ELSE IF b = f.indirect THEN m[b] = IndirectBlock(I)
                     ELSE m[b] = ZeroBlock
    <2>1. m[b] = CASE b = Super -> SuperBlock(R)
                   [] b = Bitmap -> BitmapBlock(C)
                   [] b = D -> DirBlock(E)
                   [] b \in 3..(2 + ImageSize) -> TextBlock
                   [] b = f.indirect -> IndirectBlock(I)
                   [] OTHER -> ZeroBlock
      BY <1>5, <1>7, <1>8, <1>9
    <2>2. f.indirect \notin {Super, Bitmap, D} /\ f.indirect \notin 3..(2 + ImageSize)
      BY <1>1, <1>2, <1>3, Sizing
    <2>3. Super \notin 3..(2 + ImageSize) /\ Bitmap \notin 3..(2 + ImageSize) BY Sizing
    <2> QED BY <1>4, <2>1, <2>2, <2>3
  <1>11. DOMAIN m = 1..(NBLOCKS - 1) /\ m = [b \in 1..(NBLOCKS - 1) |-> m[b]] BY <1>7
  <1>12. Super \in 1..(NBLOCKS - 1) /\ Bitmap \in 1..(NBLOCKS - 1) /\ D \in 1..(NBLOCKS - 1)
    BY <1>4, Sizing DEF Nums
  <1>13. ASSUME NEW b \in 1..(NBLOCKS - 1), b \notin {Super, Bitmap, D}
         PROVE  \/ m[b] \in {TextBlock, ZeroBlock} /\ (b # f.indirect \/ f.indirect = 0)
                \/ b = f.indirect /\ m[b] = IndirectBlock(I)
    <2>1. b \in 3..(2 + ImageSize) => b # f.indirect \/ f.indirect = 0
      BY <1>1, <1>2, Sizing
    <2> QED BY <1>10, <1>13, <2>1
  <1>14. ImageSize \in Nat BY <1>1, Sizing
  <1> QED BY <1>2, <1>4, <1>3, <1>5, <1>8, <1>9, <1>10, <1>11, <1>12, <1>13, <1>14

\* What the places of the image's files hold.
LEMMA FormatVals ==
  ASSUME NEW m, m = Format, NEW D, D = ImageDir
  PROVE  /\ m \in BlockSet /\ DirBlocks(m) = {D} /\ D \in Nums /\ m[D].kind = "dir"
         /\ m[Super].kind = "super" /\ m[Bitmap].kind = "bitmap"
         /\ m[Bitmap].free = (D + 1)..(NBLOCKS - 1)
         /\ RootGood(m)
         /\ \A b \in DOMAIN m : m[b].kind = "dir" => b = D
         /\ \A k \in Places : Val(m, Root, k) = IF k = 0 THEN D ELSE 0
         /\ \A k \in Places :
              \/ Val(m, <<D, 1>>, k) = 0
              \/ k < NDIRECT /\ k < ImageSize /\ Val(m, <<D, 1>>, k) = 3 + k
              \/ k = NDIRECT /\ NDIRECT <= ImageSize /\ Val(m, <<D, 1>>, k) = 3 + ImageSize
              \/ \E q \in Nat : /\ k = NDIRECT + 1 + 4 * q /\ NDIRECT + q < ImageSize
                                /\ Val(m, <<D, 1>>, k) = 3 + NDIRECT + q
         /\ \A j \in 2..BLKFILES, k \in Places : Val(m, <<D, j>>, k) = 0
         /\ \A g \in FilesIn(m) :
              FileAt(m, g).indirect \notin {0, Bad} => m[FileAt(m, g).indirect].kind = "indirect"
PROOF
  <1>1. PICK f : f = ImageEntry OBVIOUS
  <1>2. PICK E, I, C, R : /\ E = ImageEnts /\ I = ImageBytes /\ C = (D + 1)..(NBLOCKS - 1)
                          /\ R = finishfile("/", D, 1)
    OBVIOUS
  <1>3. /\ D = IF ImageSize >= NDIRECT THEN 4 + ImageSize ELSE 3 + ImageSize
        /\ DOMAIN m = 1..(NBLOCKS - 1) /\ m = [b \in 1..(NBLOCKS - 1) |-> m[b]]
        /\ D \in Nums /\ D < NBLOCKS - 1
        /\ f \in FileSet /\ ImageSize \in Nat
        /\ m[Super] = SuperBlock(R) /\ m[Bitmap] = BitmapBlock(C) /\ m[D] = DirBlock(E)
        /\ \A b \in 1..(NBLOCKS - 1) : b \notin {Super, Bitmap, D} =>
             \/ m[b] \in {TextBlock, ZeroBlock} /\ (b # f.indirect \/ f.indirect = 0)
             \/ b = f.indirect /\ m[b] = IndirectBlock(I)
    BY <1>1, <1>2, FormatIs
  <1>4. ImageSize \in 0..(NBLOCKS - 6) /\ ImageFile \in FileNames BY FsBlocksAssumption
  <1>5. /\ f.indirect = IF ImageSize >= NDIRECT THEN 3 + ImageSize ELSE 0
        /\ \A k \in FileNumbers : f.direct[k] = IF k < ImageSize THEN 3 + k ELSE 0
    <2>1. 3 + ImageSize < NBLOCKS /\ ImageSize \in Nat BY <1>4, Sizing
    <2>2. f = finishfile(ImageFile, 3, ImageSize) BY <1>1 DEF ImageEntry
    <2> QED BY <1>4, <2>1, <2>2, FinishFacts
  <1>6. /\ R \in FileSet /\ R.size = 1 /\ R.indirect = 0
        /\ \A k \in FileNumbers : R.direct[k] = IF k = 0 THEN D ELSE 0
    <2>1. D \in Nat /\ D + 1 < NBLOCKS BY <1>3, Sizing DEF Nums
    <2>2. /\ R \in FileSet /\ R.size = 1
          /\ \A k \in FileNumbers : R.direct[k] = IF k < 1 THEN D + k ELSE 0
          /\ R.indirect = IF 1 >= NDIRECT THEN D + 1 ELSE 0
      BY <1>2, <2>1, FinishFacts
    <2>3. \A k \in FileNumbers : k < 1 <=> k = 0 BY DEF FileNumbers
    <2> QED BY <2>1, <2>2, <2>3, Sizing
  <1>7. E \in [1..BLKFILES -> FileSet] /\ E[1] = f /\ \A j \in 2..BLKFILES : E[j] = EmptyFile
    BY <1>1, <1>2, <1>3, SpareFiles, Sizing DEF ImageEnts
  <1>8. /\ I \in [0..(NINDIRECT - 1) -> 0..(NBLOCKS - 1)]
        /\ \A j \in 0..(NINDIRECT - 1) :
             I[j] = 0 \/ \E q \in Nat : j = 4 * q /\ NDIRECT + q < ImageSize /\ I[j] = 3 + NDIRECT + q
    <2>1. ASSUME NEW j \in 0..(NINDIRECT - 1)
          PROVE  /\ j \div 4 \in Nat /\ (j % 4 = 0 => j = 4 * (j \div 4))
      BY Sizing
    <2>2. \A j \in 0..(NINDIRECT - 1) :
            I[j] = IF j % 4 = 0 /\ NDIRECT + j \div 4 < ImageSize
                   THEN 3 + NDIRECT + j \div 4 ELSE 0
      BY <1>2 DEF ImageBytes
    <2>3. ASSUME NEW j \in 0..(NINDIRECT - 1)
          PROVE I[j] = 0 \/ \E q \in Nat : j = 4 * q /\ NDIRECT + q < ImageSize /\ I[j] = 3 + NDIRECT + q
      BY <2>1, <2>2
    <2>4. \A j \in 0..(NINDIRECT - 1) : I[j] \in 0..(NBLOCKS - 1) BY <1>4, <2>3, Sizing
    <2>5. I = [j \in 0..(NINDIRECT - 1) |-> I[j]] BY <1>2 DEF ImageBytes
    <2> QED BY <2>3, <2>4, <2>5
  <1>9. C \in SUBSET Nums BY <1>2, <1>3, Sizing DEF Nums
  <1>10. /\ SuperBlock(R) \in Contents /\ BitmapBlock(C) \in Contents /\ DirBlock(E) \in Contents
         /\ IndirectBlock(I) \in Contents /\ TextBlock \in Contents /\ ZeroBlock \in Contents
    BY <1>6, <1>7, <1>8, <1>9, MakeFacts
  <1>11. /\ m[Super].kind = "super" /\ m[Super].root = R
         /\ m[Bitmap].kind = "bitmap" /\ m[Bitmap].free = C
         /\ m[D].kind = "dir" /\ m[D].ents = E
         /\ IndirectBlock(I).kind = "indirect" /\ IndirectBlock(I).bytes = I
         /\ TextBlock.kind = "text" /\ ZeroBlock.kind = "zero"
    BY <1>3, MadeKinds
  <1>12. m \in BlockSet
    <2>1. \A b \in 1..(NBLOCKS - 1) : m[b] \in Contents BY <1>3, <1>10
    <2>2. m = [b \in 1..(NBLOCKS - 1) |-> m[b]] BY <1>3
    <2> QED BY <2>1, <2>2 DEF BlockSet
  <1>13. DirBlocks(m) = {D}
    <2>1. \A k \in FileNumbers : k < R.size <=> k = 0 BY <1>6 DEF FileNumbers
    <2>2. 0 \in FileNumbers BY Sizing DEF FileNumbers
    <2> QED BY <1>6, <1>11, <2>1, <2>2 DEF DirBlocks
  <1>14. \A b \in DOMAIN m : m[b].kind = "dir" => b = D
    <2>1. ASSUME NEW b \in DOMAIN m, b # D PROVE m[b].kind # "dir"
      <3>1. CASE b \in {Super, Bitmap} BY <1>11, <3>1
      <3>2. CASE b \notin {Super, Bitmap, D} BY <1>3, <1>11, <3>2
      <3> QED BY <2>1, <3>1, <3>2
    <2> QED BY <2>1
  <1>15. RootGood(m)
    <2>1. \A k \in FileNumbers : k < R.size <=> k = 0 BY <1>6 DEF FileNumbers
    <2>2. R.size \in 1..NDIRECT BY <1>6, Sizing
    <2> QED BY <1>3, <1>6, <1>11, <2>1, <2>2 DEF RootGood
  <1>16. /\ FileAt(m, Root) = R /\ FileAt(m, <<D, 1>>) = f
         /\ \A j \in 2..BLKFILES : FileAt(m, <<D, j>>) = EmptyFile
    <2>1. \A j \in 1..BLKFILES : FileAt(m, <<D, j>>) = E[j] BY <1>11, FileAtFacts
    <2>2. 1 \in 1..BLKFILES /\ \A j \in 2..BLKFILES : j \in 1..BLKFILES BY Sizing
    <2> QED BY <1>7, <1>11, <2>1, <2>2, FileAtFacts
  <1>17. /\ EmptyFile.indirect = 0 /\ \A k \in FileNumbers : EmptyFile.direct[k] = 0
    BY SpareFiles
  <1>18. \A k \in Places : k <= NDIRECT /\ k # NDIRECT => k \in FileNumbers
    BY Sizing DEF Places, FileNumbers
  <1>19. \A k \in Places : Val(m, Root, k) = IF k = 0 THEN D ELSE 0
    <2>1. ~(NDIRECT = 0) /\ 0 <= NDIRECT BY Sizing
    <2> QED BY <1>6, <1>16, <1>18, <2>1, Sizing DEF Val, Ptr
  <1>20. ASSUME NEW j \in 2..BLKFILES, NEW k \in Places PROVE Val(m, <<D, j>>, k) = 0
    BY <1>16, <1>17, <1>18 DEF Val, Ptr
  <1>21. f.indirect \notin {0, Bad} => /\ NDIRECT <= ImageSize /\ f.indirect = 3 + ImageSize
                                       /\ m[f.indirect] = IndirectBlock(I)
    <2>1. SUFFICES ASSUME f.indirect \notin {0, Bad}
                   PROVE  /\ NDIRECT <= ImageSize /\ f.indirect = 3 + ImageSize
                          /\ m[f.indirect] = IndirectBlock(I)
      OBVIOUS
    <2>2. NDIRECT <= ImageSize /\ f.indirect = 3 + ImageSize BY <1>3, <1>5, <2>1, Sizing
    <2>3. f.indirect \in 1..(NBLOCKS - 1) /\ f.indirect \notin {Super, Bitmap, D}
      BY <1>3, <1>4, <2>2, Sizing
    <2> QED BY <1>3, <2>1, <2>2, <2>3
  <1>22. ASSUME NEW k \in Places
         PROVE  \/ Val(m, <<D, 1>>, k) = 0
                \/ k < NDIRECT /\ k < ImageSize /\ Val(m, <<D, 1>>, k) = 3 + k
                \/ k = NDIRECT /\ NDIRECT <= ImageSize /\ Val(m, <<D, 1>>, k) = 3 + ImageSize
                \/ \E q \in Nat : /\ k = NDIRECT + 1 + 4 * q /\ NDIRECT + q < ImageSize
                                  /\ Val(m, <<D, 1>>, k) = 3 + NDIRECT + q
    <2>1. CASE k < NDIRECT
      <3>1. k \in FileNumbers /\ k <= NDIRECT /\ k # NDIRECT
        BY <2>1, Sizing DEF FileNumbers, Places
      <3>2. Val(m, <<D, 1>>, k) = f.direct[k] BY <1>16, <3>1 DEF Val, Ptr
      <3> QED BY <1>5, <2>1, <3>1, <3>2
    <2>2. CASE k = NDIRECT
      <3>1. Val(m, <<D, 1>>, k) = f.indirect
        <4>1. k <= NDIRECT BY <2>2, Sizing
        <4> QED BY <1>16, <2>2, <4>1 DEF Val, Ptr
      <3> QED BY <1>3, <1>5, <2>2, <3>1, Sizing
    <2>3. CASE k > NDIRECT
      <3>1. ~(k <= NDIRECT) /\ k - NDIRECT - 1 \in 0..(NINDIRECT - 1)
        BY <2>3, Sizing DEF Places
      <3>2. CASE f.indirect \in {0, Bad} BY <1>16, <3>1, <3>2 DEF Val
      <3>3. CASE f.indirect \notin {0, Bad}
        <4>1. Val(m, <<D, 1>>, k) = I[k - NDIRECT - 1]
          BY <1>11, <1>16, <1>21, <3>1, <3>3 DEF Val
        <4>2. CASE I[k - NDIRECT - 1] = 0 BY <4>1, <4>2
        <4>3. CASE I[k - NDIRECT - 1] # 0
          <5>1. PICK q \in Nat : /\ k - NDIRECT - 1 = 4 * q /\ NDIRECT + q < ImageSize
                                 /\ I[k - NDIRECT - 1] = 3 + NDIRECT + q
            BY <1>8, <3>1, <4>3
          <5>2. k = NDIRECT + 1 + 4 * q BY <5>1, Sizing DEF Places
          <5> QED BY <4>1, <5>1, <5>2
        <4> QED BY <4>2, <4>3
      <3> QED BY <3>2, <3>3
    <2>4. k \in Nat BY Sizing DEF Places
    <2> QED BY <2>1, <2>2, <2>3, <2>4, Sizing
  <1>23. ASSUME NEW g \in FilesIn(m), FileAt(m, g).indirect \notin {0, Bad}
         PROVE m[FileAt(m, g).indirect].kind = "indirect"
    <2>1. CASE g = Root BY <1>6, <1>16, <1>23, <2>1
    <2>2. CASE g # Root
      <3>1. PICK j \in 1..BLKFILES : g = <<D, j>> BY <1>13, <2>2 DEF FilesIn
      <3>2. CASE j = 1 BY <1>11, <1>16, <1>21, <1>23, <3>1, <3>2
      <3>3. CASE j # 1
        <4>1. j \in 2..BLKFILES BY <3>3
        <4> QED BY <1>16, <1>17, <1>23, <3>1, <4>1
      <3> QED BY <3>2, <3>3
    <2> QED BY <2>1, <2>2
  <1> QED BY <1>2, <1>3, <1>11, <1>12, <1>13, <1>14, <1>15, <1>19, <1>20, <1>22, <1>23

\* fsformat's image has the blocks in order.
LEMMA FormatGood == Good(Format)
PROOF
  <1>1. PICK m, D : m = Format /\ D = ImageDir OBVIOUS
  <1>2. /\ m \in BlockSet /\ DirBlocks(m) = {D} /\ D \in Nums
        /\ m[Super].kind = "super" /\ m[Bitmap].kind = "bitmap"
        /\ m[Bitmap].free = (D + 1)..(NBLOCKS - 1)
        /\ RootGood(m)
        /\ \A b \in DOMAIN m : m[b].kind = "dir" => b = D
        /\ \A k \in Places : Val(m, Root, k) = IF k = 0 THEN D ELSE 0
        /\ \A k \in Places :
             \/ Val(m, <<D, 1>>, k) = 0
             \/ k < NDIRECT /\ k < ImageSize /\ Val(m, <<D, 1>>, k) = 3 + k
             \/ k = NDIRECT /\ NDIRECT <= ImageSize /\ Val(m, <<D, 1>>, k) = 3 + ImageSize
             \/ \E q \in Nat : /\ k = NDIRECT + 1 + 4 * q /\ NDIRECT + q < ImageSize
                               /\ Val(m, <<D, 1>>, k) = 3 + NDIRECT + q
        /\ \A j \in 2..BLKFILES, k \in Places : Val(m, <<D, j>>, k) = 0
        /\ \A g \in FilesIn(m) :
             FileAt(m, g).indirect \notin {0, Bad} => m[FileAt(m, g).indirect].kind = "indirect"
    BY <1>1, FormatVals
  <1>3. /\ D = IF ImageSize >= NDIRECT THEN 4 + ImageSize ELSE 3 + ImageSize
        /\ ImageSize \in Nat
    BY <1>1, FormatIs
  <1>4. ASSUME NEW f \in FilesIn(m), NEW k \in Places, Val(m, f, k) \notin {0, Bad}
        PROVE  \/ f = Root /\ k = 0 /\ Val(m, f, k) = D
               \/ f = <<D, 1>> /\ Val(m, f, k) \in 3..(D - 1)
    <2>1. CASE f = Root BY <1>2, <1>4, <2>1
    <2>2. CASE f # Root
      <3>1. PICK j \in 1..BLKFILES : f = <<D, j>> BY <1>2, <2>2 DEF FilesIn
      <3>2. CASE j # 1
        <4>1. j \in 2..BLKFILES BY <3>2
        <4> QED BY <1>2, <1>4, <3>1, <4>1
      <3>3. CASE j = 1
        <4>1. f = <<D, 1>> BY <3>1, <3>3
        <4>2. k \in Nat BY Sizing DEF Places
        <4>3. \/ k < NDIRECT /\ k < ImageSize /\ Val(m, f, k) = 3 + k
              \/ k = NDIRECT /\ NDIRECT <= ImageSize /\ Val(m, f, k) = 3 + ImageSize
              \/ \E q \in Nat : /\ k = NDIRECT + 1 + 4 * q /\ NDIRECT + q < ImageSize
                                /\ Val(m, f, k) = 3 + NDIRECT + q
          BY <1>2, <1>4, <4>1
        <4>4. Val(m, f, k) \in 3..(D - 1) BY <1>3, <4>2, <4>3, Sizing
        <4> QED BY <4>1, <4>4
      <3> QED BY <3>2, <3>3
    <2> QED BY <2>1, <2>2
  <1>5. ASSUME NEW k \in Places, NEW l \in Places,
               Val(m, <<D, 1>>, k) # 0, Val(m, <<D, 1>>, k) = Val(m, <<D, 1>>, l)
        PROVE  k = l
    <2>1. PICK v : v = Val(m, <<D, 1>>, k) OBVIOUS
    <2>2. \/ k < NDIRECT /\ k < ImageSize /\ v = 3 + k
          \/ k = NDIRECT /\ NDIRECT <= ImageSize /\ v = 3 + ImageSize
          \/ \E q \in Nat : k = NDIRECT + 1 + 4 * q /\ NDIRECT + q < ImageSize /\ v = 3 + NDIRECT + q
      BY <1>2, <1>5, <2>1
    <2>3. \/ l < NDIRECT /\ l < ImageSize /\ v = 3 + l
          \/ l = NDIRECT /\ NDIRECT <= ImageSize /\ v = 3 + ImageSize
          \/ \E q \in Nat : l = NDIRECT + 1 + 4 * q /\ NDIRECT + q < ImageSize /\ v = 3 + NDIRECT + q
      BY <1>2, <1>5, <2>1
    <2>4. k \in Nat /\ l \in Nat BY Sizing DEF Places
    <2> QED BY <1>3, <2>2, <2>3, <2>4, Sizing
  <1>6. D \in Nat /\ D >= 3 BY <1>2, Sizing DEF Nums
  <1>7. Own(m)
    <2>1. ASSUME NEW f \in FilesIn(m), NEW k \in Places, Val(m, f, k) \notin {0, Bad}
          PROVE  /\ Val(m, f, k) > Bitmap /\ Val(m, f, k) \notin m[Bitmap].free
                 /\ \A g \in FilesIn(m), l \in Places :
                      Val(m, g, l) = Val(m, f, k) => g = f /\ l = k
      <3>1. \/ f = Root /\ k = 0 /\ Val(m, f, k) = D
            \/ f = <<D, 1>> /\ Val(m, f, k) \in 3..(D - 1)
        BY <1>4, <2>1
      <3>2. Val(m, f, k) > Bitmap /\ Val(m, f, k) \notin m[Bitmap].free
        BY <1>2, <1>6, <3>1, Sizing
      <3>3. ASSUME NEW g \in FilesIn(m), NEW l \in Places, Val(m, g, l) = Val(m, f, k)
            PROVE g = f /\ l = k
        <4>1. \/ g = Root /\ l = 0 /\ Val(m, g, l) = D
              \/ g = <<D, 1>> /\ Val(m, g, l) \in 3..(D - 1)
          BY <1>4, <2>1, <3>3
        <4>2. D \notin 3..(D - 1) BY <1>6
        <4>3. CASE f = Root /\ k = 0 /\ Val(m, f, k) = D BY <3>3, <4>1, <4>2, <4>3
        <4>4. CASE f = <<D, 1>> /\ Val(m, f, k) \in 3..(D - 1)
          <5>1. g = f BY <3>3, <4>1, <4>2, <4>4
          <5> QED BY <1>5, <2>1, <3>3, <4>4, <5>1
        <4> QED BY <3>1, <4>3, <4>4
      <3> QED BY <3>2, <3>3
    <2> QED BY <2>1 DEF Own
  <1>8. \A b \in DOMAIN m : m[b].kind = "dir" => b \in DirBlocks(m) BY <1>2
  <1>9. Good(m) BY <1>2, <1>7, <1>8 DEF Good
  <1> QED BY <1>1, <1>9

\* The blocks of the image are on the disk.
LEMMA InitSafe ==
  ASSUME NEW s, s = [mem |-> Format, disk |-> Format, images |-> {Format}, ok |-> TRUE]
  PROVE  Safe(s, {})
PROOF
  <1>1. PICK m : m = Format OBVIOUS
  <1>2. Good(m) BY <1>1, FormatGood
  <1>3. m \in BlockSet BY <1>2 DEF Good
  <1>4. s \in StateSet /\ s.mem = m /\ s.disk = m /\ s.images = {m} BY <1>1, <1>3 DEF StateSet
  <1>5. Below(m, m, {})
    <2>1. m[Super].root.size <= m[Super].root.size BY <1>2 DEF Good, RootGood
    <2> QED BY <1>2, <2>1 DEF Below, Good
  <1>6. GoodDisk(m) BY <1>2, <1>3, <1>5, BelowGoodDisk
  <1> QED BY <1>2, <1>4, <1>5, <1>6 DEF Safe

-----------------------------------------------------------------------------
(* The invariants of the run *)

\* A pointer that is neither 0 nor Bad is the value of its place.
LEMMA PointerVal ==
  ASSUME NEW s, Good(s.mem), NEW x \in Directs(s) \cup Indirects(s)
  PROVE  /\ x[1] \in FilesIn(s.mem) /\ x[2] \in Places /\ x = <<x[1], x[2]>>
         /\ Pointer(s, x) = Val(s.mem, x[1], x[2]) /\ Pointer(s, x) \notin {0, Bad}
PROOF
  <1>1. Files(s) \subseteq FilesIn(s.mem) BY SlotsAreFiles
  <1>2. Get(s, x[1]) = FileAt(s.mem, x[1]) BY FileAtOf
  <1>3. CASE x \in Directs(s)
    <2>1. x[1] \in Files(s) /\ x[2] \in 0..NDIRECT /\ x = <<x[1], x[2]>>
          /\ Direct(s, x) \notin {0, Bad}
      BY <1>3 DEF Directs
    <2>2. Direct(s, x) = Ptr(s.mem, x[1], x[2]) BY <1>2 DEF Direct, Ptr
    <2>3. Pointer(s, x) = Direct(s, x) BY <2>1, Sizing DEF Pointer
    <2>4. x[2] \in Places /\ Val(s.mem, x[1], x[2]) = Ptr(s.mem, x[1], x[2]) BY <2>1, PtrVal
    <2> QED BY <1>1, <2>1, <2>2, <2>3, <2>4
  <1>4. CASE x \in Indirects(s)
    <2>1. PICK i : i = FileAt(s.mem, x[1]).indirect OBVIOUS
    <2>2. PICK k : k = x[2] - NDIRECT - 1 OBVIOUS
    <2>3. /\ x[1] \in Files(s) /\ x[2] \in (NDIRECT + 1)..(NDIRECT + NINDIRECT)
          /\ x = <<x[1], x[2]>> /\ i \notin {0, Bad} /\ Entry(s, i, k) \in 1..(NBLOCKS - 1)
      BY <1>2, <1>4, <2>1, <2>2 DEF Indirects
    <2>4. Entry(s, i, k) = s.mem[i].bytes[k]
      <3>1. x[1] \in FilesIn(s.mem) BY <1>1, <2>3
      <3>2. s.mem[i].kind = "indirect" /\ i \in DOMAIN s.mem
        BY <2>1, <2>3, <3>1, IndirectOwned DEF Good
      <3>3. s.mem[i].bytes \in [0..(NINDIRECT - 1) -> 0..(NBLOCKS - 1)]
        BY <3>2, GoodFiles, KindFacts
      <3>4. k \in 0..(NINDIRECT - 1) BY <2>2, <2>3, Sizing
      <3>5. ~Beyond(Entry(s, i, k)) BY <2>3, Sizing DEF Beyond
      <3> QED BY <2>3, <3>2, <3>3, <3>4, <3>5, EntryVal
    <2>5. ~(x[2] <= NDIRECT) /\ x[2] \in Places BY <2>3, Sizing DEF Places
    <2>6. Pointer(s, x) = Entry(s, i, k) BY <1>2, <2>1, <2>2, <2>5 DEF Pointer
    <2>7. Val(s.mem, x[1], x[2]) = s.mem[i].bytes[k] BY <2>1, <2>2, <2>3, <2>5 DEF Val
    <2>8. Pointer(s, x) \notin {0, Bad} BY <2>3, <2>6, Sizing
    <2> QED BY <1>1, <2>3, <2>4, <2>5, <2>6, <2>7, <2>8
  <1> QED BY <1>3, <1>4

\* In good blocks every block is owned once.
LEMMA GoodOwned ==
  ASSUME NEW s, Good(s.mem) PROVE OwnedOnce(s, Directs(s) \cup Indirects(s))
PROOF
  <1>1. PICK X : X = Directs(s) \cup Indirects(s) OBVIOUS
  <1>2. ASSUME NEW x \in X
        PROVE  /\ x[1] \in FilesIn(s.mem) /\ x[2] \in Places /\ x = <<x[1], x[2]>>
               /\ Pointer(s, x) = Val(s.mem, x[1], x[2]) /\ Pointer(s, x) \notin {0, Bad}
    BY <1>1, <1>2, PointerVal
  <1>3. ASSUME NEW x \in X
        PROVE  /\ Pointer(s, x) > Bitmap /\ Pointer(s, x) \notin s.mem[Bitmap].free
               /\ \A y \in X : x # y => Pointer(s, x) # Pointer(s, y)
    <2>1. /\ x[1] \in FilesIn(s.mem) /\ x[2] \in Places /\ x = <<x[1], x[2]>>
          /\ Val(s.mem, x[1], x[2]) \notin {0, Bad}
          /\ Pointer(s, x) = Val(s.mem, x[1], x[2])
      BY <1>2
    <2>2. /\ Val(s.mem, x[1], x[2]) \in Nums /\ Val(s.mem, x[1], x[2]) \notin s.mem[Bitmap].free
          /\ \A g \in FilesIn(s.mem), l \in Places :
               Val(s.mem, g, l) = Val(s.mem, x[1], x[2]) => g = x[1] /\ l = x[2]
      BY <2>1, OwnFacts
    <2>3. \A y \in X : Pointer(s, x) = Pointer(s, y) => x[1] = y[1] /\ x[2] = y[2]
      BY <1>2, <2>1, <2>2
    <2>4. \A y \in X : x # y => Pointer(s, x) # Pointer(s, y) BY <1>2, <2>1, <2>3
    <2> QED BY <2>1, <2>2, <2>4, Sizing DEF Nums
  <1>4. OwnedOnce(s, X) BY <1>3, Zenon DEF OwnedOnce
  <1> QED BY <1>1, <1>4

\* Who owns a block depends on the cache alone.
LEMMA OwnedByMem ==
  ASSUME NEW s, NEW u, s.mem = u.mem, OwnedOnce(s, Directs(s))
  PROVE  OwnedOnce(u, Directs(u))
PROOF
  <1>1. \A f : Get(s, f) = Get(u, f) BY FileAtOf
  <1>2. DirSlots(s) = DirSlots(u) BY <1>1 DEF DirSlots
  <1>3. \A x : At(s, x) = At(u, x) BY <1>1 DEF At
  <1>4. Files(s) = Files(u) BY <1>2, <1>3 DEF Files
  <1>5. \A x : Direct(s, x) = Direct(u, x) BY <1>1 DEF Direct
  <1>6. Directs(s) = Directs(u) BY <1>4, <1>5 DEF Directs
  <1>7. \A x \in Directs(u) : Pointer(s, x) = Pointer(u, x)
    <2>1. \A x \in Directs(u) : x[2] <= NDIRECT BY Sizing DEF Directs
    <2> QED BY <1>5, <2>1 DEF Pointer
  <1> QED BY <1>6, <1>7 DEF OwnedOnce

\* How an operation ends: with the state u, or as the crash finds the disk d.
EndsAs(r) == [r EXCEPT !.images = {r.disk}]
CrashesAs(d) == [mem |-> d, disk |-> d, images |-> {d}, ok |-> Mountable(d)]

\* The state after an operation, without a crash.
LEMMA EndsSafe ==
  ASSUME NEW r, Safe(r, {}) PROVE Safe(EndsAs(r), {})
PROOF
  <1>1. PICK u : u = EndsAs(r) OBVIOUS
  <1>2. r \in StateSet /\ Good(r.mem) /\ Below(r.disk, r.mem, {}) /\ r.disk \in BlockSet
    BY DEF Safe, StateSet
  <1>3. /\ u \in StateSet /\ u.mem = r.mem /\ u.disk = r.disk /\ u.images = {r.disk}
    BY <1>1, <1>2 DEF StateSet, EndsAs
  <1>4. GoodDisk(r.disk) BY <1>2, BelowGoodDisk
  <1> QED BY <1>1, <1>2, <1>3, <1>4 DEF Safe

\* The state after a crash.
LEMMA CrashSafe ==
  ASSUME NEW d, GoodDisk(d), NEW u, u = CrashesAs(d)
  PROVE  (u.ok \/ u.disk[Super] = Smashed) /\ (u.ok => OwnedOnce(u, Directs(u)))
PROOF
  <1>1. u.mem = d /\ u.disk = d /\ u.ok = Mountable(d) BY DEF CrashesAs
  <1>2. CASE d[Super] = Smashed
    <2>1. ~Mountable(d) BY <1>2, MadeKinds DEF Mountable, check_super
    <2> QED BY <1>1, <1>2, <2>1
  <1>3. CASE Mountable(d) /\ OwnedOnce([mem |-> d], Directs([mem |-> d]))
    <2>1. PICK s : s = [mem |-> d] OBVIOUS
    <2>2. s.mem = u.mem /\ OwnedOnce(s, Directs(s)) BY <1>1, <1>3, <2>1
    <2>3. OwnedOnce(u, Directs(u)) BY <2>2, OwnedByMem
    <2> QED BY <1>1, <1>3, <2>3
  <1> QED BY <1>2, <1>3 DEF GoodDisk

\* An operation that ends well keeps the invariant.
LEMMA DoKeeps ==
  ASSUME NEW r, Ended(r), Do(r) PROVE BlocksInv'
PROOF
  <1>1. CASE fs' = EndsAs(r) /\ phase' = "up"
    <2>1. (fs').ok => Safe(fs', {})
      <3>1. SUFFICES ASSUME (fs').ok PROVE Safe(fs', {}) OBVIOUS
      <3>2. r.ok BY <1>1, <3>1 DEF EndsAs
      <3> QED BY <1>1, <3>2, EndsSafe DEF Ended
    <2> QED BY <1>1, <2>1 DEF BlocksInv, CrashIsSafe
  <1>2. CASE \E d \in r.images : fs' = CrashesAs(d) /\ phase' = "crashed"
    <2>1. PICK d \in r.images : fs' = CrashesAs(d) /\ phase' = "crashed" BY <1>2
    <2>2. GoodDisk(d) BY DEF Ended
    <2>3. PICK u : u = fs' OBVIOUS
    <2>4. (u.ok \/ u.disk[Super] = Smashed) /\ (u.ok => OwnedOnce(u, Directs(u)))
      BY <2>1, <2>2, <2>3, CrashSafe
    <2> QED BY <2>1, <2>3, <2>4 DEF BlocksInv, CrashIsSafe
  <1>3. \/ fs' = EndsAs(r) /\ phase' = "up"
        \/ \E d \in r.images : fs' = CrashesAs(d) /\ phase' = "crashed"
    BY Zenon DEF Do, EndsAs, CrashesAs
  <1> QED BY <1>1, <1>2, <1>3

\* Every operation of the file system, ended or crashed, keeps the invariant.
LEMMA BlocksStep ==
  ASSUME BlocksInv, [BlocksNext]_blkVars PROVE BlocksInv'
PROOF
  <1>1. PICK s : s = fs OBVIOUS
  <1>2. ASSUME Up PROVE Safe(s, {}) /\ s.ok /\ Open(s) \subseteq FilesIn(s.mem) \ {Root}
    <2>1. Safe(s, {}) /\ s.ok BY <1>1, <1>2 DEF BlocksInv, Up
    <2> QED BY <2>1, SlotsAreFiles DEF Safe
  <1>3. CASE fs_init
    <2>1. Safe(s, {}) /\ Do(check_bc(s)) BY <1>1, <1>3 DEF fs_init, BlocksInv
    <2>2. Ended(check_bc(s)) BY <2>1, CheckSafe, SafeEnded
    <2> QED BY <2>1, <2>2, DoKeeps
  <1>4. CASE create_file
    <2>1. Up BY <1>4 DEF create_file
    <2>2. PICK n \in FileNames : RootFits(s, n) /\ Do(file_create(s, n))
      BY <1>1, <1>4 DEF create_file
    <2>3. Ended(file_create(s, n)) BY <1>2, <2>1, <2>2, CreateSafe
    <2> QED BY <2>2, <2>3, DoKeeps
  <1>5. CASE set_size
    <2>1. Up BY <1>5 DEF set_size
    <2>2. PICK f \in Open(s), n \in Sizes : Do(file_set_size(s, f, n))
      BY <1>1, <1>5 DEF set_size
    <2>3. f \in FilesIn(s.mem) \ {Root} /\ n \in Nat BY <1>2, <2>1, FsBlocksAssumption
    <2>4. PICK r : r = file_set_size(s, f, n) OBVIOUS
    <2>5. Safe(r, Only(f)) /\ (r.ok => Safe(r, {})) BY <1>2, <2>1, <2>3, <2>4, SetSizeSafe
    <2>6. Ended(r) BY <2>5, SafeEnded
    <2> QED BY <2>2, <2>4, <2>6, DoKeeps
  <1>6. CASE flush_file
    <2>1. Up BY <1>6 DEF flush_file
    <2>2. PICK f \in Open(s) : Do(file_flush(s, f)) BY <1>1, <1>6 DEF flush_file
    <2>3. Safe(file_flush(s, f), {}) BY <1>2, <2>1, FlushFileSafe
    <2> QED BY <2>2, <2>3, SafeEnded, DoKeeps
  <1>7. CASE sync_disk
    <2>1. Up /\ Do(fs_sync(s)) BY <1>1, <1>7 DEF sync_disk
    <2>2. Safe(fs_sync(s), {}) BY <1>2, <2>1, SyncSafe
    <2> QED BY <2>1, <2>2, SafeEnded, DoKeeps
  <1>8. CASE read_file
    <2>1. Up BY <1>8 DEF read_file
    <2>2. PICK f \in Open(s) : Do(file_read(s, f)) BY <1>1, <1>8 DEF read_file
    <2>3. Safe(file_read(s, f), {}) BY <1>2, <2>1, ReadSafe
    <2> QED BY <2>2, <2>3, SafeEnded, DoKeeps
  <1>9. CASE write_block
    <2>1. Up BY <1>9 DEF write_block
    <2>2. PICK f \in Open(s), n \in Sizes \ {0} : Do(file_write(s, f, n - 1))
      BY <1>1, <1>9 DEF write_block
    <2>3. n - 1 \in Nat BY FsBlocksAssumption
    <2>4. Safe(file_write(s, f, n - 1), {}) BY <1>2, <2>1, <2>3, WriteSafe
    <2> QED BY <2>2, <2>4, SafeEnded, DoKeeps
  <1>10. CASE UNCHANGED blkVars
    BY <1>10 DEF blkVars, BlocksInv, CrashIsSafe
  <1> QED BY <1>3, <1>4, <1>5, <1>6, <1>7, <1>8, <1>9, <1>10 DEF BlocksNext

\* fsformat's image satisfies the invariant.
LEMMA BlocksStart ==
  ASSUME BlocksInit PROVE BlocksInv
PROOF
  <1>1. PICK s : s = fs OBVIOUS
  <1>2. Safe(s, {}) BY <1>1, InitSafe DEF BlocksInit
  <1>3. phase = "off" BY DEF BlocksInit
  <1> QED BY <1>1, <1>2, <1>3 DEF BlocksInv, CrashIsSafe

\* The inductive invariant: between the operations the cache is a good file
\* system and the disk holds less of it; every disk that a crash leaves is
\* one that can be used.
THEOREM BlocksInvariant == BlocksInit /\ [][BlocksNext]_blkVars => []BlocksInv
PROOF
  <1>1. BlocksInit => BlocksInv BY BlocksStart
  <1>2. BlocksInv /\ [BlocksNext]_blkVars => BlocksInv' BY BlocksStep
  <1> QED BY <1>1, <1>2, PTL

\* No block belongs to two files, or to a file and to the free blocks,
\* whatever is created, extended, truncated and written: alloc_block,
\* file_get_block, file_free_block and file_truncate_blocks together, with
\* indirect entries that overlap.  It says nothing of a server that panicked
\* or has set a bit outside the bitmap (TruncationEnds is false).
THEOREM OwnedOnceAlways == BlocksInit /\ [][BlocksNext]_blkVars => []BlocksOwnedOnce
PROOF
  <1>1. BlocksInv => BlocksOwnedOnce
    <2>1. PICK s : s = fs OBVIOUS
    <2>2. ASSUME BlocksInv, phase = "up" /\ fs.ok
          PROVE OwnedOnce(fs, Directs(fs) \cup Indirects(fs))
      <3>1. Good(s.mem) BY <2>1, <2>2 DEF BlocksInv, Safe
      <3> QED BY <2>1, <3>1, GoodOwned
    <2> QED BY <2>2 DEF BlocksOwnedOnce
  <1> QED BY <1>1, BlocksInvariant, PTL

\* A crash at any write of any operation leaves a disk that can be mounted,
\* on which no block is owned twice or both owned and free; but for the two
\* moments at which check_bc has smashed the super block.
THEOREM CrashSafeAlways == BlocksInit /\ [][BlocksNext]_blkVars => []CrashIsSafe
PROOF
  <1>1. BlocksInv => CrashIsSafe BY DEF BlocksInv
  <1> QED BY <1>1, BlocksInvariant, PTL
=============================================================================
