------------------------------ MODULE FsBlocks ------------------------------
(***************************************************************************)
(* The file system on its blocks: tps/fs/fs.c and the block cache          *)
(* tps/fs/bc.c.  An operation of fs.c is one step (the server serves one   *)
(* request at a time), written as a composition of what it does to the     *)
(* state s: s.mem are the blocks as the cache shows them, s.disk as they   *)
(* are on the disk, s.images every state the disk went through, s.ok is    *)
(* FALSE once the server has panicked, or has set a bit in a block that    *)
(* holds no bitmap: from then on the model does not follow it.  A crash    *)
(* finds the disk in one of the images and loses the cache.                *)
(*                                                                         *)
(* Sizes are in blocks.  A block that is not in the cache shows what is on *)
(* the disk, so flush_block needs no dirty bit here.                       *)
(***************************************************************************)
EXTENDS Naturals, Sequences

CONSTANTS
  NBLOCKS,          \* s_nblocks, at most 256 here: a number takes a byte
  BLKBITSIZE,       \* bits in a block of the bitmap (32768 in the code)
  WORD,             \* bits in a word of the bitmap (32 in the code)
  NDIRECT,          \* direct block pointers of a file (10 in the code)
  NINDIRECT,        \* entries of the indirect block (1024 in the code)
  BLKFILES,         \* files in a block of a directory (16 in the code)
  FileNames,        \* the files that are created
  ImageFile, ImageSize,   \* the file that fsformat puts on the disk
  Sizes             \* the sizes that files are given

ASSUME FsBlocksAssumption ==
  /\ {NBLOCKS, WORD, NDIRECT, NINDIRECT, BLKFILES} \subseteq Nat \ {0}
  /\ Sizes \subseteq Nat
  /\ NBLOCKS \in 5..256
  /\ BLKBITSIZE \in Nat /\ BLKBITSIZE > NBLOCKS     \* one block of bitmap
  /\ ImageFile \in FileNames /\ ImageSize \in 0..(NBLOCKS - 6)
  /\ NDIRECT > 1      \* the root directory of the image has no indirect block

\* A block number that is out of range, at which diskaddr panics: the error
\* code that file_get_block stores in a slot, and what a block of text looks
\* like (0x20202020, four blanks).
Bad == 538976288
Pointers == 0..(NBLOCKS - 1) \cup {Bad}
Super == 1
Bitmap == 2

NoName == "noname"
Garbage == "garbage"
Zeros == [k \in 0..(NDIRECT - 1) |-> 0]
EmptyFile == [name |-> NoName, size |-> 0, direct |-> Zeros, indirect |-> 0]
\* What a block of text looks like to a directory.
GarbageFile ==
  [name |-> Garbage, size |-> 1,
   direct |-> [k \in 0..(NDIRECT - 1) |-> Bad], indirect |-> Bad]

\* The contents of a block.
SuperBlock(root) == [kind |-> "super", root |-> root]
BitmapBlock(free) == [kind |-> "bitmap", free |-> free]
DirBlock(ents) == [kind |-> "dir", ents |-> ents]
IndirectBlock(bytes) == [kind |-> "indirect", bytes |-> bytes]
ZeroBlock == [kind |-> "zero"]
TextBlock == [kind |-> "text"]
Smashed == [kind |-> "smashed"]          \* "OOPS!" in check_bc

VARIABLES
  fs,         \* the state s of the header
  phase       \* "off", "up", and "crashed": after the crash

blkVars == <<fs, phase>>

-----------------------------------------------------------------------------
(* bc.c *)

panic(s) == [s EXCEPT !.ok = FALSE]

flush_block(s, b) ==
  LET d == [s.disk EXCEPT ![b] = s.mem[b]]
  IN [s EXCEPT !.disk = d, !.images = @ \cup {d}]

Put(s, b, content) == [s EXCEPT !.mem[b] = content]

\* diskaddr and the fault that reads the block: a bad or a free block makes
\* the server panic.
Readable(s, b) == b \in 1..(NBLOCKS - 1) /\ b \notin s.mem[Bitmap].free

\* check_bc writes garbage over the super block, twice, and puts it back.
check_bc(s) ==
  LET backup == s.mem[Super]
      smash(t) == flush_block(Put(t, Super, Smashed), Super)
      fix(t) == flush_block(Put(t, Super, backup), Super)
  IN fix(smash(fix(smash(s))))

-----------------------------------------------------------------------------
(* The bitmap *)

block_is_free(s, b) == b < NBLOCKS /\ b \in s.mem[Bitmap].free

\* The block with bit b of the bitmap, as free_block computes its address.
BitBlock(b) == Bitmap + b \div BLKBITSIZE

\* b is not compared with s_nblocks.  A bit beyond the end of the disk but in
\* the bitmap does not matter, nor does one in a block of text.  In a block
\* that is not on the disk bc_pgfault panics, and so it does in a free one
\* that is not in the cache; any other block is corrupted.
free_block(s, b) ==
  IF b < NBLOCKS THEN [s EXCEPT !.mem[Bitmap].free = @ \cup {b}]
  ELSE IF BitBlock(b) = Bitmap THEN s
  ELSE IF Readable(s, BitBlock(b)) /\ s.mem[BitBlock(b)] = TextBlock THEN s
  ELSE panic(s)

SameWord(b) == {c \in 0..(NBLOCKS - 1) : c \div WORD = b \div WORD}

\* Mutant of alloc_block: the bitmap reaches the disk some time later.
alloc_block_lazy(s) ==
  LET free == s.mem[Bitmap].free
      b == CHOOSE x \in free : \A y \in free : x <= y
  IN IF free = {} THEN [s |-> s, b |-> Bad]
     ELSE [s |-> [s EXCEPT !.mem[Bitmap].free = @ \ SameWord(b)], b |-> b]

\* The first free block; all the bits of its word are cleared with it
\* (bitmap &= 0 << n).  Bad stands for -E_NO_DISK.
alloc_block(s) ==
  LET free == s.mem[Bitmap].free
      b == CHOOSE x \in free : \A y \in free : x <= y
  IN IF free = {} THEN [s |-> s, b |-> Bad]
     ELSE [s |-> flush_block([s EXCEPT !.mem[Bitmap].free = @ \ SameWord(b)], Bitmap),
           b |-> b]

-----------------------------------------------------------------------------
(* Files.  f is the root directory or <<block, entry>>. *)

Root == <<Super, 0>>
Ents(s, b) ==
  CASE s.mem[b].kind = "dir" -> s.mem[b].ents
    [] s.mem[b].kind = "text" -> [j \in 1..BLKFILES |-> GarbageFile]
    [] OTHER -> [j \in 1..BLKFILES |-> EmptyFile]

Get(s, f) == IF f = Root THEN s.mem[Super].root ELSE Ents(s, f[1])[f[2]]
Set(s, f, file) ==
  IF f = Root THEN Put(s, Super, SuperBlock(file))
  ELSE Put(s, f[1], DirBlock([Ents(s, f[1]) EXCEPT ![f[2]] = file]))

\* Entry k of an indirect block: the addition in file_block_walk counts bytes,
\* so the four bytes of entry k begin at byte k.  If one of them belongs to
\* another entry, the number is 256 or more, which no block has.
Covered(k) == {j \in (k + 1)..(k + 3) : j < NINDIRECT}
Byte(s, b, k) == IF k < NINDIRECT THEN s.mem[b].bytes[k] ELSE 0
Entry(s, b, k) ==
  IF b = Bad THEN Bad
  ELSE IF s.mem[b].kind # "indirect" THEN Bad
  ELSE Byte(s, b, k) + 256 * (Byte(s, b, k + 1)
         + 256 * (Byte(s, b, k + 2) + 256 * Byte(s, b, k + 3)))
SetEntry(s, b, k, v) ==
  Put(s, b, IndirectBlock([j \in 0..(NINDIRECT - 1) |->
    IF j = k THEN v ELSE IF j \in Covered(k) THEN 0 ELSE s.mem[b].bytes[j]]))

\* The slot for block n of a file, with the indirect block if it is needed
\* and may be allocated.  err: no slot.
file_block_walk(s, f, n, alloc) ==
  LET file == Get(s, f)
      a == alloc_block(s)
      cleared == IndirectBlock([k \in 0..(NINDIRECT - 1) |-> 0])
  IN IF n >= NDIRECT + NINDIRECT THEN [s |-> s, err |-> TRUE]
     ELSE IF n < NDIRECT THEN [s |-> s, err |-> FALSE]
     ELSE IF file.indirect # 0
     THEN [s |-> IF Readable(s, file.indirect) THEN s ELSE panic(s), err |-> FALSE]
     ELSE IF ~alloc \/ a.b = Bad THEN [s |-> s, err |-> TRUE]
     ELSE [s |-> flush_block(
                   Put(Set(a.s, f, [file EXCEPT !.indirect = a.b]), a.b, cleared), a.b),
           err |-> FALSE]

Slot(s, f, n) ==
  IF n < NDIRECT THEN Get(s, f).direct[n]
  ELSE Entry(s, Get(s, f).indirect, n - NDIRECT)
SetSlot(s, f, n, v) ==
  IF n < NDIRECT THEN Set(s, f, [Get(s, f) EXCEPT !.direct[n] = v])
  ELSE SetEntry(s, Get(s, f).indirect, n - NDIRECT, v)

\* The block is not cleared.  A full disk is not noticed: -E_NO_DISK is
\* stored in the slot, and diskaddr panics.
file_get_block(s, f, n) ==
  LET w == file_block_walk(s, f, n, TRUE)
      a == alloc_block(w.s)
  IN IF ~s.ok \/ ~w.s.ok \/ w.err THEN [s |-> w.s, err |-> TRUE, b |-> Bad]
     ELSE IF Slot(w.s, f, n) = 0
     THEN [s |-> IF a.b = Bad THEN panic(w.s) ELSE SetSlot(a.s, f, n, a.b),
           err |-> FALSE, b |-> a.b]
     ELSE [s |-> IF Readable(w.s, Slot(w.s, f, n)) THEN w.s ELSE panic(w.s),
           err |-> FALSE, b |-> Slot(w.s, f, n)]

\* All blocks of the file in turn; a hole is filled.  What stops the loop for
\* one block stops it for the next one, and changes nothing.
read_nth(s, f, n) == IF s.ok THEN file_get_block(s, f, n).s ELSE s
file_read(s, f) ==
  LET t[k \in 0..Get(s, f).size] == IF k = 0 THEN s ELSE read_nth(t[k - 1], f, k - 1)
  IN t[Get(s, f).size]

\* Mutant of file_free_block: the pointer stays.
file_free_block_keep(s, f, n) ==
  LET w == file_block_walk(s, f, n, FALSE)
  IN IF w.err \/ ~w.s.ok \/ Slot(w.s, f, n) = 0 THEN w.s
     ELSE free_block(w.s, Slot(w.s, f, n))

file_free_block(s, f, n) ==
  LET w == file_block_walk(s, f, n, FALSE)
      t == free_block(w.s, Slot(w.s, f, n))
  IN IF w.err \/ ~w.s.ok \/ Slot(w.s, f, n) = 0 THEN w.s
     ELSE IF t.ok THEN SetSlot(t, f, n, 0) ELSE t

free_nth(s, f, n) == IF s.ok THEN file_free_block(s, f, n) ELSE s
free_blocks(s, f, size, old) ==
  LET t[k \in 0..(old - size)] ==
        IF k = 0 THEN s ELSE free_nth(t[k - 1], f, size + k - 1)
  IN t[old - size]

file_truncate_blocks(s, f, size) ==
  LET t == free_blocks(s, f, size, Get(s, f).size)
      i == Get(t, f).indirect
      u == free_block(t, i)
  IN IF ~t.ok \/ size > NDIRECT \/ i = 0 THEN t
     ELSE IF u.ok THEN Set(u, f, [Get(u, f) EXCEPT !.indirect = 0]) ELSE u

set_size_of(t, f, size) ==
  IF t.ok THEN flush_block(Set(t, f, [Get(t, f) EXCEPT !.size = size]), f[1]) ELSE t
file_set_size(s, f, size) ==
  set_size_of(IF Get(s, f).size > size THEN file_truncate_blocks(s, f, size) ELSE s, f, size)

\* file_write of block n of the file, which may have to grow; g is what
\* file_get_block returns.
fill_block(g) == IF g.err \/ ~g.s.ok THEN g.s ELSE Put(g.s, g.b, TextBlock)
file_write(s, f, n) ==
  fill_block(file_get_block(
    IF n >= Get(s, f).size THEN file_set_size(s, f, n + 1) ELSE s, f, n))

\* Block n of the file, if it has one: diskaddr panics at a bad number.
flush_nth(s, f, n) ==
  LET w == file_block_walk(s, f, n, FALSE)
  IN IF ~s.ok \/ w.err THEN s
     ELSE IF ~w.s.ok THEN w.s
     ELSE IF Slot(s, f, n) = 0 THEN s
     ELSE IF Slot(s, f, n) >= NBLOCKS THEN panic(s)
     ELSE flush_block(s, Slot(s, f, n))
flush_contents(s, f) ==
  LET t[k \in 0..Get(s, f).size] == IF k = 0 THEN s ELSE flush_nth(t[k - 1], f, k - 1)
  IN t[Get(s, f).size]

\* The blocks of the file, the block with its struct File, its indirect block.
file_flush(s, f) ==
  LET t == flush_contents(s, f)
      u == flush_block(t, f[1])
      i == Get(s, f).indirect
  IN IF ~t.ok THEN t
     ELSE IF i = 0 THEN u
     ELSE IF i = Bad THEN panic(u)
     ELSE flush_block(u, i)

fs_sync(s) ==
  LET t[b \in 0..(NBLOCKS - 1)] == IF b = 0 THEN s ELSE flush_block(t[b - 1], b)
  IN t[NBLOCKS - 1]

-----------------------------------------------------------------------------
(* The root directory *)

DirSlots(s) ==
  {x \in (0..(NDIRECT - 1)) \X (1..BLKFILES) : x[1] < Get(s, Root).size}
At(s, x) == <<Get(s, Root).direct[x[1]], x[2]>>
Before(x, y) == x[1] < y[1] \/ (x[1] = y[1] /\ x[2] <= y[2])
FirstOf(S) == CHOOSE x \in S : \A y \in S : Before(x, y)

Named(s, name) == {x \in DirSlots(s) : Get(s, At(s, x)).name = name}
dir_lookup(s, name) == Named(s, name) # {}

\* Bound: the root directory keeps to its direct blocks.
RootFits(s, name) ==
  dir_lookup(s, name) \/ Named(s, NoName) # {} \/ Get(s, Root).size < NDIRECT

\* dir_alloc_file: the first entry without a name, or the first one of a new
\* block; the size grows before the block is there.
dir_alloc_file(s) ==
  LET n == Get(s, Root).size
      t == Set(s, Root, [Get(s, Root) EXCEPT !.size = n + 1])
      g == file_get_block(t, Root, n)
  IN IF Named(s, NoName) # {} THEN [s |-> s, f |-> At(s, FirstOf(Named(s, NoName)))]
     ELSE [s |-> g.s, f |-> <<g.b, 1>>]

\* file_create of a name in the root directory.  Only the name is filled in.
file_create(s, name) ==
  LET a == dir_alloc_file(s)
  IN IF dir_lookup(s, name) THEN s
     ELSE IF ~a.s.ok THEN a.s
     ELSE file_flush(Set(a.s, a.f, [Get(a.s, a.f) EXCEPT !.name = name]), Root)

\* file_open.
Open(s) == {At(s, x) : x \in {y \in DirSlots(s) :
                                Get(s, At(s, y)).name \in FileNames}}

-----------------------------------------------------------------------------
\* fsformat.c: the blocks of the image's files (here one, of ImageSize blocks
\* from block 3), each followed by its indirect block if it fills its direct
\* ones, then the root directory.
finishfile(name, start, size) ==
  [name |-> name, size |-> size,
   direct |-> [k \in 0..(NDIRECT - 1) |-> IF k < size THEN start + k ELSE 0],
   indirect |-> IF size >= NDIRECT THEN start + size ELSE 0]

Format ==
  LET file == finishfile(ImageFile, 3, ImageSize)
      dir == IF file.indirect = 0 THEN 3 + ImageSize ELSE 4 + ImageSize
  IN [b \in 1..(NBLOCKS - 1) |->
        CASE b = Super -> SuperBlock(finishfile("/", dir, 1))
          [] b = Bitmap -> BitmapBlock((dir + 1)..(NBLOCKS - 1))
          [] b = dir -> DirBlock([j \in 1..BLKFILES |-> IF j = 1 THEN file ELSE EmptyFile])
          [] b \in 3..(2 + ImageSize) -> TextBlock
          [] b = file.indirect ->
               IndirectBlock([j \in 0..(NINDIRECT - 1) |->
                 IF j % 4 = 0 /\ NDIRECT + j \div 4 < ImageSize
                 THEN 3 + NDIRECT + j \div 4 ELSE 0])
          [] OTHER -> ZeroBlock]

BlocksInit ==
  /\ fs = [mem |-> Format, disk |-> Format, images |-> {Format}, ok |-> TRUE]
  /\ phase = "off"

check_super(d) == d[Super].kind = "super"
check_bitmap(d) == {1, 2} \cap d[Bitmap].free = {}
Mountable(d) == check_super(d) /\ check_bitmap(d)

\* An operation ends, with or without a panic; or the machine stops at one of
\* its writes to the disk, and what was in memory is lost.
Do(s) ==
  \/ /\ fs' = [s EXCEPT !.images = {s.disk}]
     /\ phase' = "up"
  \/ \E d \in s.images :
       /\ fs' = [mem |-> d, disk |-> d, images |-> {d}, ok |-> Mountable(d)]
       /\ phase' = "crashed"

Up == phase = "up" /\ fs.ok

fs_init == phase = "off" /\ Mountable(fs.disk) /\ Do(check_bc(fs))

create_file == Up /\ \E n \in FileNames : RootFits(fs, n) /\ Do(file_create(fs, n))
set_size == Up /\ \E f \in Open(fs), n \in Sizes : Do(file_set_size(fs, f, n))
flush_file == Up /\ \E f \in Open(fs) : Do(file_flush(fs, f))
sync_disk == Up /\ Do(fs_sync(fs))

\* file_read gets every block of the file.
read_file ==
  Up /\ \E f \in Open(fs) :
    /\ Get(fs, f).size > 0
    /\ Do(file_read(fs, f))

\* file_write of the last block of a size.
write_block == Up /\ \E f \in Open(fs), n \in Sizes \ {0} : Do(file_write(fs, f, n - 1))

BlocksNext ==
  \/ fs_init \/ create_file \/ set_size \/ flush_file \/ sync_disk \/ read_file
  \/ write_block

-----------------------------------------------------------------------------
(* Properties *)

\* The blocks that the files of a disk (or cache) refer to, each with the
\* place of the pointer.  Numbers that no block has are left out.
Files(s) == {Root} \cup {At(s, x) : x \in DirSlots(s)}
Direct(s, x) ==
  IF x[2] = NDIRECT THEN Get(s, x[1]).indirect ELSE Get(s, x[1]).direct[x[2]]
Directs(s) == {x \in Files(s) \X (0..NDIRECT) : Direct(s, x) \notin {0, Bad}}
Indirects(s) ==
  {x \in Files(s) \X ((NDIRECT + 1)..(NDIRECT + NINDIRECT)) :
     /\ Get(s, x[1]).indirect \notin {0, Bad}
     /\ Entry(s, Get(s, x[1]).indirect, x[2] - NDIRECT - 1) \in 1..(NBLOCKS - 1)}
Pointer(s, x) ==
  IF x[2] <= NDIRECT THEN Direct(s, x)
  ELSE Entry(s, Get(s, x[1]).indirect, x[2] - NDIRECT - 1)

OwnedOnce(s, X) ==
  /\ \A x, y \in X : x # y => Pointer(s, x) # Pointer(s, y)
  /\ \A x \in X : Pointer(s, x) > Bitmap /\ Pointer(s, x) \notin s.mem[Bitmap].free

\* No block belongs to two files, or to a file and to the free blocks,
\* whatever is created, extended, truncated and written (in the cache), until
\* the server panics or free_block sets a bit where no bitmap is.
BlocksOwnedOnce ==
  (phase = "up" /\ fs.ok) => OwnedOnce(fs, Directs(fs) \cup Indirects(fs))

\* What the comment of file_truncate_blocks promises, "Remove any blocks
\* currently used by file 'f'" (fs.c:420).  It ends badly once the indirect
\* block has two entries: the number it frees is made of both
\* (MCFileSystem_overlap.cfg).
TruncationEnds == [][set_size => fs'.ok]_blkVars

\* After a crash at any write of an operation the file system can be mounted
\* and what the struct Files on the disk point to is owned once and in use:
\* alloc_block flushes the bitmap before anybody points to the block, and
\* file_set_size flushes the file before a freed block can be used again.
CrashIsSafe ==
  phase = "crashed" =>
    /\ fs.ok \/ fs.disk[Super] = Smashed
    /\ fs.ok => OwnedOnce(fs, Directs(fs))
=============================================================================
