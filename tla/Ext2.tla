-------------------------------- MODULE Ext2 --------------------------------
(***************************************************************************)
(* Reading an ext2 volume: by the boot loader (src/boot/ext2.asm over      *)
(* disk.asm) and by the kernel (src/kernel/fs/ext2.c).                     *)
(*                                                                         *)
(* A volume v is a function from block numbers to contents: sequences of   *)
(* group descriptors (of which only the inode table matters), inodes,      *)
(* block numbers, directory entries by their offsets, or bytes.  The       *)
(* kernel never writes (the write operation is not installed, ext2.c:530). *)
(***************************************************************************)
EXTENDS Integers, Sequences

CONSTANTS
    DIRECT,     \* direct block pointers of an inode (12)
    PTRS,       \* block pointers in a block
    LIMIT,      \* indirect pointers the boot loader follows (256)
    BLOCK,      \* bytes in a block
    BGD,        \* bytes of a block group descriptor (32)
    WORD,       \* sector numbers the boot loader can pass to the BIOS (2^16)
    CYLINDERS,  \* cylinder numbers it can pass (2^8)
    NULL

ASSUME Ext2Assumption ==
    /\ {DIRECT, PTRS, LIMIT, BLOCK, BGD, WORD, CYLINDERS} \subseteq Nat \ {0}
    /\ LIMIT <= PTRS

VARIABLES
    file,   \* the open file: its inode and the block read last, or NULL
    held,   \* ext2_fs_info.held
    got     \* the last read: where, how much was asked for, what came

ext2Vars == <<file, held, got>>

At(seq, i) == seq[i + 1]

-----------------------------------------------------------------------------
(* The disk as the boot loader reads it.                                   *)

\* Where the BIOS finds cylinder, head and sector.
Bios(v, c, h, s) == (c * v.heads + h) * v.sectors + s - 1

\* The sector that is read for a sector number: by its lower half if the
\* BIOS takes linear addresses, else by the geometry (disk_lba_to_chs).
Sector(v, lba) ==
    IF v.lba THEN lba % WORD
    ELSE Bios(v, ((lba \div v.sectors) \div v.heads) % CYLINDERS,
                 (lba \div v.sectors) % v.heads, (lba % v.sectors) + 1)

\* A block, by its first sector (ext2_read_block).
BootRead(v, b) == v.disk[(Sector(v, b * v.spb + v.start) - v.start) \div v.spb]

\* The block of descriptors follows the superblock, which has a block of its
\* own if blocks are small.
FirstBgd(v) == IF v.small THEN 2 ELSE 1

BootInode(v, ino) ==
    LET group == (ino - 1) \div v.bgInodes
        index == (ino - 1) % v.bgInodes
        bgds == BLOCK \div BGD
        inodes == BLOCK \div v.inodeSize
        itab == At(BootRead(v, (group \div bgds) + FirstBgd(v)), group % bgds)
    IN At(BootRead(v, itab + (index \div inodes)), index % inodes)

\* The number of block i, NULL for "File too big to load!"
BootIndex(v, inode, i) ==
    IF i < DIRECT THEN At(inode.blk, i)
    ELSE IF i - DIRECT >= LIMIT THEN NULL
    ELSE At(BootRead(v, inode.sib), i - DIRECT)

\* The inode a directory has for a name, or NULL.
BootSearch(v, dir, name) ==
    LET entry(pos) == At(BootRead(v, BootIndex(v, dir, pos \div BLOCK)), pos % BLOCK)
        from[pos \in 0..dir.size + BLOCK] ==
            IF pos >= dir.size THEN NULL
            ELSE IF entry(pos).name = name THEN entry(pos).inode
            ELSE from[pos + entry(pos).size]
    IN from[0]

\* The blocks of /dir/name, or NULL if the loader stops (ext2_load_file).
BootLoad(v, dir, name) ==
    LET d == BootSearch(v, BootInode(v, 2), dir)
        f == IF d = NULL THEN NULL ELSE BootSearch(v, BootInode(v, d), name)
        inode == BootInode(v, f)
        n == (inode.size + BLOCK - 1) \div BLOCK
    IN IF f = NULL THEN NULL
       ELSE IF \E i \in 0..n-1 : BootIndex(v, inode, i) = NULL THEN NULL
       ELSE [i \in 1..n |-> BootRead(v, BootIndex(v, inode, i - 1))]

-----------------------------------------------------------------------------
(* The kernel.                                                             *)

\* The descriptors are read once, as one array (ext2_load_bgdt).
Bgdt(v) ==
    LET groups == (v.nblocks \div v.bgBlocks) + 1
    IN [g \in 0..groups-1 |->
          LET pos == g * BGD
          IN At(v.disk[FirstBgd(v) + (pos \div BLOCK)], (pos % BLOCK) \div BGD)]

KernelInode(v, ino) ==
    LET index == (ino - 1) % v.bgInodes
        cont == Bgdt(v)[(ino - 1) \div v.bgInodes] + ((index * v.inodeSize) \div BLOCK)
    IN At(v.disk[cont], index % (BLOCK \div v.inodeSize))

\* The number of block i, 0 where there is none (ext2_read_inode_block).
KernelIndex(v, inode, i) ==
    CASE i < DIRECT -> At(inode.blk, i)
      [] i >= DIRECT /\ i < DIRECT + PTRS /\ inode.sib # 0 -> At(v.disk[inode.sib], i - DIRECT)
      [] OTHER -> 0

\* The entries of a directory, up to a missing block (ext2_filldir).
KernelEntries(v, dir) ==
    LET entry(pos) == At(v.disk[KernelIndex(v, dir, pos \div BLOCK)], pos % BLOCK)
        from[pos \in 0..dir.size + BLOCK] ==
            IF pos >= dir.size \/ KernelIndex(v, dir, pos \div BLOCK) = 0 THEN {}
            ELSE {[name |-> entry(pos).name, inode |-> entry(pos).inode]}
                     \cup from[pos + entry(pos).size]
    IN from[0]

\* The inode numbers that /dir/name resolves to.
KernelFind(v, dir, name) ==
    {f.inode : f \in UNION {KernelEntries(v, KernelInode(v, d.inode)) :
                              d \in {e \in KernelEntries(v, KernelInode(v, 2)) : e.name = dir}}
               \cap [name : {name}, inode : 1..v.ninodes]}

Ext2Init == file = NULL /\ held = FALSE /\ got = NULL

\* ext2_open, with the node found by way of ext2_filldir; a task first
\* acquires the node, which ext2_isheld refuses while the volume is held.
Open(v, dir, name) ==
    /\ ~held /\ file = NULL
    /\ \E ino \in KernelFind(v, dir, name) :
          file' = [dir |-> dir, name |-> name, inode |-> KernelInode(v, ino),
                   bblk |-> 0, bidx |-> 0]
    /\ UNCHANGED <<held, got>>

\* Seeded fault: the index of the block is not kept.
ReloadFault(v, f, pos) ==
    IF f.bblk = 0 \/ pos \div BLOCK # f.bidx
    THEN [f EXCEPT !.bblk = KernelIndex(v, f.inode, pos \div BLOCK)]
    ELSE f

\* One byte of a read: the block is read when it is not the one read last.
\* At the end of the file and where a block is missing the read returns at
\* once, and leaves the volume held.
Reload(v, f, pos) ==
    IF f.bblk = 0 \/ pos \div BLOCK # f.bidx
    THEN [f EXCEPT !.bidx = pos \div BLOCK, !.bblk = KernelIndex(v, f.inode, pos \div BLOCK)]
    ELSE f

ReadByte(v, r, pos) ==
    IF r.stop \/ pos >= r.file.inode.size THEN [r EXCEPT !.stop = TRUE]
    ELSE LET f == Reload(v, r.file, pos)
         IN IF f.bblk = 0 THEN [r EXCEPT !.file = f, !.stop = TRUE]
            ELSE [r EXCEPT !.file = f, !.data = Append(@, At(v.disk[f.bblk], pos % BLOCK))]

\* ext2_read of n bytes.
Read(v, offset, n) ==
    /\ ~held /\ file # NULL
    /\ LET after[k \in 0..n] ==
               IF k = 0 THEN [file |-> file, data |-> <<>>, stop |-> FALSE]
               ELSE ReadByte(v, after[k - 1], offset + k - 1)
       IN /\ file' = after[n].file
          /\ held' = after[n].stop
          /\ got' = [dir |-> file.dir, name |-> file.name,
                     offset |-> offset, n |-> n, data |-> after[n].data]

\* ext2_close.
Close(v) ==
    /\ ~held /\ file # NULL
    /\ file' = NULL
    /\ UNCHANGED <<held, got>>

-----------------------------------------------------------------------------
(* Properties.  v.files has the bytes of every file, NULL for the bytes of  *)
(* blocks that were never written.                                         *)

\* The bytes of a file from an offset on, at most n, up to a hole.
Bytes(v, path, offset, n) ==
    LET all == v.files[path]
        upto == {k \in 0..n : \A i \in offset+1..offset+k :
                                  i \in DOMAIN all /\ all[i] # NULL}
    IN SubSeq(all, offset + 1, offset + (CHOOSE k \in upto : \A j \in upto : j <= k))

\* What the boot loader loads is the whole file, for every file without
\* holes that is small enough for it, wherever its inode and its blocks lie
\* and however the disk is addressed (boot/ext2.asm, boot/disk.asm).
BootReads(v) ==
    \A path \in DOMAIN v.files :
        LET all == v.files[path]
            loaded == BootLoad(v, path[1], path[2])
        IN (/\ \A i \in DOMAIN all : all[i] # NULL
            /\ Len(all) <= (DIRECT + LIMIT) * BLOCK)
           => /\ loaded # NULL
              /\ Len(loaded) * BLOCK < Len(all) + BLOCK
              /\ \A i \in DOMAIN all :
                    At(loaded[(i - 1) \div BLOCK + 1], (i - 1) % BLOCK) = all[i]

\* What a read returns are the bytes of the file at its offset, whatever was
\* read before and whichever block the open file still has (ext2_read).
KernelReads(v) ==
    got # NULL => got.data = Bytes(v, <<got.dir, got.name>>, got.offset, got.n)
=============================================================================
