------------------------------- MODULE TinyFS -------------------------------
(***************************************************************************)
(* The TinyFS file system of some-tiny-os: the calls of kernel/fs/vfs.c    *)
(* over the on-disk primitives of kernel/fs/tinyfs.c.                      *)
(*                                                                         *)
(* A call runs as a sequence of steps, one per write to the disk, because  *)
(* the power can fail between any two writes and nothing (no journal, no   *)
(* fsck) repairs the disk at the next boot.  What a call does before its   *)
(* first write, or between two writes, only reads, and is part of the      *)
(* step of the next write.                                                 *)
(*                                                                         *)
(* A path is a pair (p, n): the inode p its directory part resolves to and *)
(* its last component n.  The requests are the ones of a client that       *)
(* respects RmdirAllowed and RenameAllowed below; the code checks neither. *)
(***************************************************************************)
EXTENDS Integers, Sequences

CONSTANTS NInodes,     \* inodes of the inode table (TINYFS_INODE_COUNT)
          NBlocks,     \* blocks of the disk; block 0 stands for the metadata
          NSlots,      \* entries of a directory block (TINYFS_DIRENTS_PER_BLOCK)
          Names,       \* file name components other than "." and ".."
          Clip,        \* Clip[n]: n as the 28 bytes of a dirent hold it
          Chunks,      \* contents of one data block
          NoChunk,     \* a block that holds no file data
          MaxSize,     \* bound on the size of a file, in blocks
          BigFile,     \* whether the image's file has an indirect block
          MaxCrashes   \* bound on the number of power failures

Dot    == "."
DotDot == ".."
NoName == ""

Inodes == 0 .. (NInodes - 1)
Blocks == 0 .. (NBlocks - 1)
Slots  == 1 .. NSlots
Comps  == Names \cup {Dot, DotDot}

ASSUME SizeAssumption ==
  /\ NInodes \in Nat /\ NInodes >= 2
  /\ NBlocks \in Nat /\ NBlocks >= (IF BigFile THEN 5 ELSE 3)
  /\ NSlots \in Nat /\ NSlots >= 3
  /\ MaxSize \in Nat /\ MaxSize >= (IF BigFile THEN 2 ELSE 1)
  /\ MaxCrashes \in Nat
  /\ BigFile \in BOOLEAN

ASSUME NameAssumption ==
  /\ Names \cap {Dot, DotDot, NoName} = {}
  /\ Clip \in [Names -> Names]

ASSUME ChunkAssumption == NoChunk \notin Chunks

Dirents == [ino : Inodes, name : Comps \cup {NoName}]
NoEntry == [ino |-> 0, name |-> NoName]

(* A block holds directory entries (data = NoChunk) or file data.          *)
BlockContents == [ents : [Slots -> Dirents], data : Chunks \cup {NoChunk}]
ZeroBlock     == [ents |-> [s \in Slots |-> NoEntry], data |-> NoChunk]

(* An inode: direct = 0 means no block; indirect lists the indirect block  *)
(* and then the data blocks it points to, <<>> when there is none; size is *)
(* in blocks, rounded up, and left at 0 for directories: no code reads it. *)
InodeRecords == [type : {"none", "file", "dir"}, direct : Blocks,
                 indirect : Seq(Blocks), size : 0 .. MaxSize]
ZeroInode    == [type |-> "none", direct |-> 0, indirect |-> <<>>, size |-> 0]

Ops == {"mkdir", "rmdir", "create", "delete", "rename", "copy", "write"}

(* The locals of the call that is running.                                 *)
Calls == [op : Ops \cup {"none"},
          par : Inodes, comp : Comps,      \* the path
          par2 : Inodes, comp2 : Comps,    \* rename: the new path
          tgt : Inodes,                    \* the inode removed or renamed
          inum : Inodes, bnum : Blocks,    \* the inode and block allocated
          buf : Chunks \cup {NoChunk}, size : 0 .. MaxSize,
          sblk : Blocks]                   \* copy: src_inode.direct_block

NoCall == [op |-> "none", par |-> 0, comp |-> Dot, par2 |-> 0, comp2 |-> Dot,
           tgt |-> 0, inum |-> 0, bnum |-> 0, buf |-> NoChunk, size |-> 0,
           sblk |-> 0]

VARIABLES ibm,      \* inode bitmap: the set of inodes marked used
          bbm,      \* block bitmap: the set of blocks marked used
          itab,     \* the inode table
          blk,      \* the contents of the blocks
          cwd,      \* cwd_inum
          pc,       \* the next step of the running call, or "idle"
          call,     \* its locals
          ret,      \* its result
          old,      \* history: the bitmaps and blocks when it began
          crashes,  \* history: the number of power failures
          torn      \* history: whether one of them cut a rename in two

disk == <<ibm, bbm, itab, blk>>
vars == <<ibm, bbm, itab, blk, cwd, pc, call, ret, old, crashes, torn>>

Labels == {"idle", "create", "clear", "balloc", "winode", "wdir", "addent",
           "rment", "bfree", "ifree", "undoblk", "undoino", "fill", "wdata",
           "wfinal", "ret"}

TypeOK ==
  /\ ibm \in SUBSET Inodes
  /\ bbm \in SUBSET Blocks
  /\ itab \in [Inodes -> InodeRecords]
  /\ blk \in [Blocks -> BlockContents]
  /\ cwd \in Inodes
  /\ pc \in Labels
  /\ call \in Calls
  /\ ret \in {"none", "ok", "fail"}
  /\ crashes \in 0 .. MaxCrashes
  /\ torn \in BOOLEAN

-----------------------------------------------------------------------------
(* Lookups.                                                                *)

IsDir(i)  == itab[i].type = "dir"
IsFile(i) == itab[i].type = "file"
Ents(d)   == blk[itab[d].direct].ents

(* s is the first entry of f that has name n.                              *)
FirstWith(f, n, s) == /\ f[s].name = n
                      /\ \A t \in Slots : t < s => f[t].name # n

(* find_dirent: the entry of directory d that a search for n finds, and    *)
(* whether it finds one.                                                   *)
Matches(d, n, s) == IsDir(d) /\ FirstWith(Ents(d), n, s)
Found(d, n)      == IsDir(d) /\ \E s \in Slots : Ents(d)[s].name = n

(* resolve_path on (p, n): "." is p itself, whatever p is, and ".." of the *)
(* root is the root; every other component is looked up.                   *)
Resolves(p, n, i) ==
  IF n = Dot \/ (n = DotDot /\ p = 0)
    THEN i = p
    ELSE \E s \in Slots : Matches(p, n, s) /\ Ents(p)[s].ino = i

(* rmdir's scan: no entry of d but "." and "..".                           *)
EmptyDirShortScan(d) ==                     \* a mutant: the scan stops early
  \A s \in Slots : s < 3 => Ents(d)[s].name \in {NoName, Dot, DotDot}
EmptyDir(d) == \A s \in Slots : Ents(d)[s].name \in {NoName, Dot, DotDot}

(* The name that tinyfs_add_dirent writes for component n.                 *)
Stored(n) == IF n \in Names THEN Clip[n] ELSE n

LowestFreeInode(i) == /\ i \in Inodes \ ({0} \cup ibm)
                      /\ \A j \in Inodes : 0 < j /\ j < i => j \in ibm
LowestFreeBlock(b) == /\ b \in Blocks \ bbm
                      /\ \A c \in Blocks : c < b => c \in bbm

(* The bitmaps as the two allocators write them back.                      *)
UnmarkedInode(i) == ibm                     \* a mutant: the write is lost
MarkedInode(i)   == ibm \cup {i}
UnmarkedBlock(b) == bbm                     \* a mutant: the write is lost
MarkedBlock(b)   == bbm \cup {b}

(* What a path can reach: every entry that is not "." or "..".             *)
LinksIn(B) == {l \in Blocks \X Slots : B[l[1]].ents[l[2]].name \in Names}
Links      == LinksIn(blk)
LinkIno(l) == blk[l[1]].ents[l[2]].ino
Linked     == {LinkIno(l) : l \in Links}
Live       == Linked \cup {0}

(* fs_cat: the chunks of file i, as far as its size and its blocks go.     *)
FsCat(i) ==
  LET n == itab[i]
      tail == IF n.indirect = <<>> THEN <<>> ELSE Tail(n.indirect)
      len  == IF Len(tail) < n.size - 1 THEN Len(tail) ELSE n.size - 1
  IN  IF n.size = 0
        THEN <<>>
        ELSE (IF n.direct > 0 THEN <<blk[n.direct].data>> ELSE <<>>)
               \o [k \in 1 .. len |-> blk[tail[k]].data]

-----------------------------------------------------------------------------
(* The image mkfs.tinyfs and tinyfs-add make: the root directory with one  *)
(* file in it.                                                             *)

RootBlock(n) ==
  [ZeroBlock EXCEPT !.ents = [s \in Slots |->
     CASE s = 1 -> [ino |-> 0, name |-> Dot]
       [] s = 2 -> [ino |-> 0, name |-> DotDot]
       [] s = 3 -> [ino |-> 1, name |-> n]
       [] OTHER -> NoEntry]]

DataBlock(c) == [ZeroBlock EXCEPT !.data = c]

(* The inode of a file of one block, or of two: tinyfs-add takes the data  *)
(* blocks first, and then the indirect block.                              *)
AddedFile == [type |-> "file", direct |-> 2,
              indirect |-> IF BigFile THEN <<4, 3>> ELSE <<>>,
              size |-> IF BigFile THEN 2 ELSE 1]

Init ==
  /\ ibm = {0, 1}
  /\ bbm = IF BigFile THEN 0 .. 4 ELSE 0 .. 2
  /\ itab = [i \in Inodes |->
       CASE i = 0 -> [ZeroInode EXCEPT !.type = "dir", !.direct = 1]
         [] i = 1 -> AddedFile
         [] OTHER -> ZeroInode]
  /\ \E n \in Names, c \in Chunks :
       /\ Clip[n] = n
       /\ blk = [b \in Blocks |->
            CASE b = 1 -> RootBlock(n)
              [] b = 2 \/ (BigFile /\ b = 3) -> DataBlock(c)
              [] OTHER -> ZeroBlock]
  /\ cwd = 0 /\ pc = "idle" /\ call = NoCall /\ ret = "none"
  /\ old = [ibm |-> {}, bbm |-> {}, blk |-> <<>>]
  /\ crashes = 0 /\ torn = FALSE

-----------------------------------------------------------------------------
(* How a call begins and ends.                                             *)

Begin(c, label, r) ==
  /\ pc = "idle"
  /\ call' = c /\ pc' = label /\ ret' = r
  /\ old' = [ibm |-> ibm, bbm |-> bbm, blk |-> blk]
  /\ UNCHANGED <<disk, cwd, crashes, torn>>

Enter(c, label) == Begin(c, label, "none")
Reject(o)       == Begin([NoCall EXCEPT !.op = o], "ret", "fail")

Goto(label) == pc' = label /\ UNCHANGED ret
Done(r)     == pc' = "ret" /\ ret' = r

Path(o, p, n) == [NoCall EXCEPT !.op = o, !.par = p, !.comp = n]

-----------------------------------------------------------------------------
(* The calls, up to their first write.                                     *)

FsMkdir(p, n)  == Enter(Path("mkdir", p, n), "create")
FsCreate(p, n) == Enter(Path("create", p, n), "create")

(* fs_rmdir: only an empty directory is removed.                           *)
FsRmdir(p, n) ==
  LET c == Path("rmdir", p, n)
      ok(i) == Resolves(p, n, i) /\ IsDir(i) /\ EmptyDir(i)
  IN  \/ \E i \in Inodes : ok(i) /\ Enter([c EXCEPT !.tgt = i], "rment")
      \/ (~\E i \in Inodes : ok(i)) /\ Reject("rmdir")

(* fs_delete: only a file is removed.                                      *)
FsDelete(p, n) ==
  LET c == Path("delete", p, n)
      ok(i) == Resolves(p, n, i) /\ IsFile(i)
  IN  \/ \E i \in Inodes : ok(i) /\ Enter([c EXCEPT !.tgt = i], "rment")
      \/ (~\E i \in Inodes : ok(i)) /\ Reject("delete")

(* fs_rename: the new name must be absent; nothing else is asked of it.    *)
RenameFrom(label, p, n, p2, n2) ==
  LET c == [Path("rename", p, n) EXCEPT !.par2 = p2, !.comp2 = n2]
      ok(i) == Resolves(p, n, i) /\ ~Found(p2, n2)
  IN  \/ \E i \in Inodes : ok(i) /\ Enter([c EXCEPT !.tgt = i], label)
      \/ (~\E i \in Inodes : ok(i)) /\ Reject("rename")

FsRenameRemoveFirst(p, n, p2, n2) ==        \* a mutant: the order swapped
  RenameFrom("rment", p, n, p2, n2)
FsRename(p, n, p2, n2) == RenameFrom("addent", p, n, p2, n2)

(* fs_copy reads the source's inode before it creates the destination.     *)
FsCopy(p, n, p2, n2) ==
  LET c == Path("copy", p2, n2)
      ok(i) == Resolves(p, n, i) /\ IsFile(i)
  IN  \/ \E i \in Inodes :
           /\ ok(i)
           /\ Enter([c EXCEPT !.size = itab[i].size, !.sblk = itab[i].direct],
                    "create")
      \/ (~\E i \in Inodes : ok(i)) /\ Reject("copy")

(* fs_write_file first deletes the file, and goes on whether or not that   *)
(* worked.                                                                 *)
FsWriteFileNoDelete(p, n, data, len) ==     \* a mutant: the old file stays
  Enter([Path("write", p, n) EXCEPT !.buf = data, !.size = len], "create")
FsWriteFile(p, n, data, len) ==
  LET c == [Path("write", p, n) EXCEPT
              !.buf = IF len = 0 THEN NoChunk ELSE data, !.size = len]
      ok(i) == Resolves(p, n, i) /\ IsFile(i)
  IN  \/ \E i \in Inodes : ok(i) /\ Enter([c EXCEPT !.tgt = i], "rment")
      \/ (~\E i \in Inodes : ok(i)) /\ Enter(c, "create")

(* fs_cd writes nothing to the disk.                                       *)
FsCd(i) ==
  /\ pc = "idle" /\ IsDir(i)
  /\ cwd' = i
  /\ UNCHANGED <<disk, pc, call, ret, old, crashes, torn>>

-----------------------------------------------------------------------------
(* Making a node: fs_create and fs_mkdir, and fs_create within fs_copy and *)
(* fs_write_file.                                                          *)

MayCreate(p, n) == IsDir(p) /\ ~Found(p, n)

(* Up to the inode bitmap write of tinyfs_inode_alloc.                     *)
CreateNode ==
  /\ pc = "create"
  /\ \/ /\ MayCreate(call.par, call.comp)
        /\ \E i \in Inodes : /\ LowestFreeInode(i)
                             /\ ibm' = MarkedInode(i)
                             /\ call' = [call EXCEPT !.inum = i]
        /\ Goto("clear")
     \/ /\ MayCreate(call.par, call.comp)
             => ~\E i \in Inodes : LowestFreeInode(i)
        /\ Done("fail") /\ UNCHANGED <<ibm, call>>
  /\ UNCHANGED <<bbm, itab, blk, cwd, old, crashes, torn>>

(* The cleared inode tinyfs_inode_alloc writes.                            *)
InodeClear ==
  /\ pc = "clear"
  /\ itab' = [itab EXCEPT ![call.inum] = ZeroInode]
  /\ Goto(IF call.op = "mkdir" THEN "balloc" ELSE "winode")
  /\ UNCHANGED <<ibm, bbm, blk, cwd, call, old, crashes, torn>>

(* fs_mkdir's tinyfs_block_alloc; without a block the inode is given back. *)
MkdirBlock ==
  /\ pc = "balloc"
  /\ \/ /\ \E b \in Blocks : /\ LowestFreeBlock(b)
                             /\ bbm' = MarkedBlock(b)
                             /\ call' = [call EXCEPT !.bnum = b]
        /\ Goto("winode")
     \/ /\ ~\E b \in Blocks : LowestFreeBlock(b)
        /\ Goto("undoino") /\ UNCHANGED <<bbm, call>>
  /\ UNCHANGED <<ibm, itab, blk, cwd, old, crashes, torn>>

WriteInode ==
  /\ pc = "winode"
  /\ itab' = [itab EXCEPT ![call.inum] =
       IF call.op = "mkdir"
         THEN [ZeroInode EXCEPT !.type = "dir", !.direct = call.bnum]
         ELSE [ZeroInode EXCEPT !.type = "file"]]
  /\ Goto(IF call.op = "mkdir" THEN "wdir" ELSE "addent")
  /\ UNCHANGED <<ibm, bbm, blk, cwd, call, old, crashes, torn>>

(* fs_mkdir fills the new directory's block with "." and "..".             *)
NewDirBlockSwapped(i, p) ==                 \* a mutant: the inodes swapped
  [ZeroBlock EXCEPT !.ents[1] = [ino |-> p, name |-> Dot],
                    !.ents[2] = [ino |-> i, name |-> DotDot]]
NewDirBlock(i, p) ==
  [ZeroBlock EXCEPT !.ents[1] = [ino |-> i, name |-> Dot],
                    !.ents[2] = [ino |-> p, name |-> DotDot]]

WriteDirBlock ==
  /\ pc = "wdir"
  /\ blk' = [blk EXCEPT ![call.bnum] = NewDirBlock(call.inum, call.par)]
  /\ Goto("addent")
  /\ UNCHANGED <<ibm, bbm, itab, cwd, call, old, crashes, torn>>

-----------------------------------------------------------------------------
(* Directory entries.                                                      *)

AddFailedNoBlockFree ==                     \* a mutant: mkdir keeps the block
  IF call.op = "rename" THEN Done("fail") ELSE Goto("undoino")
AddFailed == CASE call.op = "rename" -> Done("fail")
               [] call.op = "mkdir" -> Goto("undoblk")
               [] OTHER -> Goto("undoino")

(* tinyfs_add_dirent, with what its callers do when it fails and when it   *)
(* succeeds.  The directory's block exists: DirsSound.                     *)
AddDirent ==
  /\ pc = "addent"
  /\ LET ren == call.op = "rename"
         d   == IF ren THEN call.par2 ELSE call.par
         e   == [ino  |-> IF ren THEN call.tgt ELSE call.inum,
                 name |-> Stored(IF ren THEN call.comp2 ELSE call.comp)]
     IN  \/ /\ \E s \in Slots :
                 /\ Matches(d, NoName, s)
                 /\ blk' = [blk EXCEPT ![itab[d].direct].ents[s] = e]
            /\ CASE ren -> Goto("rment")
                 [] call.op \in {"copy", "write"} -> Goto("fill")
                 [] OTHER -> Done("ok")
         \/ /\ ~Found(d, NoName)
            /\ AddFailed /\ UNCHANGED blk
  /\ UNCHANGED <<ibm, bbm, itab, cwd, call, old, crashes, torn>>

RemovedNoBlockFree ==                       \* a mutant: the block is kept
  IF call.op = "rename" THEN Done("ok") ELSE Goto("ifree")
Removed == CASE call.op = "rename" -> Done("ok")
             [] call.op # "rename" /\ itab[call.tgt].direct # 0 -> Goto("bfree")
             [] OTHER -> Goto("ifree")

(* The block of directory par after entry s is removed.                    *)
RenameKeepsOld(s) ==                        \* a mutant: rename only links
  IF call.op = "rename" THEN Ents(call.par)
                        ELSE [Ents(call.par) EXCEPT ![s] = NoEntry]
WithoutEntry(s) == [Ents(call.par) EXCEPT ![s] = NoEntry]

(* tinyfs_remove_dirent for rmdir, delete, the delete of write_file (whose *)
(* failure is ignored) and the second half of rename.                      *)
RemoveDirent ==
  /\ pc = "rment"
  /\ \/ /\ \E s \in Slots :
             /\ Matches(call.par, call.comp, s)
             /\ blk' = [blk EXCEPT
                          ![itab[call.par].direct].ents = WithoutEntry(s)]
        /\ Removed
     \/ /\ ~Found(call.par, call.comp)
        /\ IF call.op = "write" THEN Goto("create") ELSE Done("fail")
        /\ UNCHANGED blk
  /\ UNCHANGED <<ibm, bbm, itab, cwd, call, old, crashes, torn>>

(* rmdir and delete give back the direct block, never the indirect ones.   *)
FreeBlock ==
  /\ pc = "bfree"
  /\ bbm' = bbm \ {itab[call.tgt].direct}
  /\ Goto("ifree")
  /\ UNCHANGED <<ibm, itab, blk, cwd, call, old, crashes, torn>>

FreeInode ==
  /\ pc = "ifree"
  /\ ibm' = ibm \ {call.tgt}
  /\ IF call.op = "write" THEN Goto("create") ELSE Done("ok")
  /\ UNCHANGED <<bbm, itab, blk, cwd, call, old, crashes, torn>>

(* The error paths of mkdir and create.                                    *)
UndoBlock ==
  /\ pc = "undoblk"
  /\ bbm' = bbm \ {call.bnum}
  /\ Goto("undoino")
  /\ UNCHANGED <<ibm, itab, blk, cwd, call, old, crashes, torn>>

UndoInode ==
  /\ pc = "undoino"
  /\ ibm' = ibm \ {call.inum}
  /\ Done("fail")
  /\ UNCHANGED <<bbm, itab, blk, cwd, call, old, crashes, torn>>

-----------------------------------------------------------------------------
(* The data of write_file and copy.                                        *)

(* The new file is looked up again; an empty one is complete; otherwise a  *)
(* block is allocated.  No failure here removes the new file.              *)
FillBlock ==
  /\ pc = "fill"
  /\ \/ /\ ~Found(call.par, call.comp)
        /\ Done("fail") /\ UNCHANGED <<bbm, call>>
     \/ /\ Found(call.par, call.comp) /\ call.size = 0
        /\ Done("ok") /\ UNCHANGED <<bbm, call>>
     \/ /\ call.size # 0
        /\ \E i \in Inodes, b \in Blocks :
             /\ Resolves(call.par, call.comp, i)
             /\ LowestFreeBlock(b)
             /\ bbm' = MarkedBlock(b)
             /\ call' = [call EXCEPT !.inum = i, !.bnum = b,
                  !.buf = IF call.op = "copy" THEN blk[call.sblk].data ELSE @]
        /\ Goto("wdata")
     \/ /\ Found(call.par, call.comp) /\ call.size # 0
        /\ ~\E b \in Blocks : LowestFreeBlock(b)
        /\ Done("fail") /\ UNCHANGED <<bbm, call>>
  /\ UNCHANGED <<ibm, itab, blk, cwd, old, crashes, torn>>

WriteData ==
  /\ pc = "wdata"
  /\ blk' = [blk EXCEPT ![call.bnum] = DataBlock(call.buf)]
  /\ Goto("wfinal")
  /\ UNCHANGED <<ibm, bbm, itab, cwd, call, old, crashes, torn>>

WriteFinal ==
  /\ pc = "wfinal"
  /\ itab' = [itab EXCEPT ![call.inum].direct = call.bnum,
                          ![call.inum].size = call.size]
  /\ Done("ok")
  /\ UNCHANGED <<ibm, bbm, blk, cwd, call, old, crashes, torn>>

Return ==
  /\ pc = "ret"
  /\ pc' = "idle" /\ call' = NoCall /\ ret' = "none"
  /\ old' = [ibm |-> {}, bbm |-> {}, blk |-> <<>>]
  /\ UNCHANGED <<disk, cwd, crashes, torn>>

-----------------------------------------------------------------------------
(* The power fails; the machine boots and fs_init mounts the disk as it is.*)
Crash ==
  /\ crashes < MaxCrashes
  /\ crashes' = crashes + 1
  /\ torn' = (torn \/ (pc = "rment" /\ call.op = "rename"))
  /\ cwd' = 0 /\ pc' = "idle" /\ call' = NoCall /\ ret' = "none"
  /\ old' = [ibm |-> {}, bbm |-> {}, blk |-> <<>>]
  /\ UNCHANGED disk

(* The requests the code does not defend itself against, left to its       *)
(* callers: removing or renaming by a last component "." or "..", removing *)
(* the current directory, moving a directory into another one.             *)
RmdirAllowed(p, n) == /\ n \in Names
                      /\ ~Resolves(p, n, cwd)
RenameAllowed(p, n, p2) ==
  /\ n \in Names
  /\ p2 = p \/ \A i \in Inodes : Resolves(p, n, i) => ~IsDir(i)

Request ==
  /\ pc = "idle"
  /\ \/ \E p \in Live, n \in Comps :
          \/ FsMkdir(p, n)
          \/ FsCreate(p, n)
          \/ FsDelete(p, n)
          \/ RmdirAllowed(p, n) /\ FsRmdir(p, n)
          \/ \E c \in Chunks, len \in 0 .. MaxSize : FsWriteFile(p, n, c, len)
          \/ \E p2 \in Live, n2 \in Comps :
               \/ RenameAllowed(p, n, p2) /\ FsRename(p, n, p2, n2)
               \/ FsCopy(p, n, p2, n2)
     \/ \E i \in Live : FsCd(i)

Step == \/ CreateNode \/ InodeClear \/ MkdirBlock \/ WriteInode
        \/ WriteDirBlock \/ AddDirent \/ RemoveDirent \/ FreeBlock
        \/ FreeInode \/ UndoBlock \/ UndoInode \/ FillBlock \/ WriteData
        \/ WriteFinal \/ Return

Next == Request \/ Step \/ Crash

Spec == Init /\ [][Next]_vars

-----------------------------------------------------------------------------
(* What the calls keep true of the disk, at every step and after every     *)
(* power failure, until one cuts a rename in two.                          *)

Owned(i) == ({itab[i].direct} \ {0})
              \cup {itab[i].indirect[k] : k \in DOMAIN itab[i].indirect}

(* Every directory entry names an inode that is marked used, is a file or  *)
(* a directory, and whose blocks are marked used: what tinyfs_inode_alloc  *)
(* and tinyfs_block_alloc hand out next is never something in use.         *)
LinksSound ==
  torn \/ \A l \in Links : LET i == LinkIno(l) IN
    /\ i \in ibm \ {0}
    /\ itab[i].type # "none"
    /\ Owned(i) \subseteq bbm

(* No inode has two names, except the one a running rename moves: removing *)
(* a name may free the inode, because no other name needs it.              *)
SingleLink ==
  torn \/ \A k, l \in Links :
    LinkIno(k) = LinkIno(l) =>
      k = l \/ (pc = "rment" /\ call.op = "rename" /\ call.tgt = LinkIno(l))

(* No block belongs to two files or directories.                           *)
NoSharedBlocks ==
  torn \/ \A i, j \in Live : i # j => Owned(i) \cap Owned(j) = {}

(* A directory has a block of entries, which begins with "." and "..", and *)
(* ".." leads to the directory that holds its name.                        *)
DirsSound ==
  torn \/
    /\ IsDir(0) /\ Ents(0)[2].ino = 0
    /\ \A d \in Live : IsDir(d) =>
         /\ itab[d].direct # 0
         /\ blk[itab[d].direct].data = NoChunk
         /\ Ents(d)[1] = [ino |-> d, name |-> Dot]
         /\ Ents(d)[2].name = DotDot
    /\ \A l \in Links : IsDir(LinkIno(l)) =>
         LET p == Ents(LinkIno(l))[2].ino
         IN  p \in Live /\ IsDir(p) /\ itab[p].direct = l[1]

(* Entries are only in the blocks of directories that still have a name:   *)
(* no rmdir cuts off a directory with something in it, and a block handed  *)
(* out again holds no entry.                                               *)
EntriesInDirs ==
  torn \/ \A l \in Links : \E d \in Live : IsDir(d) /\ itab[d].direct = l[1]

(* The current directory stays a directory with a name.                    *)
CwdLive == torn \/ (cwd \in Live /\ IsDir(cwd))

(* A mkdir, rmdir, create, delete or rename that fails leaves the bitmaps  *)
(* and the names as they were: its error paths give back all it had taken. *)
(* Not so write_file and copy, see WriteOutcome.                           *)
FailureIsClean ==
  (/\ pc = "ret" /\ ret = "fail" /\ ~torn
   /\ call.op \in {"mkdir", "rmdir", "create", "delete", "rename"})
    => /\ ibm = old.ibm /\ bbm = old.bbm
       /\ Links = LinksIn(old.blk)
       /\ \A l \in Links : LinkIno(l) = old.blk[l[1]].ents[l[2]].ino

(* As long as the power does not fail, what is marked used is exactly what *)
(* has a name, apart from the blocks of a deleted file that its indirect   *)
(* block listed, which fs_delete does not give back.                       *)
NoLeak ==
  crashes = 0 /\ pc = "idle" =>
    /\ ibm = Live
    /\ bbm = {0} \cup (UNION {Owned(i) : i \in Live})
                \cup (IF BigFile THEN {3, 4} ELSE {})

(* fs_write_file and fs_copy that succeed leave a file with the first      *)
(* block of the data, or of the source; a fs_write_file that fails leaves  *)
(* an empty file or none, never the old contents.                          *)
WriteOutcome ==
  ~torn /\ pc = "ret" /\ call.op \in {"write", "copy"} /\ call.comp \in Names =>
    IF ret = "ok"
      THEN /\ \E i \in Inodes :
                /\ Resolves(call.par, call.comp, i)
                /\ FsCat(i) = IF call.size = 0 THEN <<>> ELSE <<call.buf>>
           /\ call.op = "copy" /\ call.size # 0
                => call.buf = blk[call.sblk].data
      ELSE call.op = "write" => \A i \in Inodes :
             Resolves(call.par, call.comp, i) /\ IsFile(i) => FsCat(i) = <<>>

(* The nodes that a path from the root reaches.                            *)
Entries(d) == {LinkIno(l) : l \in {k \in Links : k[1] = itab[d].direct}}
Reachable ==
  LET R[k \in 0 .. NInodes] ==
        IF k = 0 THEN {0}
        ELSE R[k-1] \cup UNION {Entries(d) : d \in {e \in R[k-1] : IsDir(e)}}
  IN  R[NInodes]

(* For callers that keep to RmdirAllowed and RenameAllowed, the names form *)
(* one tree: every file and directory that has a name can be reached from  *)
(* the root, over all allowed calls and after a power failure at any write *)
(* (but one that cuts a rename in two); and no directory holds the same    *)
(* name twice, as every tinyfs_add_dirent comes after a find_dirent that   *)
(* fails.  Outside these bounds the code does not keep the tree: fs_rename *)
(* (vfs.c:402) moves a directory below itself, fs_rmdir (vfs.c:273)        *)
(* removes the current one, and the shell passes on what was typed         *)
(* (shell.c:561, shell.c:889).                                             *)
NamesFormTree ==
  torn \/ /\ Linked \subseteq Reachable
          /\ \A k, l \in Links :
               k[1] = l[1] /\ blk[k[1]].ents[k[2]].name = blk[l[1]].ents[l[2]].name
                 => k = l

(* No step, a power failure included, changes the contents of a file other *)
(* than the one the running call is filling.                               *)
FilesUntouched ==
  [][\A i \in Linked :
       ~torn /\ IsFile(i) /\ i \in Linked' /\ i # call.inum
         => FsCat(i)' = FsCat(i)]_vars

(* A file or directory loses its last name only in the call that removes   *)
(* it: rename, in which it has two for a moment, never leaves it with none.*)
NothingLost ==
  [][\A i \in Linked : ~torn /\ i \notin Linked' =>
       pc = "rment" /\ call.op \in {"rmdir", "delete", "write"}]_vars

=============================================================================
