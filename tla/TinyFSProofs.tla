----------------------------- MODULE TinyFSProofs -----------------------------
(***************************************************************************)
(* Proofs about TinyFS for every size of the disk, every set of names and  *)
(* every number of power failures: the inductive invariant of TinyFSInd,   *)
(* and from it what the calls promise, what they leave alone, what a call  *)
(* that fails leaves behind, that nothing is marked used for nothing, and  *)
(* that the names form a tree.                                             *)
(***************************************************************************)
EXTENDS TinyFSInd, WellFoundedInduction, TLAPS

-----------------------------------------------------------------------------
(* Types of the constant records.                                          *)

LEMMA Constants ==
  /\ 0 \in Inodes /\ 1 \in Inodes
  /\ 0 \in Blocks /\ 1 \in Blocks /\ 2 \in Blocks
  /\ BigFile => 3 \in Blocks /\ 4 \in Blocks
  /\ 1 \in Slots /\ 2 \in Slots /\ 3 \in Slots
  /\ 0 \in 0 .. MaxSize /\ 1 \in 0 .. MaxSize
  /\ BigFile => 2 \in 0 .. MaxSize
BY SizeAssumption DEF Inodes, Blocks, Slots

LEMMA ZeroTypes ==
  /\ ZeroInode \in InodeRecords
  /\ NoEntry \in Dirents
  /\ ZeroBlock \in BlockContents
  /\ NoCall \in Calls
<1>1. ZeroInode \in InodeRecords
  BY Constants DEF ZeroInode, InodeRecords
<1>2. NoEntry \in Dirents
  BY Constants DEF NoEntry, Dirents
<1>3. ZeroBlock \in BlockContents
  BY <1>2 DEF ZeroBlock, BlockContents
<1>4. NoCall \in Calls
  BY Constants DEF NoCall, Calls, Comps
<1>. QED  BY <1>1, <1>2, <1>3, <1>4

LEMMA BlockTypes ==
  /\ \A i, p \in Inodes : NewDirBlock(i, p) \in BlockContents
  /\ \A c \in Chunks \cup {NoChunk} : DataBlock(c) \in BlockContents
<1>1. ASSUME NEW i \in Inodes, NEW p \in Inodes
      PROVE  NewDirBlock(i, p) \in BlockContents
  <2>1. /\ [ino |-> i, name |-> Dot] \in Dirents
        /\ [ino |-> p, name |-> DotDot] \in Dirents
    BY DEF Dirents, Comps
  <2>. QED  BY <2>1, ZeroTypes DEF NewDirBlock, BlockContents
<1>2. ASSUME NEW c \in Chunks \cup {NoChunk}
      PROVE  DataBlock(c) \in BlockContents
  BY ZeroTypes DEF DataBlock, BlockContents
<1>. QED  BY <1>1, <1>2

LEMMA PathType ==
  ASSUME NEW o \in Ops, NEW p \in Inodes, NEW n \in Comps
  PROVE  Path(o, p, n) \in Calls
BY ZeroTypes DEF Path, Calls

LEMMA InitTypes == Init => TypeOK
<1>. SUFFICES ASSUME Init PROVE TypeOK
  OBVIOUS
<1>1. ibm \in SUBSET Inodes /\ bbm \in SUBSET Blocks
  BY SizeAssumption DEF Init, Inodes, Blocks
<1>2. itab \in [Inodes -> InodeRecords]
  <2>1. [ZeroInode EXCEPT !.type = "dir", !.direct = 1] \in InodeRecords
    BY ZeroTypes, Constants DEF InodeRecords
  <2>2. ASSUME BigFile
        PROVE  [type |-> "file", direct |-> 2, indirect |-> <<4, 3>>, size |-> 2]
                 \in InodeRecords
    BY <2>2, Constants DEF InodeRecords
  <2>3. [type |-> "file", direct |-> 2, indirect |-> <<>>, size |-> 1]
          \in InodeRecords
    BY Constants DEF InodeRecords
  <2>4. AddedFile \in InodeRecords
    BY <2>2, <2>3 DEF AddedFile
  <2>. QED  BY <2>1, <2>4, ZeroTypes DEF Init
<1>3. blk \in [Blocks -> BlockContents]
  <2>1. PICK n \in Names, c \in Chunks :
           blk = [b \in Blocks |->
             CASE b = 1 -> RootBlock(n)
               [] b = 2 \/ (BigFile /\ b = 3) -> DataBlock(c)
               [] OTHER -> ZeroBlock]
    BY DEF Init
  <2>2. RootBlock(n) \in BlockContents
    <3>1. /\ [ino |-> 0, name |-> Dot] \in Dirents
          /\ [ino |-> 0, name |-> DotDot] \in Dirents
          /\ [ino |-> 1, name |-> n] \in Dirents
      BY Constants DEF Dirents, Comps
    <3>. QED  BY <3>1, ZeroTypes DEF RootBlock, BlockContents
  <2>. QED  BY <2>1, <2>2, ZeroTypes, BlockTypes
<1>4. cwd \in Inodes /\ pc \in Labels /\ call \in Calls
  BY ZeroTypes, Constants DEF Init, Labels
<1>5. /\ ret \in {"none", "ok", "fail"}
      /\ crashes \in 0 .. MaxCrashes
  BY SizeAssumption DEF Init
<1>6. torn \in BOOLEAN
  BY DEF Init
<1>. QED  BY <1>1, <1>2, <1>3, <1>4, <1>5, <1>6 DEF TypeOK

(* Looking up a name yields an inode.                                      *)
LEMMA LookupType ==
  ASSUME TypeOK, NEW d \in Inodes
  PROVE  /\ itab[d].direct \in Blocks
         /\ \A s \in Slots : Ents(d)[s] \in Dirents
BY DEF TypeOK, InodeRecords, BlockContents, Ents

LEMMA LiveType == ASSUME TypeOK PROVE Live \subseteq Inodes
BY Constants DEF TypeOK, BlockContents, Dirents, Live, Linked, Links, LinksIn,
                 LinkIno

-----------------------------------------------------------------------------
(* Every step preserves the types.                                         *)

LEMMA RequestTypes ==
  ASSUME TypeOK, Request PROVE TypeOK'
<1>1. ASSUME NEW c \in Calls, NEW l \in Labels, NEW r \in {"none", "fail"},
             Begin(c, l, r)
      PROVE  TypeOK'
  BY <1>1 DEF Begin, disk, TypeOK
<1>. USE DEF Enter, Reject
<1>2. "create" \in Labels /\ "rment" \in Labels /\ "addent" \in Labels
      /\ "ret" \in Labels
  BY DEF Labels
<1>3. \A o \in Ops : [NoCall EXCEPT !.op = o] \in Calls
  BY ZeroTypes DEF Calls
<1>4. CASE \E p \in Live, n \in Comps :
             \/ FsMkdir(p, n) \/ FsCreate(p, n)
             \/ FsDelete(p, n) \/ FsRmdir(p, n)
  <2>1. PICK p \in Inodes, n \in Comps :
             \/ FsMkdir(p, n) \/ FsCreate(p, n)
             \/ FsDelete(p, n) \/ FsRmdir(p, n)
    BY <1>4, LiveType
  <2>2. \A o \in Ops : Path(o, p, n) \in Calls
    BY PathType
  <2>3. \A o \in Ops, i \in Inodes : [Path(o, p, n) EXCEPT !.tgt = i] \in Calls
    BY <2>2 DEF Calls
  <2>4. CASE FsMkdir(p, n) \/ FsCreate(p, n)
    BY <2>4, <2>2, <1>1, <1>2 DEF FsMkdir, FsCreate, Ops
  <2>5. CASE FsDelete(p, n)
    BY <2>5, <2>3, <1>1, <1>2, <1>3 DEF FsDelete, Ops
  <2>6. CASE FsRmdir(p, n)
    BY <2>6, <2>3, <1>1, <1>2, <1>3 DEF FsRmdir, Ops
  <2>. QED  BY <2>1, <2>4, <2>5, <2>6
<1>5. CASE \E p \in Live, n \in Comps, c \in Chunks, len \in 0 .. MaxSize :
             FsWriteFile(p, n, c, len)
  <2>1. PICK p \in Inodes, n \in Comps, c \in Chunks, len \in 0 .. MaxSize :
             FsWriteFile(p, n, c, len)
    BY <1>5, LiveType
  <2>. DEFINE w == [Path("write", p, n) EXCEPT
                      !.buf = IF len = 0 THEN NoChunk ELSE c, !.size = len]
  <2>a. Path("write", p, n) \in Calls
    BY PathType DEF Ops
  <2>2. w \in Calls
    BY <2>a, SizeAssumption DEF Calls
  <2>3. \A i \in Inodes : [w EXCEPT !.tgt = i] \in Calls
    BY <2>2 DEF Calls
  <2>4. \/ \E i \in Inodes : Begin([w EXCEPT !.tgt = i], "rment", "none")
        \/ Begin(w, "create", "none")
    BY <2>1 DEF FsWriteFile
  <2>. HIDE DEF w
  <2>. QED  BY <2>2, <2>3, <2>4, <1>1, <1>2
<1>6. CASE \E p, p2 \in Live, n, n2 \in Comps :
             FsRename(p, n, p2, n2) \/ FsCopy(p, n, p2, n2)
  <2>1. PICK p \in Inodes, p2 \in Inodes, n \in Comps, n2 \in Comps :
             FsRename(p, n, p2, n2) \/ FsCopy(p, n, p2, n2)
    BY <1>6, LiveType
  <2>2. CASE FsRename(p, n, p2, n2)
    <3>. DEFINE w == [Path("rename", p, n) EXCEPT !.par2 = p2, !.comp2 = n2]
    <3>a. Path("rename", p, n) \in Calls
      BY PathType DEF Ops
    <3>1. w \in Calls
      BY <3>a DEF Calls
    <3>2. \A i \in Inodes : [w EXCEPT !.tgt = i] \in Calls
      BY <3>1 DEF Calls
    <3>3. \/ \E i \in Inodes : Begin([w EXCEPT !.tgt = i], "addent", "none")
          \/ Begin([NoCall EXCEPT !.op = "rename"], "ret", "fail")
      BY <2>2 DEF FsRename, RenameFrom
    <3>. HIDE DEF w
    <3>. QED  BY <3>2, <3>3, <1>1, <1>2, <1>3 DEF Ops
  <2>3. CASE FsCopy(p, n, p2, n2)
    <3>a. Path("copy", p2, n2) \in Calls
      BY PathType DEF Ops
    <3>b. \A i \in Inodes :
            itab[i].size \in 0 .. MaxSize /\ itab[i].direct \in Blocks
      BY DEF TypeOK, InodeRecords
    <3>1. \A i \in Inodes :
            [Path("copy", p2, n2) EXCEPT
               !.size = itab[i].size, !.sblk = itab[i].direct] \in Calls
      BY <3>a, <3>b DEF Calls
    <3>. QED  BY <2>3, <3>1, <1>1, <1>2, <1>3 DEF FsCopy, Ops
  <2>. QED  BY <2>1, <2>2, <2>3
<1>7. CASE \E i \in Live : FsCd(i)
  BY <1>7, LiveType DEF FsCd, TypeOK, disk
<1>. QED  BY <1>4, <1>5, <1>6, <1>7 DEF Request

LEMMA StepTypes ==
  ASSUME TypeOK, Step PROVE TypeOK'
<1>. USE DEF Goto, Done, Labels
<1>1. CASE CreateNode
  <2>1. \A i \in Inodes : [call EXCEPT !.inum = i] \in Calls
    BY DEF TypeOK, Calls
  <2>2. ibm' \in SUBSET Inodes /\ call' \in Calls /\ pc' \in Labels
        /\ ret' \in {"none", "ok", "fail"}
    BY <1>1, <2>1 DEF CreateNode, TypeOK, MarkedInode
  <2>. QED  BY <1>1, <2>2 DEF CreateNode, TypeOK
<1>2. CASE InodeClear
  BY <1>2, ZeroTypes DEF InodeClear, TypeOK
<1>3. CASE MkdirBlock
  <2>1. \A b \in Blocks : [call EXCEPT !.bnum = b] \in Calls
    BY DEF TypeOK, Calls
  <2>2. bbm' \in SUBSET Blocks /\ call' \in Calls
    BY <1>3, <2>1 DEF MkdirBlock, TypeOK, MarkedBlock
  <2>. QED  BY <1>3, <2>2 DEF MkdirBlock, TypeOK
<1>4. CASE WriteInode
  <2>1. call.bnum \in Blocks
    BY DEF TypeOK, Calls
  <2>2. /\ [ZeroInode EXCEPT !.type = "dir", !.direct = call.bnum] \in InodeRecords
        /\ [ZeroInode EXCEPT !.type = "file"] \in InodeRecords
    BY <2>1, ZeroTypes DEF InodeRecords
  <2>3. itab' \in [Inodes -> InodeRecords]
    BY <1>4, <2>2 DEF WriteInode, TypeOK
  <2>. QED  BY <1>4, <2>3 DEF WriteInode, TypeOK
<1>5. CASE WriteDirBlock
  <2>1. call.inum \in Inodes /\ call.par \in Inodes
    BY DEF TypeOK, Calls
  <2>2. blk' \in [Blocks -> BlockContents]
    BY <1>5, <2>1, BlockTypes DEF WriteDirBlock, TypeOK
  <2>. QED  BY <1>5, <2>2 DEF WriteDirBlock, TypeOK
<1>6. CASE AddDirent
  <2>1. blk' \in [Blocks -> BlockContents]
    <3>. DEFINE e == [ino  |-> IF call.op = "rename" THEN call.tgt ELSE call.inum,
                      name |-> Stored(IF call.op = "rename" THEN call.comp2
                                                            ELSE call.comp)]
    <3>1. e \in Dirents
      BY NameAssumption DEF TypeOK, Calls, Dirents, Stored, Comps
    <3>2. \A b \in Blocks, s \in Slots :
            [blk EXCEPT ![b].ents[s] = e] \in [Blocks -> BlockContents]
      BY <3>1 DEF TypeOK, BlockContents
    <3>3. \/ blk' = blk
          \/ \E d \in {call.par, call.par2}, s \in Slots :
               blk' = [blk EXCEPT ![itab[d].direct].ents[s] = e]
      BY <1>6 DEF AddDirent
    <3>4. call.par \in Inodes /\ call.par2 \in Inodes
      BY DEF TypeOK, Calls
    <3>5. itab[call.par].direct \in Blocks /\ itab[call.par2].direct \in Blocks
      BY <3>4, LookupType
    <3>6. blk \in [Blocks -> BlockContents]
      BY DEF TypeOK
    <3>. HIDE DEF e
    <3>7. ASSUME NEW d \in {call.par, call.par2}, NEW s \in Slots,
                 blk' = [blk EXCEPT ![itab[d].direct].ents[s] = e]
          PROVE  blk' \in [Blocks -> BlockContents]
      <4>1. itab[d].direct \in Blocks
        BY <3>5
      <4>. QED  BY <4>1, <3>2, <3>7, Zenon
    <3>. QED  BY <3>3, <3>6, <3>7
  <2>. QED  BY <1>6, <2>1 DEF AddDirent, AddFailed, TypeOK
<1>7. CASE RemoveDirent
  <2>1. blk' \in [Blocks -> BlockContents]
    <3>1. call.par \in Inodes
      BY DEF TypeOK, Calls
    <3>2. \A s \in Slots : WithoutEntry(s) \in [Slots -> Dirents]
      BY <3>1, ZeroTypes DEF WithoutEntry, Ents, TypeOK, InodeRecords,
                             BlockContents
    <3>3. itab[call.par].direct \in Blocks
      BY <3>1, LookupType
    <3>4. blk \in [Blocks -> BlockContents]
      BY DEF TypeOK
    <3>5. \A f \in [Slots -> Dirents] :
            [blk EXCEPT ![itab[call.par].direct].ents = f]
              \in [Blocks -> BlockContents]
      BY <3>3, <3>4 DEF BlockContents
    <3>6. \/ blk' = blk
          \/ \E s \in Slots :
               blk' = [blk EXCEPT ![itab[call.par].direct].ents = WithoutEntry(s)]
      BY <1>7 DEF RemoveDirent
    <3>. QED  BY <3>2, <3>4, <3>5, <3>6
  <2>. QED  BY <1>7, <2>1 DEF RemoveDirent, Removed, TypeOK
<1>8. CASE FreeBlock \/ UndoBlock
  BY <1>8 DEF FreeBlock, UndoBlock, TypeOK
<1>9. CASE FreeInode \/ UndoInode
  BY <1>9 DEF FreeInode, UndoInode, TypeOK
<1>10. CASE FillBlock
  <2>1. bbm' \in SUBSET Blocks /\ call' \in Calls
    <3>1. call.sblk \in Blocks
      BY DEF TypeOK, Calls
    <3>2. blk[call.sblk].data \in Chunks \cup {NoChunk}
      BY <3>1 DEF TypeOK, BlockContents
    <3>3. \A i \in Inodes, b \in Blocks :
            [call EXCEPT !.inum = i, !.bnum = b,
               !.buf = IF call.op = "copy" THEN blk[call.sblk].data ELSE @]
              \in Calls
      BY <3>2 DEF TypeOK, Calls
    <3>4. call \in Calls /\ bbm \in SUBSET Blocks
      BY DEF TypeOK
    <3>5. \/ bbm' = bbm /\ call' = call
          \/ \E i \in Inodes, b \in Blocks :
               /\ bbm' = bbm \cup {b}
               /\ call' = [call EXCEPT !.inum = i, !.bnum = b,
                    !.buf = IF call.op = "copy" THEN blk[call.sblk].data ELSE @]
      BY <1>10 DEF FillBlock, MarkedBlock
    <3>. QED  BY <3>3, <3>4, <3>5
  <2>. QED  BY <1>10, <2>1 DEF FillBlock, TypeOK
<1>11. CASE WriteData
  <2>1. call.buf \in Chunks \cup {NoChunk}
    BY DEF TypeOK, Calls
  <2>2. blk' \in [Blocks -> BlockContents]
    BY <1>11, <2>1, BlockTypes DEF WriteData, TypeOK
  <2>. QED  BY <1>11, <2>2 DEF WriteData, TypeOK
<1>12. CASE WriteFinal
  <2>1. itab' \in [Inodes -> InodeRecords]
    <3>1. call.inum \in Inodes /\ call.bnum \in Blocks
          /\ call.size \in 0 .. MaxSize /\ itab \in [Inodes -> InodeRecords]
      BY DEF TypeOK, Calls
    <3>2. itab' = [itab EXCEPT ![call.inum].direct = call.bnum,
                               ![call.inum].size = call.size]
      BY <1>12 DEF WriteFinal
    <3>. QED  BY <3>1, <3>2 DEF InodeRecords
  <2>. QED  BY <1>12, <2>1 DEF WriteFinal, TypeOK
<1>13. CASE Return
  BY <1>13, ZeroTypes DEF Return, TypeOK, disk
<1>. QED  BY <1>1, <1>2, <1>3, <1>4, <1>5, <1>6, <1>7, <1>8, <1>9, <1>10,
             <1>11, <1>12, <1>13 DEF Step

LEMMA CrashTypes ==
  ASSUME TypeOK, Crash PROVE TypeOK'
BY ZeroTypes, Constants, SizeAssumption DEF TypeOK, Crash, disk, Labels

(* The disk, the call and the result always have their types: no step      *)
(* reads or writes an inode or a block that does not exist, whatever the   *)
(* size of the disk (the bounds checks of tinyfs_read_inode and            *)
(* tinyfs_read_block never fail).                                          *)
THEOREM TypeCorrect == Spec => []TypeOK
<1>1. TypeOK /\ [Next]_vars => TypeOK'
  <2>. SUFFICES ASSUME TypeOK, [Next]_vars PROVE TypeOK'
    OBVIOUS
  <2>1. CASE UNCHANGED vars
    BY <2>1 DEF vars, TypeOK
  <2>. QED  BY <2>1, RequestTypes, StepTypes, CrashTypes DEF Next
<1>. QED  BY <1>1, InitTypes, PTL DEF Spec

-----------------------------------------------------------------------------
(* Lookups in a directory that has a name.                                 *)

LEMMA FirstUnique ==
  ASSUME NEW f, NEW n, NEW s \in Slots, NEW t \in Slots,
         FirstWith(f, n, s), FirstWith(f, n, t)
  PROVE  s = t
<1>1. s \in Int /\ t \in Int
  BY SizeAssumption DEF Slots
<1>2. ~(s < t) /\ ~(t < s)
  BY DEF FirstWith
<1>. QED  BY <1>1, <1>2

(* "." and ".." are always found, so every name that is absent is proper.  *)
LEMMA AbsentIsProper ==
  ASSUME TypeOK, DiskInv, NEW d \in Inodes, IsLive(d), IsDir(d),
         NEW n \in Comps, ~Found(d, n)
  PROVE  n \in Names
<1>1. Ents(d)[1].name = Dot /\ Ents(d)[2].name = DotDot
  <2>1. Ents(d)[1] = [ino |-> d, name |-> Dot] /\ Ents(d)[2].name = DotDot
    BY DEF DiskInv, DotsInv
  <2>. QED  BY <2>1
<1>. QED  BY <1>1, Constants DEF Found, Comps

(* A block that no live node owns has no link in it.                       *)
LEMMA NoLinkIn ==
  ASSUME DiskInv, NEW b \in Blocks, b # 0,
         \A i \in Inodes : IsLive(i) => ~Owns(i, b), NEW s \in Slots
  PROVE  ~Link(b, s)
BY DEF DiskInv, LinkInv, Owns

-----------------------------------------------------------------------------
(* A step that changes neither a link, nor a live inode, nor the block of  *)
(* a live directory, nor the bits of either, keeps the disk sound.         *)
LEMMA Frame ==
  ASSUME TypeOK, TypeOK', DiskInv,
         \A b \in Blocks, s \in Slots :
           /\ Link(b, s)' <=> Link(b, s)
           /\ Link(b, s) => blk'[b].ents[s].ino = blk[b].ents[s].ino,
         \A i \in Inodes : IsLive(i) =>
           /\ itab'[i] = itab[i]
           /\ IsDir(i) => blk'[itab[i].direct] = blk[itab[i].direct]
           /\ i \in ibm'
           /\ \A b \in Blocks : Owns(i, b) => b \in bbm',
         0 \in bbm',
         Renaming => Renaming' /\ call'.tgt = call.tgt,
         IsLive(cwd') /\ IsDir(cwd')
  PROVE  /\ DiskInv'
         /\ \A i \in Inodes : IsLive(i)' <=> IsLive(i)
         /\ \A i \in Inodes : IsLive(i) => (IsDir(i)' <=> IsDir(i))
         /\ \A i \in Inodes : IsLive(i) /\ IsDir(i) => Ents(i)' = Ents(i)
         /\ \A i \in Inodes, b \in Blocks :
              IsLive(i) => (Owns(i, b)' <=> Owns(i, b))
<1>1. \A i \in Inodes : IsLive(i)' <=> IsLive(i)
  BY DEF IsLive
<1>2. IsLive(0) /\ 0 \in Inodes
  BY Constants DEF IsLive
<1>3. \A i \in Inodes : IsLive(i) => (IsDir(i)' <=> IsDir(i))
  BY DEF IsDir
<1>4. \A i \in Inodes : IsLive(i) /\ IsDir(i) => Ents(i)' = Ents(i)
  BY DEF Ents
<1>5. \A i \in Inodes, b \in Blocks : IsLive(i) => (Owns(i, b)' <=> Owns(i, b))
  BY DEF Owns
<1>6. \A b \in Blocks, s \in Slots : blk[b].ents[s].ino \in Inodes
  BY DEF TypeOK, BlockContents, Dirents
<1>7. \A b \in Blocks, s \in Slots : Link(b, s) => IsLive(blk[b].ents[s].ino)
  BY DEF IsLive
<1>8. RootInv'
  BY <1>2, <1>3, <1>4 DEF RootInv, DiskInv
<1>9. UsedInv'
  BY <1>1, <1>5 DEF UsedInv, DiskInv
<1>10. LinkInv'
  BY <1>1, <1>3 DEF LinkInv, DiskInv
<1>11. SingleInv'
  BY DEF SingleInv, DiskInv
<1>12. DisjointInv'
  BY <1>1, <1>5 DEF DisjointInv, DiskInv
<1>13. DotsInv'
  BY <1>1, <1>3, <1>4 DEF DotsInv, DiskInv
<1>14. ParentInv'
  <2>. SUFFICES ASSUME NEW b \in Blocks, NEW s \in Slots, Link(b, s)',
                       IsDir(blk[b].ents[s].ino)'
                PROVE  LET p == Ents(blk[b].ents[s].ino)[2].ino
                       IN  (IsLive(p) /\ IsDir(p) /\ itab[p].direct = b)'
    BY DEF ParentInv
  <2>. DEFINE i == blk[b].ents[s].ino
              p == Ents(i)[2].ino
  <2>1. i \in Inodes /\ IsLive(i) /\ i' = i /\ Link(b, s)
    BY <1>6, <1>7
  <2>2. IsDir(i)
    BY <2>1, <1>3
  <2>3. p' = p
    BY <2>1, <2>2, <1>4
  <2>4. IsLive(p) /\ IsDir(p) /\ itab[p].direct = b
    BY <2>1, <2>2 DEF DiskInv, ParentInv
  <2>5. p \in Inodes
    BY <2>1, LookupType, Constants DEF Dirents
  <2>. QED  BY <2>3, <2>4, <2>5, <1>1, <1>3
<1>15. CwdInv'
  BY <1>1, <1>3 DEF CwdInv, TypeOK
<1>16. DiskInv'
  BY <1>8, <1>9, <1>10, <1>11, <1>12, <1>13, <1>14, <1>15 DEF DiskInv
<1>. QED  BY <1>1, <1>3, <1>4, <1>5, <1>16

-----------------------------------------------------------------------------
(* Steps that leave the disk alone.                                        *)

LEMMA SameLookups ==
  ASSUME itab' = itab, blk' = blk
  PROVE  /\ \A d \in Inodes : /\ IsDir(d)' <=> IsDir(d)
                             /\ IsFile(d)' <=> IsFile(d)
                             /\ Ents(d)' = Ents(d)
         /\ \A d \in Inodes : IsLive(d)' <=> IsLive(d)
         /\ \A d \in Inodes : EmptyDir(d)' <=> EmptyDir(d)
         /\ \A d \in Inodes, n \in Comps : Found(d, n)' <=> Found(d, n)
         /\ \A d \in Inodes, n \in Comps, s \in Slots :
              Matches(d, n, s)' <=> Matches(d, n, s)
         /\ \A d \in Inodes, b \in Blocks : Owns(d, b)' <=> Owns(d, b)
         /\ \A b \in Blocks, s \in Slots : Link(b, s)' <=> Link(b, s)
<1>1. \A d \in Inodes : /\ IsDir(d)' <=> IsDir(d)
                      /\ IsFile(d)' <=> IsFile(d)
                      /\ Ents(d)' = Ents(d)
  BY DEF IsDir, IsFile, Ents
<1>2. \A b \in Blocks, s \in Slots : Link(b, s)' <=> Link(b, s)
  BY DEF Link
<1>3. \A d \in Inodes : IsLive(d)' <=> IsLive(d)
  BY <1>2 DEF IsLive
<1>4. \A d \in Inodes : EmptyDir(d)' <=> EmptyDir(d)
  BY DEF EmptyDir, Ents
<1>5. \A d \in Inodes, n \in Comps, s \in Slots :
        Matches(d, n, s)' <=> Matches(d, n, s)
  BY DEF Matches, FirstWith, IsDir, Ents
<1>6. \A d \in Inodes, n \in Comps : Found(d, n)' <=> Found(d, n)
  BY DEF Found, IsDir, Ents
<1>7. \A d \in Inodes, b \in Blocks : Owns(d, b)' <=> Owns(d, b)
  BY DEF Owns
<1>. QED  BY <1>1, <1>2, <1>3, <1>4, <1>5, <1>6, <1>7

LEMMA SameDisk ==
  ASSUME TypeOK, TypeOK', DiskInv, UNCHANGED disk,
         Renaming => Renaming' /\ call'.tgt = call.tgt,
         IsLive(cwd') /\ IsDir(cwd')
  PROVE  DiskInv'
<1>1. ibm' = ibm /\ bbm' = bbm /\ itab' = itab /\ blk' = blk
  BY DEF disk
<1>2. \A b \in Blocks, s \in Slots :
        /\ Link(b, s)' <=> Link(b, s)
        /\ Link(b, s) => blk'[b].ents[s].ino = blk[b].ents[s].ino
  BY <1>1 DEF Link
<1>3. \A i \in Inodes : IsLive(i) =>
        /\ i \in ibm'
        /\ \A b \in Blocks : Owns(i, b) => b \in bbm'
  BY <1>1 DEF DiskInv, UsedInv
<1>4. 0 \in bbm'
  BY <1>1 DEF DiskInv, RootInv
<1>. QED  BY <1>1, <1>2, <1>3, <1>4, Frame

LEMMA Quiet ==
  ASSUME pc' \in {"idle", "ret"}
  PROVE  CallInv'
BY DEF CallInv, OpInv, PathInv, InPath, Making, Filling, HasBlock, MakeInv,
       BlockInv, FillInv, RemoveInv, RenameInv

LEMMA LiveIs == ASSUME TypeOK, NEW i \in Inodes PROVE i \in Live <=> IsLive(i)
<1>1. \A b \in Blocks, s \in Slots : Link(b, s) <=> <<b, s>> \in Links
  BY DEF Links, LinksIn, Link
<1>2. \A l \in Links : \E b \in Blocks, s \in Slots : l = <<b, s>>
  BY DEF Links, LinksIn
<1>3. \A b \in Blocks, s \in Slots : LinkIno(<<b, s>>) = blk[b].ents[s].ino
  BY DEF LinkIno
<1>4. i \in Linked <=>
        \E b \in Blocks, s \in Slots : Link(b, s) /\ blk[b].ents[s].ino = i
  <2>1. ASSUME i \in Linked
        PROVE  \E b \in Blocks, s \in Slots : Link(b, s) /\ blk[b].ents[s].ino = i
    <3>1. PICK l \in Links : i = LinkIno(l)
      BY <2>1 DEF Linked
    <3>2. PICK b \in Blocks, s \in Slots : l = <<b, s>>
      BY <1>2
    <3>. QED  BY <3>1, <3>2, <1>1, <1>3
  <2>2. ASSUME NEW b \in Blocks, NEW s \in Slots,
               Link(b, s), blk[b].ents[s].ino = i
        PROVE  i \in Linked
    <3>1. <<b, s>> \in Links /\ LinkIno(<<b, s>>) = i
      BY <2>2, <1>1, <1>3
    <3>. QED  BY <3>1 DEF Linked
  <2>. QED  BY <2>1, <2>2
<1>. QED  BY <1>4 DEF Live, IsLive

(* A path that leads to a file and whose directory part is a directory     *)
(* ends in a proper name.                                                  *)
LEMMA FilePath ==
  ASSUME TypeOK, DiskInv, NEW p \in Inodes, IsLive(p), NEW n \in Comps,
         NEW i \in Inodes, Resolves(p, n, i), IsFile(i),
         NEW s \in Slots, Matches(p, n, s)
  PROVE  n \in Names /\ Ents(p)[s].ino = i
<1>1. IsDir(p) /\ FirstWith(Ents(p), n, s)
  BY DEF Matches
<1>2. ~IsDir(i) /\ IsDir(0)
  BY DEF IsDir, IsFile, DiskInv, RootInv
<1>3. n # Dot /\ ~(n = DotDot /\ p = 0)
  BY <1>1, <1>2 DEF Resolves
<1>4. PICK t \in Slots : Matches(p, n, t) /\ Ents(p)[t].ino = i
  BY <1>3 DEF Resolves
<1>5. s = t
  BY <1>1, <1>4, FirstUnique DEF Matches
<1>6. n # DotDot
  <2>1. SUFFICES ASSUME n = DotDot PROVE FALSE
    OBVIOUS
  <2>2. PICK b \in Blocks, u \in Slots : Link(b, u) /\ blk[b].ents[u].ino = p
    BY <2>1, <1>3 DEF IsLive
  <2>3. IsDir(Ents(p)[2].ino)
    BY <2>2, <1>1 DEF DiskInv, ParentInv
  <2>4. Ents(p)[2].name = DotDot /\ Ents(p)[1] = [ino |-> p, name |-> Dot]
    BY <1>1 DEF DiskInv, DotsInv
  <2>5. Ents(p)[1].name = Dot
    BY <2>4
  <2>6. \A v \in Slots : v < 2 => v = 1
    BY SizeAssumption DEF Slots
  <2>7. FirstWith(Ents(p), DotDot, 2)
    BY <2>4, <2>5, <2>6 DEF FirstWith, Dot, DotDot
  <2>8. s = 2
    BY <2>1, <2>7, <1>1, FirstUnique, Constants
  <2>. QED  BY <2>3, <2>8, <1>2, <1>4, <1>5
<1>. QED  BY <1>3, <1>4, <1>5, <1>6 DEF Comps

-----------------------------------------------------------------------------
(* What a call must know when it begins to create, to remove, to rename.   *)

LEMMA StartCreate ==
  ASSUME itab' = itab, blk' = blk, call' \in Calls, pc' = "create",
         call'.op \in {"mkdir", "create", "copy", "write"}, IsLive(call'.par)
  PROVE  CallInv'
<1>1. call'.par \in Inodes
  BY DEF Calls
<1>2. IsLive(call.par)'
  BY <1>1, SameLookups
<1>. QED  BY <1>2 DEF CallInv, OpInv, PathInv, InPath, Making, Filling, HasBlock,
                      MakeInv, BlockInv, FillInv, RemoveInv, RenameInv

LEMMA StartRemove ==
  ASSUME itab' = itab, blk' = blk, call' \in Calls, pc' = "rment", cwd' = cwd,
         call'.op \in {"rmdir", "delete", "write"}, IsLive(call'.par),
         \A s \in Slots : Matches(call'.par, call'.comp, s) =>
           call'.comp \in Names /\ Ents(call'.par)[s].ino = call'.tgt,
         call'.op = "rmdir" =>
           IsDir(call'.tgt) /\ EmptyDir(call'.tgt) /\ cwd # call'.tgt,
         call'.op # "rmdir" => IsFile(call'.tgt)
  PROVE  CallInv'
<1>1. call'.par \in Inodes /\ call'.comp \in Comps /\ call'.tgt \in Inodes
  BY DEF Calls
<1>2. IsLive(call.par)'
  BY <1>1, SameLookups
<1>3. RemoveInv'
  <2>1. (\A s \in Slots : Matches(call.par, call.comp, s) =>
            call.comp \in Names /\ Ents(call.par)[s].ino = call.tgt)'
    BY <1>1 DEF Matches, Found, FirstWith, IsDir, IsFile, EmptyDir, Ents
  <2>2. (/\ call.op = "rmdir" =>
              IsDir(call.tgt) /\ EmptyDir(call.tgt) /\ cwd # call.tgt
         /\ call.op # "rmdir" => IsFile(call.tgt))'
    BY <1>1 DEF Matches, Found, FirstWith, IsDir, IsFile, EmptyDir, Ents
  <2>. QED  BY <2>1, <2>2 DEF RemoveInv
<1>. QED  BY <1>2, <1>3 DEF CallInv, OpInv, PathInv, InPath, Making, Filling,
                            HasBlock, MakeInv, BlockInv, FillInv, RenameInv

LEMMA StartRename ==
  ASSUME itab' = itab, blk' = blk, call' \in Calls, pc' = "addent",
         call'.op = "rename", IsLive(call'.par), IsLive(call'.par2),
         call'.comp \in Names, ~Found(call'.par2, call'.comp2),
         IsDir(call'.tgt) => call'.par2 = call'.par,
         \E s \in Slots : /\ Matches(call'.par, call'.comp, s)
                          /\ Ents(call'.par)[s].ino = call'.tgt
  PROVE  CallInv'
<1>1. /\ call'.par \in Inodes /\ call'.comp \in Comps /\ call'.tgt \in Inodes
      /\ call'.par2 \in Inodes /\ call'.comp2 \in Comps
  BY DEF Calls
<1>2. IsLive(call.par)' /\ IsLive(call.par2)'
  BY <1>1, SameLookups
<1>3. RenameInv'
  <2>1. (\E s \in Slots : /\ Matches(call.par, call.comp, s)
                          /\ Ents(call.par)[s].ino = call.tgt)'
    BY <1>1 DEF Matches, Found, FirstWith, IsDir, IsFile, EmptyDir, Ents
  <2>2. (/\ ~Found(call.par2, call.comp2)
         /\ IsDir(call.tgt) => call.par2 = call.par)'
    BY <1>1 DEF Matches, Found, FirstWith, IsDir, IsFile, EmptyDir, Ents
  <2>. QED  BY <2>1, <2>2 DEF RenameInv
<1>. QED  BY <1>2, <1>3 DEF CallInv, OpInv, PathInv, InPath, Making, Filling,
                            HasBlock, MakeInv, BlockInv, FillInv, RemoveInv

LEMMA RequestInv ==
  ASSUME TypeOK, TypeOK', DiskInv, CallInv, Request
  PROVE  DiskInv' /\ CallInv'
<1>1. pc = "idle" /\ ~Renaming
  BY DEF Request, Renaming
<1>2. call' \in Calls /\ cwd \in Inodes
  BY DEF TypeOK
<1>3. ASSUME NEW i \in Live, FsCd(i)
      PROVE  DiskInv' /\ CallInv'
  <2>1. i \in Inodes /\ IsLive(i)
    BY LiveType, LiveIs
  <2>2. cwd' = i /\ IsDir(i) /\ UNCHANGED disk /\ pc' = "idle"
    BY <1>3 DEF FsCd
  <2>. QED  BY <2>1, <2>2, <1>1, SameDisk, Quiet
<1>4. ASSUME NEW c, NEW l, NEW r, Begin(c, l, r)
      PROVE  /\ DiskInv' /\ itab' = itab /\ blk' = blk /\ cwd' = cwd
             /\ pc' = l /\ call' = c
  <2>1. UNCHANGED disk /\ cwd' = cwd /\ pc' = l /\ call' = c
    BY <1>4 DEF Begin
  <2>2. IsLive(cwd') /\ IsDir(cwd')
    BY <2>1 DEF DiskInv, CwdInv
  <2>. QED  BY <2>1, <2>2, <1>1, SameDisk DEF disk
<1>5. ASSUME NEW o \in Ops, Reject(o)
      PROVE  DiskInv' /\ CallInv'
  BY <1>5, <1>4, Quiet DEF Reject
<1>6. ASSUME NEW p \in Live, NEW n \in Comps,
             FsMkdir(p, n) \/ FsCreate(p, n)
      PROVE  DiskInv' /\ CallInv'
  <2>1. p \in Inodes /\ IsLive(p)
    BY LiveType, LiveIs
  <2>2. \E o \in {"mkdir", "create"} : Begin(Path(o, p, n), "create", "none")
    BY <1>6 DEF FsMkdir, FsCreate, Enter
  <2>3. \A o : Path(o, p, n).par = p /\ Path(o, p, n).op = o
    BY DEF Path, NoCall
  <2>. QED  BY <2>1, <2>2, <2>3, <1>2, <1>4, StartCreate
<1>7. ASSUME NEW p \in Live, NEW n \in Comps, FsDelete(p, n)
      PROVE  DiskInv' /\ CallInv'
  <2>1. p \in Inodes /\ IsLive(p)
    BY LiveType, LiveIs
  <2>2. CASE Reject("delete")
    BY <2>2, <1>5 DEF Ops
  <2>3. CASE \E i \in Inodes : /\ Resolves(p, n, i) /\ IsFile(i)
                               /\ Enter([Path("delete", p, n) EXCEPT !.tgt = i], "rment")
    <3>1. PICK i \in Inodes :
             /\ Resolves(p, n, i) /\ IsFile(i)
             /\ Begin([Path("delete", p, n) EXCEPT !.tgt = i], "rment", "none")
      BY <2>3 DEF Enter
    <3>a. call' = [Path("delete", p, n) EXCEPT !.tgt = i]
      BY <3>1, <1>4
    <3>2. /\ call'.op = "delete" /\ call'.par = p /\ call'.comp = n
          /\ call'.tgt = i
      BY <3>a DEF Path, NoCall
    <3>3. \A s \in Slots : Matches(p, n, s) => n \in Names /\ Ents(p)[s].ino = i
      BY <3>1, <2>1, FilePath
    <3>. QED  BY <3>1, <3>2, <3>3, <2>1, <1>2, <1>4, StartRemove
  <2>. QED  BY <1>7, <2>2, <2>3 DEF FsDelete
<1>8. ASSUME NEW p \in Live, NEW n \in Comps, RmdirAllowed(p, n), FsRmdir(p, n)
      PROVE  DiskInv' /\ CallInv'
  <2>1. p \in Inodes /\ IsLive(p) /\ n \in Names /\ ~Resolves(p, n, cwd)
    BY <1>8, LiveType, LiveIs DEF RmdirAllowed
  <2>2. CASE Reject("rmdir")
    BY <2>2, <1>5 DEF Ops
  <2>3. CASE \E i \in Inodes : /\ Resolves(p, n, i) /\ IsDir(i) /\ EmptyDir(i)
                               /\ Enter([Path("rmdir", p, n) EXCEPT !.tgt = i], "rment")
    <3>1. PICK i \in Inodes :
             /\ Resolves(p, n, i) /\ IsDir(i) /\ EmptyDir(i)
             /\ Begin([Path("rmdir", p, n) EXCEPT !.tgt = i], "rment", "none")
      BY <2>3 DEF Enter
    <3>a. call' = [Path("rmdir", p, n) EXCEPT !.tgt = i]
      BY <3>1, <1>4
    <3>2. /\ call'.op = "rmdir" /\ call'.par = p /\ call'.comp = n
          /\ call'.tgt = i
      BY <3>a DEF Path, NoCall
    <3>3. \A s \in Slots : Matches(p, n, s) => Ents(p)[s].ino = i
      BY <3>1, <2>1, FirstUnique, NameAssumption DEF Resolves, Matches
    <3>. QED  BY <3>1, <3>2, <3>3, <2>1, <1>2, <1>4, StartRemove
  <2>. QED  BY <1>8, <2>2, <2>3 DEF FsRmdir
<1>9. ASSUME NEW p \in Live, NEW n \in Comps, NEW p2 \in Live, NEW n2 \in Comps,
             RenameAllowed(p, n, p2), FsRename(p, n, p2, n2)
      PROVE  DiskInv' /\ CallInv'
  <2>1. /\ p \in Inodes /\ IsLive(p) /\ p2 \in Inodes /\ IsLive(p2)
        /\ n \in Names
    BY <1>9, LiveType, LiveIs DEF RenameAllowed
  <2>2. CASE Reject("rename")
    BY <2>2, <1>5 DEF Ops
  <2>. DEFINE w == [Path("rename", p, n) EXCEPT !.par2 = p2, !.comp2 = n2]
  <2>3. CASE \E i \in Inodes : /\ Resolves(p, n, i) /\ ~Found(p2, n2)
                               /\ Enter([w EXCEPT !.tgt = i], "addent")
    <3>1. PICK i \in Inodes :
             /\ Resolves(p, n, i) /\ ~Found(p2, n2)
             /\ Begin([w EXCEPT !.tgt = i], "addent", "none")
      BY <2>3 DEF Enter
    <3>a. call' = [w EXCEPT !.tgt = i]
      BY <3>1, <1>4
    <3>2. /\ call'.op = "rename" /\ call'.par = p /\ call'.comp = n
          /\ call'.par2 = p2 /\ call'.comp2 = n2 /\ call'.tgt = i
      BY <3>a DEF Path, NoCall
    <3>3. \E s \in Slots : Matches(p, n, s) /\ Ents(p)[s].ino = i
      BY <3>1, <2>1, NameAssumption DEF Resolves
    <3>4. IsDir(i) => p2 = p
      BY <1>9, <3>1 DEF RenameAllowed
    <3>. QED  BY <3>1, <3>2, <3>3, <3>4, <2>1, <1>2, <1>4, StartRename
  <2>. QED  BY <1>9, <2>2, <2>3 DEF FsRename, RenameFrom
<1>10. ASSUME NEW p \in Live, NEW n \in Comps, NEW p2 \in Live, NEW n2 \in Comps,
              FsCopy(p, n, p2, n2)
       PROVE  DiskInv' /\ CallInv'
  <2>1. p2 \in Inodes /\ IsLive(p2)
    BY LiveType, LiveIs
  <2>2. CASE Reject("copy")
    BY <2>2, <1>5 DEF Ops
  <2>3. CASE \E i \in Inodes :
               Enter([Path("copy", p2, n2) EXCEPT !.size = itab[i].size,
                        !.sblk = itab[i].direct], "create")
    <3>1. PICK i \in Inodes :
               Begin([Path("copy", p2, n2) EXCEPT !.size = itab[i].size,
                        !.sblk = itab[i].direct], "create", "none")
      BY <2>3 DEF Enter
    <3>a. call' = [Path("copy", p2, n2) EXCEPT !.size = itab[i].size, !.sblk = itab[i].direct]
      BY <3>1, <1>4
    <3>2. call'.op = "copy" /\ call'.par = p2
      BY <3>a DEF Path, NoCall
    <3>. QED  BY <3>1, <3>2, <2>1, <1>2, <1>4, StartCreate
  <2>. QED  BY <1>10, <2>2, <2>3 DEF FsCopy
<1>11. ASSUME NEW p \in Live, NEW n \in Comps, NEW c \in Chunks,
              NEW len \in 0 .. MaxSize, FsWriteFile(p, n, c, len)
       PROVE  DiskInv' /\ CallInv'
  <2>1. p \in Inodes /\ IsLive(p)
    BY LiveType, LiveIs
  <2>. DEFINE w == [Path("write", p, n) EXCEPT
                      !.buf = IF len = 0 THEN NoChunk ELSE c, !.size = len]
  <2>2. CASE Enter(w, "create")
    <3>1. Begin(w, "create", "none")
      BY <2>2 DEF Enter
    <3>a. call' = w
      BY <3>1, <1>4
    <3>2. call'.op = "write" /\ call'.par = p
      BY <3>a DEF Path, NoCall
    <3>. HIDE DEF w
    <3>. QED  BY <3>1, <3>2, <2>1, <1>2, <1>4, StartCreate
  <2>3. CASE \E i \in Inodes : /\ Resolves(p, n, i) /\ IsFile(i)
                               /\ Enter([w EXCEPT !.tgt = i], "rment")
    <3>1. PICK i \in Inodes : /\ Resolves(p, n, i) /\ IsFile(i)
                             /\ Begin([w EXCEPT !.tgt = i], "rment", "none")
      BY <2>3 DEF Enter
    <3>a. call' = [w EXCEPT !.tgt = i]
      BY <3>1, <1>4
    <3>2. /\ call'.op = "write" /\ call'.par = p /\ call'.comp = n
          /\ call'.tgt = i
      BY <3>a DEF Path, NoCall
    <3>3. \A s \in Slots : Matches(p, n, s) => n \in Names /\ Ents(p)[s].ino = i
      BY <3>1, <2>1, FilePath
    <3>. HIDE DEF w
    <3>. QED  BY <3>1, <3>2, <3>3, <2>1, <1>2, <1>4, StartRemove
  <2>. QED  BY <1>11, <2>2, <2>3 DEF FsWriteFile
<1>. QED  BY <1>3, <1>6, <1>7, <1>8, <1>9, <1>10, <1>11 DEF Request

-----------------------------------------------------------------------------
(* The steps that make a node.                                             *)

LEMMA CreateNodeInv ==
  ASSUME TypeOK, TypeOK', DiskInv, CallInv, CreateNode
  PROVE  DiskInv' /\ CallInv'
<1>. USE DEF Goto, Done
<1>1. /\ pc = "create" /\ ~Renaming /\ bbm' = bbm /\ itab' = itab /\ blk' = blk
      /\ cwd' = cwd
  BY DEF CreateNode, Renaming
<1>2. IsLive(cwd') /\ IsDir(cwd')
  BY <1>1 DEF DiskInv, CwdInv
<1>3. CASE pc' = "ret" /\ ibm' = ibm
  <2>1. UNCHANGED disk
    BY <1>1, <1>3 DEF disk
  <2>. QED  BY <2>1, <1>1, <1>2, <1>3, SameDisk, Quiet
<1>4. ASSUME MayCreate(call.par, call.comp), NEW i \in Inodes, LowestFreeInode(i),
             ibm' = ibm \cup {i}, call' = [call EXCEPT !.inum = i], pc' = "clear"
      PROVE  DiskInv' /\ CallInv'
  <2>1. DiskInv'
    <3>1. \A b \in Blocks, s \in Slots :
            /\ Link(b, s)' <=> Link(b, s)
            /\ Link(b, s) => blk'[b].ents[s].ino = blk[b].ents[s].ino
      BY <1>1 DEF Link
    <3>2. \A j \in Inodes : IsLive(j) =>
            /\ j \in ibm'
            /\ \A b \in Blocks : Owns(j, b) => b \in bbm'
      BY <1>1, <1>4 DEF DiskInv, UsedInv
    <3>3. 0 \in bbm'
      BY <1>1 DEF DiskInv, RootInv
    <3>. QED  BY <1>1, <1>2, <3>1, <3>2, <3>3, Frame
  <2>2. /\ call'.inum = i /\ call'.op = call.op /\ call'.par = call.par
        /\ call'.comp = call.comp /\ call.par \in Inodes /\ call.comp \in Comps
    BY <1>4 DEF TypeOK, Calls
  <2>3. /\ call.op \in {"mkdir", "create", "copy", "write"}
        /\ IsLive(call.par)
    BY <1>1 DEF CallInv, OpInv, PathInv, InPath
  <2>4. IsDir(call.par) /\ ~Found(call.par, call.comp)
    BY <1>4 DEF MayCreate
  <2>5. call.comp \in Names
    BY <2>2, <2>3, <2>4, AbsentIsProper
  <2>6. ~IsLive(i) /\ i \in ibm'
    BY <1>4 DEF DiskInv, UsedInv, LowestFreeInode
  <2>7. \A s \in Slots : Ents(call.par)[s].name # call.comp
    BY <2>4 DEF Found
  <2>8. /\ IsLive(call.par)' /\ IsDir(call.par)' /\ ~IsLive(call.inum)'
        /\ (\A s \in Slots : Ents(call.par)[s].name # call.comp)'
    BY <1>1, <2>2, <2>3, <2>4, <2>6, <2>7 DEF IsLive, Link, IsDir, Ents
  <2>9. PathInv' /\ MakeInv'
    BY <1>4, <2>2, <2>3, <2>5, <2>6, <2>8 DEF PathInv, InPath, Making, MakeInv
  <2>. QED  BY <1>4, <2>1, <2>2, <2>3, <2>9
            DEF CallInv, OpInv, Filling, HasBlock, BlockInv, FillInv, RemoveInv,
                RenameInv
<1>. QED  BY <1>3, <1>4 DEF CreateNode, MarkedInode

(* Writing the inode of a node that has no name yet.                       *)
LEMMA FrameInode ==
  ASSUME TypeOK, TypeOK', DiskInv, ~Renaming,
         NEW k \in Inodes, ~IsLive(k), NEW v, itab' = [itab EXCEPT ![k] = v],
         ibm' = ibm, bbm' = bbm, blk' = blk, cwd' = cwd
  PROVE  /\ DiskInv'
         /\ \A i \in Inodes : IsLive(i)' <=> IsLive(i)
         /\ \A i \in Inodes : IsLive(i) => (IsDir(i)' <=> IsDir(i))
         /\ \A i \in Inodes : IsLive(i) /\ IsDir(i) => Ents(i)' = Ents(i)
         /\ \A i \in Inodes, b \in Blocks :
              IsLive(i) => (Owns(i, b)' <=> Owns(i, b))
         /\ itab'[k] = v
<1>1. \A i \in Inodes : IsLive(i) => itab'[i] = itab[i]
  BY DEF TypeOK
<1>2. \A b \in Blocks, s \in Slots :
        /\ Link(b, s)' <=> Link(b, s)
        /\ Link(b, s) => blk'[b].ents[s].ino = blk[b].ents[s].ino
  BY DEF Link
<1>3. \A j \in Inodes : IsLive(j) =>
        /\ j \in ibm'
        /\ \A b \in Blocks : Owns(j, b) => b \in bbm'
  BY DEF DiskInv, UsedInv
<1>4. 0 \in bbm' /\ IsLive(cwd') /\ IsDir(cwd')
  BY DEF DiskInv, RootInv, CwdInv
<1>5. itab'[k] = v
  BY DEF TypeOK
<1>6. \A i \in Inodes : IsLive(i) =>
        /\ itab'[i] = itab[i]
        /\ IsDir(i) => blk'[itab[i].direct] = blk[itab[i].direct]
        /\ i \in ibm'
        /\ \A b \in Blocks : Owns(i, b) => b \in bbm'
  BY <1>1, <1>3
<1>. QED  BY <1>2, <1>4, <1>5, <1>6, Frame

(* Changing the bitmaps, but for the bits of what has a name.              *)
LEMMA FrameBitmap ==
  ASSUME TypeOK, TypeOK', DiskInv, ~Renaming,
         itab' = itab, blk' = blk, cwd' = cwd,
         \A i \in Inodes : IsLive(i) =>
           /\ i \in ibm'
           /\ \A b \in Blocks : Owns(i, b) => b \in bbm',
         0 \in bbm'
  PROVE  DiskInv'
<1>1. \A b \in Blocks, s \in Slots :
        /\ Link(b, s)' <=> Link(b, s)
        /\ Link(b, s) => blk'[b].ents[s].ino = blk[b].ents[s].ino
  BY DEF Link
<1>2. IsLive(cwd') /\ IsDir(cwd')
  BY DEF DiskInv, CwdInv
<1>. QED  BY <1>1, <1>2, Frame

(* Writing a block that belongs to no live node, with no link in it.       *)
LEMMA FrameBlock ==
  ASSUME TypeOK, TypeOK', DiskInv, ~Renaming,
         NEW k \in Blocks, k # 0, NEW v, blk' = [blk EXCEPT ![k] = v],
         \A i \in Inodes : IsLive(i) => ~Owns(i, k),
         \A s \in Slots : v.ents[s].name \notin Names,
         ibm' = ibm, bbm' = bbm, itab' = itab, cwd' = cwd
  PROVE  /\ DiskInv'
         /\ \A i \in Inodes : IsLive(i)' <=> IsLive(i)
         /\ \A i \in Inodes : IsLive(i) => (IsDir(i)' <=> IsDir(i))
         /\ \A i \in Inodes : IsLive(i) /\ IsDir(i) => Ents(i)' = Ents(i)
         /\ \A i \in Inodes, b \in Blocks :
              IsLive(i) => (Owns(i, b)' <=> Owns(i, b))
         /\ blk'[k] = v
<1>1. blk'[k] = v /\ \A b \in Blocks : b # k => blk'[b] = blk[b]
  BY DEF TypeOK
<1>2. \A s \in Slots : ~Link(k, s)
  BY NoLinkIn
<1>3. \A b \in Blocks, s \in Slots :
        /\ Link(b, s)' <=> Link(b, s)
        /\ Link(b, s) => blk'[b].ents[s].ino = blk[b].ents[s].ino
  <2>. SUFFICES ASSUME NEW b \in Blocks, NEW s \in Slots
                PROVE  /\ Link(b, s)' <=> Link(b, s)
                       /\ Link(b, s) => blk'[b].ents[s].ino = blk[b].ents[s].ino
    OBVIOUS
  <2>1. CASE b = k
    BY <2>1, <1>1, <1>2 DEF Link
  <2>2. CASE b # k
    BY <2>2, <1>1 DEF Link
  <2>. QED  BY <2>1, <2>2
<1>4. \A i \in Inodes : IsLive(i) /\ IsDir(i) =>
        blk'[itab[i].direct] = blk[itab[i].direct]
  BY <1>1, LookupType DEF Owns
<1>5. \A i \in Inodes : IsLive(i) =>
        /\ itab'[i] = itab[i]
        /\ IsDir(i) => blk'[itab[i].direct] = blk[itab[i].direct]
        /\ i \in ibm'
        /\ \A b \in Blocks : Owns(i, b) => b \in bbm'
  BY <1>4 DEF DiskInv, UsedInv
<1>6. 0 \in bbm' /\ IsLive(cwd') /\ IsDir(cwd')
  BY DEF DiskInv, RootInv, CwdInv
<1>. QED  BY <1>1, <1>3, <1>5, <1>6, Frame

LEMMA InodeClearInv ==
  ASSUME TypeOK, TypeOK', DiskInv, CallInv, InodeClear
  PROVE  DiskInv' /\ CallInv'
<1>. USE DEF Goto
<1>1. /\ pc = "clear" /\ ~Renaming /\ call' = call
      /\ pc' = IF call.op = "mkdir" THEN "balloc" ELSE "winode"
      /\ itab' = [itab EXCEPT ![call.inum] = ZeroInode]
      /\ ibm' = ibm /\ bbm' = bbm /\ blk' = blk /\ cwd' = cwd
  BY DEF InodeClear, Renaming
<1>2. /\ call.op \in {"mkdir", "create", "copy", "write"} /\ Making
      /\ call.inum \in Inodes /\ call.par \in Inodes
  BY <1>1 DEF CallInv, OpInv, Making, TypeOK, Calls
<1>3. /\ IsLive(call.par) /\ IsDir(call.par) /\ call.comp \in Names
      /\ call.inum \in ibm /\ ~IsLive(call.inum)
      /\ \A s \in Slots : Ents(call.par)[s].name # call.comp
  BY <1>1, <1>2 DEF CallInv, PathInv, InPath, MakeInv
<1>4. /\ DiskInv' /\ IsLive(call.par)' /\ IsDir(call.par)' /\ ~IsLive(call.inum)'
      /\ (Ents(call.par))' = Ents(call.par)
  BY <1>1, <1>2, <1>3, FrameInode
<1>5. PathInv' /\ MakeInv'
  BY <1>1, <1>2, <1>3, <1>4 DEF PathInv, InPath, Making, MakeInv
<1>. QED  BY <1>1, <1>2, <1>4, <1>5
          DEF CallInv, OpInv, Filling, HasBlock, BlockInv, FillInv, RemoveInv,
              RenameInv

LEMMA MkdirBlockInv ==
  ASSUME TypeOK, TypeOK', DiskInv, CallInv, MkdirBlock
  PROVE  DiskInv' /\ CallInv'
<1>. USE DEF Goto
<1>1. /\ pc = "balloc" /\ ~Renaming /\ ibm' = ibm /\ itab' = itab /\ blk' = blk
      /\ cwd' = cwd
  BY DEF MkdirBlock, Renaming
<1>2. /\ call.op = "mkdir" /\ Making
      /\ call.inum \in Inodes /\ call.par \in Inodes
  BY <1>1 DEF CallInv, OpInv, Making, TypeOK, Calls
<1>3. /\ IsLive(call.par) /\ IsDir(call.par) /\ call.comp \in Names
      /\ call.inum \in ibm /\ ~IsLive(call.inum)
      /\ \A s \in Slots : Ents(call.par)[s].name # call.comp
  BY <1>1, <1>2 DEF CallInv, PathInv, InPath, MakeInv
<1>4. /\ call'.op = call.op /\ call'.par = call.par /\ call'.comp = call.comp
      /\ call'.inum = call.inum
      /\ pc' \in {"winode", "undoino"} /\ bbm \subseteq bbm'
  BY DEF MkdirBlock, MarkedBlock, TypeOK, Calls
<1>5. DiskInv'
  <2>1. \A i \in Inodes : IsLive(i) =>
          /\ i \in ibm'
          /\ \A b \in Blocks : Owns(i, b) => b \in bbm'
    BY <1>1, <1>4 DEF DiskInv, UsedInv
  <2>2. 0 \in bbm'
    BY <1>4 DEF DiskInv, RootInv
  <2>. QED  BY <2>1, <2>2, <1>1, FrameBitmap
<1>6. /\ IsLive(call.par)' /\ IsDir(call.par)' /\ ~IsLive(call.inum)'
      /\ (Ents(call.par))' = Ents(call.par)
  BY <1>1, <1>2, <1>3, <1>4 DEF IsLive, Link, IsDir, Ents
<1>7. PathInv' /\ MakeInv'
  BY <1>1, <1>2, <1>3, <1>4, <1>6 DEF PathInv, InPath, Making, MakeInv
<1>8. BlockInv'
  <2>1. CASE pc' = "undoino"
    BY <2>1 DEF BlockInv, HasBlock, Filling
  <2>2. CASE pc' = "winode"
    <3>1. PICK b \in Blocks : /\ LowestFreeBlock(b) /\ bbm' = bbm \cup {b}
                             /\ call' = [call EXCEPT !.bnum = b]
      BY <2>2 DEF MkdirBlock, MarkedBlock
    <3>2. b \notin bbm /\ call'.bnum = b
      BY <3>1 DEF LowestFreeBlock, TypeOK, Calls
    <3>3. b # 0 /\ \A i \in Inodes : IsLive(i) => ~Owns(i, b)
      BY <3>2 DEF DiskInv, RootInv, UsedInv
    <3>4. \A i \in Inodes : IsLive(i)' => ~Owns(i, b)'
      BY <1>1, <3>3, SameLookups
    <3>. QED  BY <3>1, <3>2, <3>3, <3>4 DEF BlockInv
  <2>. QED  BY <2>1, <2>2, <1>4
<1>. QED  BY <1>2, <1>4, <1>5, <1>7, <1>8
          DEF CallInv, OpInv, Filling, HasBlock, FillInv, RemoveInv, RenameInv

LEMMA WriteInodeInv ==
  ASSUME TypeOK, TypeOK', DiskInv, CallInv, WriteInode
  PROVE  DiskInv' /\ CallInv'
<1>. USE DEF Goto
<1>. DEFINE v == IF call.op = "mkdir"
                   THEN [ZeroInode EXCEPT !.type = "dir", !.direct = call.bnum]
                   ELSE [ZeroInode EXCEPT !.type = "file"]
<1>1. /\ pc = "winode" /\ ~Renaming /\ call' = call
      /\ pc' = IF call.op = "mkdir" THEN "wdir" ELSE "addent"
      /\ itab' = [itab EXCEPT ![call.inum] = v]
      /\ ibm' = ibm /\ bbm' = bbm /\ blk' = blk /\ cwd' = cwd
  BY DEF WriteInode, Renaming
<1>2. /\ call.op \in {"mkdir", "create", "copy", "write"} /\ Making
      /\ call.inum \in Inodes /\ call.par \in Inodes /\ call.bnum \in Blocks
  BY <1>1 DEF CallInv, OpInv, Making, TypeOK, Calls
<1>3. /\ IsLive(call.par) /\ IsDir(call.par) /\ call.comp \in Names
      /\ call.inum \in ibm /\ ~IsLive(call.inum)
      /\ \A s \in Slots : Ents(call.par)[s].name # call.comp
  BY <1>1, <1>2 DEF CallInv, PathInv, InPath, MakeInv
<1>4. /\ DiskInv' /\ IsLive(call.par)' /\ IsDir(call.par)' /\ ~IsLive(call.inum)'
      /\ (Ents(call.par))' = Ents(call.par) /\ itab'[call.inum] = v
      /\ \A i \in Inodes : IsLive(i)' <=> IsLive(i)
      /\ \A i \in Inodes, b \in Blocks : IsLive(i) => (Owns(i, b)' <=> Owns(i, b))
  <2>. HIDE DEF v
  <2>. QED  BY <1>1, <1>2, <1>3, FrameInode
<1>5. PathInv' /\ MakeInv'
  BY <1>1, <1>2, <1>3, <1>4 DEF PathInv, InPath, Making, MakeInv
<1>6. BlockInv'
  <2>1. CASE call.op = "mkdir"
    <3>1. /\ call.bnum # 0 /\ call.bnum \in bbm
          /\ \A i \in Inodes : IsLive(i) => ~Owns(i, call.bnum)
      BY <1>1, <2>1 DEF CallInv, BlockInv, HasBlock
    <3>2. \A i \in Inodes : IsLive(i)' => ~Owns(i, call.bnum)'
      BY <3>1, <1>1, <1>2, <1>4
    <3>. QED  BY <3>1, <3>2, <1>1 DEF BlockInv
  <2>2. CASE call.op # "mkdir"
    BY <2>2, <1>1 DEF BlockInv, HasBlock, Filling
  <2>. QED  BY <2>1, <2>2
<1>. QED  BY <1>1, <1>2, <1>4, <1>5, <1>6
          DEF CallInv, OpInv, Filling, FillInv, RemoveInv, RenameInv

LEMMA WriteDirBlockInv ==
  ASSUME TypeOK, TypeOK', DiskInv, CallInv, WriteDirBlock
  PROVE  DiskInv' /\ CallInv'
<1>. USE DEF Goto
<1>. DEFINE v == NewDirBlock(call.inum, call.par)
<1>1. /\ pc = "wdir" /\ ~Renaming /\ call' = call /\ pc' = "addent"
      /\ blk' = [blk EXCEPT ![call.bnum] = v]
      /\ ibm' = ibm /\ bbm' = bbm /\ itab' = itab /\ cwd' = cwd
  BY DEF WriteDirBlock, Renaming
<1>2. /\ call.op = "mkdir" /\ Making
      /\ call.inum \in Inodes /\ call.par \in Inodes /\ call.bnum \in Blocks
  BY <1>1 DEF CallInv, OpInv, Making, TypeOK, Calls
<1>3. /\ IsLive(call.par) /\ IsDir(call.par) /\ call.comp \in Names
      /\ call.inum \in ibm /\ ~IsLive(call.inum)
      /\ \A s \in Slots : Ents(call.par)[s].name # call.comp
      /\ itab[call.inum] =
            [ZeroInode EXCEPT !.type = "dir", !.direct = call.bnum]
  BY <1>1, <1>2 DEF CallInv, PathInv, InPath, MakeInv
<1>4. /\ call.bnum # 0 /\ call.bnum \in bbm
      /\ \A i \in Inodes : IsLive(i) => ~Owns(i, call.bnum)
  BY <1>1, <1>2 DEF CallInv, BlockInv, HasBlock
<1>5. \A s \in Slots : v.ents[s].name \notin Names
  BY NameAssumption, Constants DEF NewDirBlock, ZeroBlock, NoEntry, Slots
<1>6. /\ DiskInv' /\ IsLive(call.par)' /\ IsDir(call.par)' /\ ~IsLive(call.inum)'
      /\ (Ents(call.par))' = Ents(call.par) /\ blk'[call.bnum] = v
      /\ \A i \in Inodes : IsLive(i)' <=> IsLive(i)
      /\ \A i \in Inodes, b \in Blocks : IsLive(i) => (Owns(i, b)' <=> Owns(i, b))
  <2>. HIDE DEF v
  <2>. QED  BY <1>1, <1>2, <1>3, <1>4, <1>5, FrameBlock
<1>7. NewDirBlock(call.inum, call.par)' = v
  BY <1>1 DEF NewDirBlock
<1>8. PathInv' /\ MakeInv'
  BY <1>1, <1>2, <1>3, <1>6, <1>7 DEF PathInv, InPath, Making, MakeInv
<1>9. BlockInv'
  <2>1. \A i \in Inodes : IsLive(i)' => ~Owns(i, call.bnum)'
    BY <1>1, <1>2, <1>4, <1>6
  <2>. QED  BY <1>1, <1>4, <2>1 DEF BlockInv
<1>. QED  BY <1>1, <1>2, <1>6, <1>8, <1>9
          DEF CallInv, OpInv, Filling, FillInv, RemoveInv, RenameInv

-----------------------------------------------------------------------------
(* The steps that give back an inode or a block.                           *)

LEMMA UndoBlockInv ==
  ASSUME TypeOK, TypeOK', DiskInv, CallInv, UndoBlock
  PROVE  DiskInv' /\ CallInv'
<1>. USE DEF Goto
<1>1. /\ pc = "undoblk" /\ ~Renaming /\ call' = call /\ pc' = "undoino"
      /\ bbm' = bbm \ {call.bnum}
      /\ ibm' = ibm /\ blk' = blk /\ itab' = itab /\ cwd' = cwd
  BY DEF UndoBlock, Renaming
<1>2. /\ call.op = "mkdir" /\ Making
      /\ call.inum \in Inodes /\ call.par \in Inodes /\ call.bnum \in Blocks
  BY <1>1 DEF CallInv, OpInv, Making, TypeOK, Calls
<1>3. /\ IsLive(call.par) /\ IsDir(call.par) /\ call.comp \in Names
      /\ call.inum \in ibm /\ ~IsLive(call.inum)
  BY <1>1, <1>2 DEF CallInv, PathInv, InPath, MakeInv
<1>4. /\ call.bnum # 0
      /\ \A i \in Inodes : IsLive(i) => ~Owns(i, call.bnum)
  BY <1>1, <1>2 DEF CallInv, BlockInv, HasBlock
<1>5. \A i \in Inodes : IsLive(i) =>
        /\ i \in ibm'
        /\ \A b \in Blocks : Owns(i, b) => b \in bbm'
  BY <1>1, <1>4 DEF DiskInv, UsedInv
<1>6. 0 \in bbm'
  BY <1>1, <1>4 DEF DiskInv, RootInv
<1>7. DiskInv'
  BY <1>1, <1>5, <1>6, FrameBitmap
<1>8. IsLive(call.par)' /\ IsDir(call.par)' /\ ~IsLive(call.inum)'
  BY <1>1, <1>3 DEF IsLive, Link, IsDir
<1>. QED  BY <1>1, <1>2, <1>3, <1>7, <1>8
          DEF CallInv, OpInv, PathInv, InPath, Making, MakeInv, BlockInv, Filling,
              HasBlock, FillInv, RemoveInv, RenameInv

LEMMA UndoInodeInv ==
  ASSUME TypeOK, TypeOK', DiskInv, CallInv, UndoInode
  PROVE  DiskInv' /\ CallInv'
<1>1. /\ pc = "undoino" /\ ~Renaming /\ pc' = "ret" /\ ibm' = ibm \ {call.inum}
      /\ bbm' = bbm /\ blk' = blk /\ itab' = itab /\ cwd' = cwd
  BY DEF UndoInode, Renaming, Done
<1>2. ~IsLive(call.inum)
  BY <1>1 DEF CallInv, OpInv, Making, MakeInv
<1>3. \A i \in Inodes : IsLive(i) =>
        /\ i \in ibm'
        /\ \A b \in Blocks : Owns(i, b) => b \in bbm'
  BY <1>1, <1>2 DEF DiskInv, UsedInv
<1>4. 0 \in bbm'
  BY <1>1 DEF DiskInv, RootInv
<1>. QED  BY <1>1, <1>3, <1>4, FrameBitmap, Quiet

LEMMA FreeBlockInv ==
  ASSUME TypeOK, TypeOK', DiskInv, CallInv, FreeBlock
  PROVE  DiskInv' /\ CallInv'
<1>1. /\ pc = "bfree" /\ ~Renaming /\ call' = call /\ pc' = "ifree"
      /\ bbm' = bbm \ {itab[call.tgt].direct}
      /\ ibm' = ibm /\ blk' = blk /\ itab' = itab /\ cwd' = cwd
  BY DEF FreeBlock, Renaming, Goto
<1>2. call.op \in {"rmdir", "delete", "write"}
  BY <1>1 DEF CallInv, OpInv
<1>3. /\ ~IsLive(call.tgt) /\ itab[call.tgt].direct # 0
      /\ \A i \in Inodes : IsLive(i) => ~Owns(i, itab[call.tgt].direct)
      /\ call.op = "write" => IsLive(call.par)
  BY <1>1 DEF CallInv, RemoveInv, PathInv, InPath
<1>4. \A i \in Inodes : IsLive(i) =>
        /\ i \in ibm'
        /\ \A b \in Blocks : Owns(i, b) => b \in bbm'
  BY <1>1, <1>3 DEF DiskInv, UsedInv
<1>5. 0 \in bbm'
  BY <1>1, <1>3 DEF DiskInv, RootInv
<1>6. DiskInv'
  BY <1>1, <1>4, <1>5, FrameBitmap
<1>7. ~IsLive(call.tgt)' /\ (call.op = "write" => IsLive(call.par)')
  BY <1>1, <1>3 DEF IsLive, Link
<1>. QED  BY <1>1, <1>2, <1>6, <1>7
          DEF CallInv, OpInv, PathInv, InPath, Making, MakeInv, BlockInv, Filling,
              HasBlock, FillInv, RemoveInv, RenameInv

LEMMA FreeInodeInv ==
  ASSUME TypeOK, TypeOK', DiskInv, CallInv, FreeInode
  PROVE  DiskInv' /\ CallInv'
<1>1. /\ pc = "ifree" /\ ~Renaming /\ call' = call /\ ibm' = ibm \ {call.tgt}
      /\ pc' = IF call.op = "write" THEN "create" ELSE "ret"
      /\ bbm' = bbm /\ blk' = blk /\ itab' = itab /\ cwd' = cwd
  BY DEF FreeInode, Renaming, Goto, Done
<1>2. ~IsLive(call.tgt) /\ (call.op = "write" => IsLive(call.par))
  BY <1>1 DEF CallInv, RemoveInv, PathInv, InPath
<1>3. \A i \in Inodes : IsLive(i) =>
        /\ i \in ibm'
        /\ \A b \in Blocks : Owns(i, b) => b \in bbm'
  BY <1>1, <1>2 DEF DiskInv, UsedInv
<1>4. 0 \in bbm'
  BY <1>1 DEF DiskInv, RootInv
<1>5. DiskInv'
  BY <1>1, <1>3, <1>4, FrameBitmap
<1>6. CallInv'
  <2>1. CASE call.op = "write"
    <3>1. call' \in Calls
      BY DEF TypeOK
    <3>. QED  BY <2>1, <3>1, <1>1, <1>2, StartCreate
  <2>2. CASE call.op # "write"
    BY <2>2, <1>1, Quiet
  <2>. QED  BY <2>1, <2>2
<1>. QED  BY <1>5, <1>6

-----------------------------------------------------------------------------
(* The steps that fill a file.                                             *)

LEMMA FillBlockInv ==
  ASSUME TypeOK, TypeOK', DiskInv, CallInv, FillBlock
  PROVE  DiskInv' /\ CallInv'
<1>. USE DEF Goto, Done
<1>1. /\ pc = "fill" /\ ~Renaming
      /\ ibm' = ibm /\ itab' = itab /\ blk' = blk /\ cwd' = cwd
  BY DEF FillBlock, Renaming
<1>2. IsLive(cwd') /\ IsDir(cwd')
  BY <1>1 DEF DiskInv, CwdInv
<1>3. CASE pc' = "ret" /\ bbm' = bbm
  <2>1. UNCHANGED disk
    BY <1>1, <1>3 DEF disk
  <2>. QED  BY <2>1, <1>1, <1>2, <1>3, SameDisk, Quiet
<1>4. ASSUME NEW i \in Inodes, NEW b \in Blocks, Resolves(call.par, call.comp, i),
             LowestFreeBlock(b), bbm' = bbm \cup {b}, pc' = "wdata",
             call' = [call EXCEPT !.inum = i, !.bnum = b,
                        !.buf = IF call.op = "copy" THEN blk[call.sblk].data ELSE @]
      PROVE  DiskInv' /\ CallInv'
  <2>1. call'.inum = i /\ call'.bnum = b /\ call'.op = call.op
    BY <1>4 DEF TypeOK, Calls
  <2>2. /\ call.op \in {"copy", "write"} /\ call.comp \in Names
        /\ IsLive(call.inum) /\ IsFile(call.inum)
        /\ \A s \in Slots : Ents(call.par)[s].name = call.comp =>
             Ents(call.par)[s].ino = call.inum
    BY <1>1 DEF CallInv, OpInv, PathInv, FillInv
  <2>3. i = call.inum
    BY <1>4, <2>2, NameAssumption DEF Resolves, Matches, FirstWith
  <2>4. b # 0 /\ \A j \in Inodes : IsLive(j) => ~Owns(j, b)
    BY <1>4 DEF LowestFreeBlock, DiskInv, RootInv, UsedInv
  <2>5. DiskInv'
    <3>1. \A j \in Inodes : IsLive(j) =>
            /\ j \in ibm'
            /\ \A c \in Blocks : Owns(j, c) => c \in bbm'
      BY <1>1, <1>4 DEF DiskInv, UsedInv
    <3>2. 0 \in bbm'
      BY <1>4 DEF DiskInv, RootInv
    <3>. QED  BY <3>1, <3>2, <1>1, FrameBitmap
  <2>6. IsLive(call.inum)' /\ IsFile(call.inum)'
    BY <1>1, <2>1, <2>2, <2>3 DEF IsLive, Link, IsFile
  <2>7. \A j \in Inodes : IsLive(j)' => ~Owns(j, b)'
    BY <1>1, <2>4, SameLookups
  <2>8. BlockInv' /\ FillInv'
    BY <1>4, <2>1, <2>4, <2>6, <2>7 DEF BlockInv, FillInv
  <2>. QED  BY <1>4, <2>1, <2>2, <2>5, <2>8
            DEF CallInv, OpInv, PathInv, InPath, Making, MakeInv, RemoveInv,
                RenameInv
<1>. QED  BY <1>3, <1>4 DEF FillBlock, MarkedBlock

LEMMA WriteDataInv ==
  ASSUME TypeOK, TypeOK', DiskInv, CallInv, WriteData
  PROVE  DiskInv' /\ CallInv'
<1>1. /\ pc = "wdata" /\ ~Renaming /\ call' = call /\ pc' = "wfinal"
      /\ blk' = [blk EXCEPT ![call.bnum] = DataBlock(call.buf)]
      /\ ibm' = ibm /\ bbm' = bbm /\ itab' = itab /\ cwd' = cwd
  BY DEF WriteData, Renaming, Goto
<1>2. /\ call.op \in {"copy", "write"}
      /\ call.inum \in Inodes /\ call.bnum \in Blocks
  BY <1>1 DEF CallInv, OpInv, TypeOK, Calls
<1>3. /\ call.bnum # 0 /\ call.bnum \in bbm
      /\ \A i \in Inodes : IsLive(i) => ~Owns(i, call.bnum)
      /\ IsLive(call.inum) /\ IsFile(call.inum)
  BY <1>1 DEF CallInv, BlockInv, HasBlock, FillInv, Filling
<1>4. \A s \in Slots : DataBlock(call.buf).ents[s].name \notin Names
  BY NameAssumption DEF DataBlock, ZeroBlock, NoEntry
<1>5. /\ DiskInv'
      /\ \A i \in Inodes : IsLive(i)' <=> IsLive(i)
      /\ \A i \in Inodes, b \in Blocks : IsLive(i) => (Owns(i, b)' <=> Owns(i, b))
  BY <1>1, <1>2, <1>3, <1>4, FrameBlock
<1>6. IsLive(call.inum)' /\ IsFile(call.inum)'
  BY <1>1, <1>2, <1>3, <1>5 DEF IsFile
<1>7. \A i \in Inodes : IsLive(i)' => ~Owns(i, call.bnum)'
  BY <1>1, <1>2, <1>3, <1>5
<1>8. BlockInv' /\ FillInv'
  BY <1>1, <1>3, <1>6, <1>7 DEF BlockInv, FillInv
<1>. QED  BY <1>1, <1>2, <1>5, <1>8
          DEF CallInv, OpInv, PathInv, InPath, Making, MakeInv, RemoveInv,
              RenameInv

LEMMA WriteFinalInv ==
  ASSUME TypeOK, TypeOK', DiskInv, CallInv, WriteFinal
  PROVE  DiskInv' /\ CallInv'
<1>. DEFINE k == call.inum
<1>1. /\ pc = "wfinal" /\ ~Renaming /\ call' = call /\ pc' = "ret"
      /\ itab' = [itab EXCEPT ![k].direct = call.bnum, ![k].size = call.size]
      /\ ibm' = ibm /\ bbm' = bbm /\ blk' = blk /\ cwd' = cwd
  BY DEF WriteFinal, Renaming, Done
<1>2. k \in Inodes /\ call.bnum \in Blocks
  BY DEF TypeOK, Calls
<1>3. /\ call.bnum # 0 /\ call.bnum \in bbm
      /\ \A i \in Inodes : IsLive(i) => ~Owns(i, call.bnum)
      /\ IsLive(k) /\ IsFile(k)
  BY <1>1 DEF CallInv, BlockInv, HasBlock, FillInv, Filling
<1>4. /\ \A i \in Inodes : i # k => itab'[i] = itab[i]
      /\ itab'[k].type = itab[k].type /\ itab'[k].indirect = itab[k].indirect
      /\ itab'[k].direct = call.bnum
  BY <1>1, <1>2 DEF TypeOK, InodeRecords
<1>5. \A i \in Inodes : IsLive(i)' <=> IsLive(i)
  BY <1>1 DEF IsLive, Link
<1>6. \A i \in Inodes : IsDir(i)' <=> IsDir(i)
  BY <1>4 DEF IsDir
<1>7. \A i \in Inodes : IsDir(i) => itab'[i] = itab[i] /\ Ents(i)' = Ents(i)
  BY <1>1, <1>3, <1>4 DEF IsDir, IsFile, Ents
<1>8. \A i \in Inodes, b \in Blocks : Owns(i, b)' =>
        Owns(i, b) \/ (i = k /\ b = call.bnum)
  BY <1>2, <1>4 DEF Owns
<1>9. \A b \in Blocks, s \in Slots : blk[b].ents[s].ino \in Inodes
  BY DEF TypeOK, BlockContents, Dirents
<1>10. RootInv'
  BY <1>1, <1>6, <1>7, Constants DEF RootInv, DiskInv
<1>11. UsedInv'
  <2>1. \A i \in Inodes : itab'[i].type = itab[i].type
    BY <1>4
  <2>. QED  BY <1>1, <1>3, <1>5, <1>8, <2>1 DEF UsedInv, DiskInv
<1>12. LinkInv'
  BY <1>1, <1>5, <1>6, <1>7 DEF LinkInv, DiskInv, Link
<1>13. SingleInv'
  BY <1>1 DEF SingleInv, DiskInv, Link
<1>14. DisjointInv'
  BY <1>3, <1>5, <1>8 DEF DisjointInv, DiskInv
<1>15. DotsInv'
  BY <1>1, <1>5, <1>6, <1>7 DEF DotsInv, DiskInv
<1>16. ParentInv'
  <2>. SUFFICES ASSUME NEW b \in Blocks, NEW s \in Slots, Link(b, s)',
                       IsDir(blk[b].ents[s].ino)'
                PROVE  LET p == Ents(blk[b].ents[s].ino)[2].ino
                       IN  (IsLive(p) /\ IsDir(p) /\ itab[p].direct = b)'
    BY DEF ParentInv
  <2>. DEFINE i == blk[b].ents[s].ino
              p == Ents(i)[2].ino
  <2>1. i \in Inodes /\ i' = i /\ Link(b, s)
    BY <1>1, <1>9 DEF Link
  <2>2. IsDir(i)
    BY <2>1, <1>6
  <2>3. p' = p
    BY <2>1, <2>2, <1>7
  <2>4. IsLive(p) /\ IsDir(p) /\ itab[p].direct = b
    BY <2>1, <2>2 DEF DiskInv, ParentInv
  <2>5. p \in Inodes
    BY <2>1, LookupType, Constants DEF Dirents
  <2>. QED  BY <2>3, <2>4, <2>5, <1>5, <1>6, <1>7
<1>17. CwdInv'
  BY <1>1, <1>5, <1>6 DEF CwdInv, DiskInv, TypeOK
<1>. QED  BY <1>1, <1>10, <1>11, <1>12, <1>13, <1>14, <1>15, <1>16, <1>17, Quiet
          DEF DiskInv

-----------------------------------------------------------------------------
(* The steps that change a name.                                           *)

(* ".." of a linked directory, before and after a step.                    *)
LEMMA ParentOf ==
  ASSUME ParentInv, NEW b \in Blocks, NEW s \in Slots, Link(b, s),
         NEW i, i = blk[b].ents[s].ino, IsDir(i), NEW p, p = Ents(i)[2].ino
  PROVE  IsLive(p) /\ IsDir(p) /\ itab[p].direct = b
BY DEF ParentInv

LEMMA ParentNext ==
  ASSUME TypeOK',
         \A b \in Blocks, s \in Slots, i, p \in Inodes :
           /\ Link(b, s)' /\ i = blk'[b].ents[s].ino /\ IsDir(i)'
           /\ p = Ents(i)'[2].ino
           => IsLive(p)' /\ IsDir(p)' /\ itab'[p].direct = b
  PROVE  ParentInv'
<1>1. ASSUME NEW b \in Blocks, NEW s \in Slots,
             Link(b, s)', IsDir(blk[b].ents[s].ino)'
      PROVE  (LET q == Ents(blk[b].ents[s].ino)[2].ino
              IN  IsLive(q) /\ IsDir(q) /\ itab[q].direct = b)'
  <2>1. PICK i \in Inodes : i = blk'[b].ents[s].ino
    BY DEF TypeOK, BlockContents, Dirents
  <2>2. Ents(i)'[2].ino \in Inodes
    <3>1. itab'[i].direct \in Blocks
      BY DEF TypeOK, InodeRecords
    <3>2. blk'[itab'[i].direct].ents[2] \in Dirents
      BY <3>1, Constants DEF TypeOK, BlockContents
    <3>. QED  BY <3>2 DEF Dirents, Ents
  <2>3. PICK p \in Inodes : p = Ents(i)'[2].ino
    BY <2>2
  <2>4. IsLive(p)' /\ IsDir(p)' /\ itab'[p].direct = b
    BY <1>1, <2>1, <2>3
  <2>5. p = (Ents(blk[b].ents[s].ino)[2].ino)'
    BY <2>1, <2>3 DEF Ents
  <2>. QED  BY <2>4, <2>5
<1>. QED  BY <1>1 DEF ParentInv

(* The blocks with entry u of directory d set to (x, nm), or cleared.      *)
BlkWith(d, u, x, nm) ==
  [blk EXCEPT ![itab[d].direct].ents[u] = [ino |-> x, name |-> nm]]
BlkWithout(d, u) ==
  [blk EXCEPT ![itab[d].direct].ents = [Ents(d) EXCEPT ![u] = NoEntry]]

(* A new name in a live directory, for a node that has none or for the one *)
(* a rename moves.                                                         *)
LEMMA AddLink ==
  ASSUME TypeOK, TypeOK', DiskInv, ~Renaming,
         NEW d \in Inodes, IsLive(d), IsDir(d),
         NEW u \in Slots, Ents(d)[u].name = NoName,
         NEW nm \in Names, NEW x \in Inodes, x # 0,
         blk' = BlkWith(d, u, x, nm),
         ibm' = ibm, bbm' = bbm, itab' = itab, cwd' = cwd,
         x \in ibm, itab[x].type # "none",
         \A b \in Blocks : Owns(x, b) => b \in bbm,
         \A j \in Inodes, b \in Blocks :
           IsLive(j) /\ Owns(j, b) /\ Owns(x, b) => j = x,
         IsDir(x) =>
           /\ itab[x].direct # 0
           /\ blk[itab[x].direct].data = NoChunk
           /\ Ents(x)[1] = [ino |-> x, name |-> Dot]
           /\ Ents(x)[2].name = DotDot
           /\ IsLive(Ents(x)[2].ino) /\ IsDir(Ents(x)[2].ino)
           /\ itab[Ents(x)[2].ino].direct = itab[d].direct,
         ~IsLive(x) \/ (Renaming' /\ call'.tgt = x)
  PROVE  /\ DiskInv'
         /\ \A b \in Blocks, s \in Slots :
              b # itab[d].direct \/ s # u => blk'[b].ents[s] = blk[b].ents[s]
         /\ blk'[itab[d].direct].ents[u] = [ino |-> x, name |-> nm]
         /\ \A i \in Inodes : IsLive(i)' <=> (IsLive(i) \/ i = x)
<1>. DEFINE e == [ino |-> x, name |-> nm]
<1>0. PICK B \in Blocks : B = itab[d].direct
  BY LookupType
<1>1. blk[B].ents[u].name = NoName
  BY <1>0 DEF Ents
<1>2. /\ \A b \in Blocks, s \in Slots :
           b # B \/ s # u => blk'[b].ents[s] = blk[b].ents[s]
      /\ blk'[B].ents[u] = e
      /\ \A b \in Blocks : blk'[b].data = blk[b].data
  BY <1>0 DEF TypeOK, BlockContents, BlkWith
<1>3. e.ino = x /\ e.name = nm
  OBVIOUS
<1>. HIDE DEF e
<1>4. NoName \notin Names /\ Dot # NoName /\ DotDot # NoName
  BY NameAssumption DEF Dot, DotDot, NoName
<1>5. \A b \in Blocks, s \in Slots :
        blk[b].ents[s].name # NoName => blk'[b].ents[s] = blk[b].ents[s]
  BY <1>1, <1>2
<1>6. /\ Link(B, u)' /\ ~Link(B, u) /\ blk'[B].ents[u].ino = x
      /\ \A b \in Blocks, s \in Slots :
           /\ Link(b, s) => Link(b, s)' /\ blk'[b].ents[s].ino = blk[b].ents[s].ino
           /\ Link(b, s)' => \/ Link(b, s)
                             \/ b = B /\ s = u
  <2>1. Link(B, u)' /\ ~Link(B, u) /\ blk'[B].ents[u].ino = x
    BY <1>1, <1>2, <1>3, <1>4 DEF Link
  <2>2. ASSUME NEW b \in Blocks, NEW s \in Slots
        PROVE  /\ Link(b, s) => Link(b, s)' /\ blk'[b].ents[s].ino = blk[b].ents[s].ino
               /\ Link(b, s)' => \/ Link(b, s)
                                 \/ b = B /\ s = u
    <3>1. CASE b = B /\ s = u
      BY <3>1, <2>1
    <3>2. CASE b # B \/ s # u
      BY <3>2, <1>2 DEF Link
    <3>. QED  BY <3>1, <3>2
  <2>. QED  BY <2>1, <2>2
<1>7. \A i \in Inodes : IsLive(i)' <=> (IsLive(i) \/ i = x)
  <2>1. ASSUME NEW i \in Inodes, IsLive(i)' PROVE IsLive(i) \/ i = x
    BY <2>1, <1>6 DEF IsLive
  <2>2. IsLive(x)'
    BY <1>1, <1>6 DEF IsLive
  <2>3. ASSUME NEW i \in Inodes, IsLive(i) PROVE IsLive(i)'
    <3>1. CASE i = 0
      BY <3>1 DEF IsLive
    <3>2. CASE i # 0
      <4>1. PICK b \in Blocks, s \in Slots : Link(b, s) /\ blk[b].ents[s].ino = i
        BY <2>3, <3>2 DEF IsLive
      <4>2. Link(b, s)' /\ blk'[b].ents[s].ino = i
        BY <4>1, <1>6
      <4>. QED  BY <4>2 DEF IsLive
    <3>. QED  BY <3>1, <3>2
  <2>. QED  BY <2>1, <2>2, <2>3
<1>8. /\ \A i \in Inodes : IsDir(i)' <=> IsDir(i)
      /\ \A i \in Inodes, b \in Blocks : Owns(i, b)' <=> Owns(i, b)
  BY DEF IsDir, Owns
<1>9. \A i \in Inodes : (IsLive(i) \/ i = x) /\ IsDir(i) =>
        /\ itab[i].direct # 0
        /\ blk'[itab[i].direct].data = NoChunk
        /\ Ents(i)[1] = [ino |-> i, name |-> Dot] /\ Ents(i)'[1] = Ents(i)[1]
        /\ Ents(i)[2].name = DotDot /\ Ents(i)'[2] = Ents(i)[2]
  <2>. SUFFICES ASSUME NEW i \in Inodes, IsLive(i) \/ i = x, IsDir(i)
                PROVE  /\ itab[i].direct # 0
                       /\ blk'[itab[i].direct].data = NoChunk
                       /\ Ents(i)[1] = [ino |-> i, name |-> Dot]
                       /\ Ents(i)'[1] = Ents(i)[1]
                       /\ Ents(i)[2].name = DotDot /\ Ents(i)'[2] = Ents(i)[2]
    OBVIOUS
  <2>1. /\ itab[i].direct # 0 /\ blk[itab[i].direct].data = NoChunk
        /\ Ents(i)[1] = [ino |-> i, name |-> Dot] /\ Ents(i)[2].name = DotDot
    BY DEF DiskInv, DotsInv
  <2>2. itab[i].direct \in Blocks
    BY LookupType
  <2>3. Ents(i)[1].name = Dot
    BY <2>1
  <2>4. Ents(i)'[1] = Ents(i)[1] /\ Ents(i)'[2] = Ents(i)[2]
    BY <2>1, <2>2, <2>3, <1>4, <1>5, Constants DEF Ents
  <2>. QED  BY <2>1, <2>2, <2>4, <1>2
<1>10. RootInv'
  <2>1. IsLive(0) /\ 0 \in Inodes /\ IsDir(0)
    BY Constants DEF IsLive, DiskInv, RootInv
  <2>2. IsDir(0)' /\ Ents(0)'[2] = Ents(0)[2]
    BY <2>1, <1>8, <1>9
  <2>. QED  BY <2>2 DEF RootInv, DiskInv
<1>11. UsedInv'
  BY <1>7, <1>8 DEF UsedInv, DiskInv
<1>12. LinkInv'
  <2>1. \A b \in Blocks, s \in Slots : Link(b, s)' => blk'[b].ents[s].ino # 0
    BY <1>6 DEF DiskInv, LinkInv
  <2>2. \A b \in Blocks, s \in Slots : Link(b, s)' =>
          \E i \in Inodes : IsLive(i) /\ IsDir(i) /\ itab[i].direct = b
    BY <1>0, <1>6 DEF DiskInv, LinkInv
  <2>. QED  BY <2>1, <2>2, <1>7, <1>8 DEF LinkInv
<1>13. SingleInv'
  <2>. SUFFICES ASSUME NEW b \in Blocks, NEW c \in Blocks, NEW s \in Slots,
                       NEW t \in Slots, Link(b, s)', Link(c, t)',
                       blk'[b].ents[s].ino = blk'[c].ents[t].ino
                PROVE  \/ b = c /\ s = t
                       \/ Renaming' /\ call'.tgt = blk'[b].ents[s].ino
    BY DEF SingleInv
  <2>1. CASE Link(b, s) /\ Link(c, t)
    BY <2>1, <1>6 DEF DiskInv, SingleInv
  <2>2. CASE b = B /\ s = u /\ Link(c, t)
    <3>1. IsLive(x)
      BY <2>2, <1>6 DEF IsLive
    <3>. QED  BY <2>2, <3>1, <1>6
  <2>3. CASE c = B /\ t = u /\ Link(b, s)
    <3>1. IsLive(x)
      BY <2>3, <1>6 DEF IsLive
    <3>. QED  BY <2>3, <3>1, <1>6
  <2>. QED  BY <2>1, <2>2, <2>3, <1>6
<1>14. DisjointInv'
  BY <1>7, <1>8 DEF DisjointInv, DiskInv
<1>15. DotsInv'
  <2>. SUFFICES ASSUME NEW i \in Inodes, IsLive(i)', IsDir(i)'
                PROVE  /\ itab'[i].direct # 0
                       /\ blk'[itab'[i].direct].data = NoChunk
                       /\ Ents(i)'[1] = [ino |-> i, name |-> Dot]
                       /\ Ents(i)'[2].name = DotDot
    BY DEF DotsInv
  <2>1. (IsLive(i) \/ i = x) /\ IsDir(i)
    BY <1>7, <1>8
  <2>. QED  BY <2>1, <1>9
<1>16. ParentInv'
  <2>1. ASSUME NEW b \in Blocks, NEW s \in Slots, NEW i \in Inodes,
               NEW p \in Inodes, Link(b, s)', i = blk'[b].ents[s].ino,
               IsDir(i)', p = Ents(i)'[2].ino
        PROVE  IsLive(p)' /\ IsDir(p)' /\ itab'[p].direct = b
    <3>1. IsDir(i)
      BY <2>1, <1>8
    <3>2. IsLive(i) \/ i = x
      BY <2>1, <1>6 DEF IsLive
    <3>3. p = Ents(i)[2].ino
      BY <2>1, <3>1, <3>2, <1>9
    <3>4. IsLive(p) /\ IsDir(p) /\ itab[p].direct = b
      <4>1. CASE b = B /\ s = u
        <5>1. i = x
          BY <4>1, <2>1, <1>6
        <5>2. p = Ents(x)[2].ino /\ IsDir(x)
          BY <5>1, <3>1, <3>3
        <5>. QED  BY <5>2, <4>1, <1>0
      <4>2. CASE Link(b, s)
        <5>1. i = blk[b].ents[s].ino
          BY <4>2, <2>1, <1>6
        <5>. QED  BY <4>2, <5>1, <3>1, <3>3, ParentOf DEF DiskInv
      <4>. QED  BY <4>1, <4>2, <2>1, <1>6
    <3>. QED  BY <3>4, <1>7, <1>8
  <2>. QED  BY <2>1, ParentNext
<1>17. CwdInv'
  BY <1>7, <1>8 DEF CwdInv, DiskInv, TypeOK
<1>18. DiskInv'
  BY <1>10, <1>11, <1>12, <1>13, <1>14, <1>15, <1>16, <1>17 DEF DiskInv
<1>. QED  BY <1>0, <1>2, <1>7, <1>18 DEF e

(* A step that leaves every block's entries alone, or only adds one.       *)
LEMMA LinksKept ==
  ASSUME \A b \in Blocks, s \in Slots :
           Link(b, s) => Link(b, s)' /\ blk'[b].ents[s].ino = blk[b].ents[s].ino
  PROVE  \A i \in Inodes : IsLive(i) => IsLive(i)'
<1>. SUFFICES ASSUME NEW i \in Inodes, IsLive(i), i # 0 PROVE IsLive(i)'
  BY DEF IsLive
<1>1. PICK b \in Blocks, s \in Slots : Link(b, s) /\ blk[b].ents[s].ino = i
  BY DEF IsLive
<1>2. Link(b, s)' /\ blk'[b].ents[s].ino = i
  BY <1>1
<1>. QED  BY <1>2 DEF IsLive

(* A component is stored as a component.                                   *)
LEMMA StoredName == ASSUME NEW n \in Names PROVE Stored(n) \in Names
BY NameAssumption DEF Stored

(* The first half of a rename gives the node its second name.              *)
LEMMA RenameAddInv ==
  ASSUME TypeOK, TypeOK', DiskInv, CallInv, pc = "addent", call.op = "rename",
         NEW u \in Slots, Matches(call.par2, NoName, u),
         blk' = [blk EXCEPT ![itab[call.par2].direct].ents[u] =
                   [ino |-> call.tgt, name |-> Stored(call.comp2)]],
         pc' = "rment", call' = call,
         ibm' = ibm, bbm' = bbm, itab' = itab, cwd' = cwd
  PROVE  DiskInv' /\ CallInv'
<1>1. /\ call.par2 \in Inodes /\ call.par \in Inodes /\ call.tgt \in Inodes
      /\ call.comp2 \in Comps /\ call.comp \in Comps /\ ~Renaming
  BY DEF TypeOK, Calls, Renaming
<1>a. PICK d \in Inodes, p \in Inodes, x \in Inodes :
        d = call.par2 /\ p = call.par /\ x = call.tgt
  BY <1>1
<1>7. PICK P \in Blocks, B \in Blocks : P = itab[p].direct /\ B = itab[d].direct
  BY LookupType
<1>2. IsDir(d) /\ Ents(d)[u].name = NoName
  BY <1>a DEF Matches, FirstWith
<1>3. IsLive(d) /\ IsLive(p)
  BY <1>a DEF CallInv, PathInv, InPath
<1>4. call.comp \in Names /\ ~Found(d, call.comp2) /\ (IsDir(x) => d = p)
  BY <1>a DEF CallInv, RenameInv
<1>5. PICK s \in Slots : Matches(p, call.comp, s) /\ Ents(p)[s].ino = x
  BY <1>a DEF CallInv, RenameInv
<1>b. Stored(call.comp2) \in Names
  BY <1>1, <1>2, <1>3, <1>4, AbsentIsProper, StoredName
<1>6. PICK nm \in Names : nm = Stored(call.comp2)
  BY <1>b
<1>8. Link(P, s) /\ blk[P].ents[s].ino = x /\ blk[P].ents[s].name = call.comp
  BY <1>4, <1>5, <1>7 DEF Link, Matches, FirstWith, Ents
<1>9. IsLive(x) /\ x # 0
  BY <1>7, <1>8 DEF IsLive, DiskInv, LinkInv
<1>10. /\ x \in ibm /\ itab[x].type # "none"
       /\ \A b \in Blocks : Owns(x, b) => b \in bbm
       /\ \A j \in Inodes, b \in Blocks :
            IsLive(j) /\ Owns(j, b) /\ Owns(x, b) => j = x
  BY <1>1, <1>9 DEF DiskInv, UsedInv, DisjointInv
<1>11. IsDir(x) =>
         /\ itab[x].direct # 0
         /\ blk[itab[x].direct].data = NoChunk
         /\ Ents(x)[1] = [ino |-> x, name |-> Dot]
         /\ Ents(x)[2].name = DotDot
         /\ IsLive(Ents(x)[2].ino) /\ IsDir(Ents(x)[2].ino)
         /\ itab[Ents(x)[2].ino].direct = B
  <2>. SUFFICES ASSUME IsDir(x)
                PROVE  /\ itab[x].direct # 0
                       /\ blk[itab[x].direct].data = NoChunk
                       /\ Ents(x)[1] = [ino |-> x, name |-> Dot]
                       /\ Ents(x)[2].name = DotDot
                       /\ IsLive(Ents(x)[2].ino) /\ IsDir(Ents(x)[2].ino)
                       /\ itab[Ents(x)[2].ino].direct = B
    OBVIOUS
  <2>1. /\ itab[x].direct # 0
        /\ blk[itab[x].direct].data = NoChunk
        /\ Ents(x)[1] = [ino |-> x, name |-> Dot]
        /\ Ents(x)[2].name = DotDot
    BY <1>1, <1>9 DEF DiskInv, DotsInv
  <2>2. /\ IsLive(Ents(x)[2].ino) /\ IsDir(Ents(x)[2].ino)
        /\ itab[Ents(x)[2].ino].direct = P
    BY <1>7, <1>8, ParentOf DEF DiskInv
  <2>. QED  BY <2>1, <2>2, <1>4, <1>7
<1>12. Renaming' /\ call'.tgt = x
  BY <1>a DEF Renaming
<1>13. /\ DiskInv'
       /\ \A b \in Blocks, t \in Slots :
            b # B \/ t # u => blk'[b].ents[t] = blk[b].ents[t]
       /\ blk'[B].ents[u] = [ino |-> x, name |-> nm]
       /\ \A i \in Inodes : IsLive(i)' <=> (IsLive(i) \/ i = x)
  <2>1. blk' = BlkWith(d, u, x, nm)
    BY <1>a, <1>6 DEF BlkWith
  <2>2. IsDir(x) => /\ itab[x].direct # 0
         /\ blk[itab[x].direct].data = NoChunk
         /\ Ents(x)[1] = [ino |-> x, name |-> Dot]
         /\ Ents(x)[2].name = DotDot
         /\ IsLive(Ents(x)[2].ino) /\ IsDir(Ents(x)[2].ino)
         /\ itab[Ents(x)[2].ino].direct = itab[d].direct
    BY <1>7, <1>11
  <2>3. /\ DiskInv'
        /\ \A b \in Blocks, t \in Slots :
             b # itab[d].direct \/ t # u => blk'[b].ents[t] = blk[b].ents[t]
        /\ blk'[itab[d].direct].ents[u] = [ino |-> x, name |-> nm]
        /\ \A i \in Inodes : IsLive(i)' <=> (IsLive(i) \/ i = x)
    BY <1>1, <1>2, <1>3, <1>9, <1>10, <1>12, <2>1, <2>2, AddLink
  <2>. QED  BY <2>3, <1>7
<1>14. blk'[B].ents[u].ino = x /\ blk'[B].ents[u].name = nm
  BY <1>13
<1>15. blk[B].ents[u].name = NoName /\ NoName \notin Names
  BY <1>2, <1>7, NameAssumption DEF Ents
<1>16. P # B \/ s # u
  BY <1>8, <1>15 DEF Link
<1>17. PathInv'
  <2>1. IsLive(call.par)'
    BY <1>a, <1>3, <1>13
  <2>. QED  BY <2>1 DEF PathInv, Making
<1>18. RenameInv'
  <2>1. \E t \in Slots : /\ IsDir(p)' /\ FirstWith(blk'[P].ents, call.comp, t)
                         /\ blk'[P].ents[t].ino = x
    <3>1. IsDir(p) /\ FirstWith(blk[P].ents, call.comp, s)
      BY <1>5, <1>7 DEF Matches, Ents
    <3>2. IsDir(p)'
      BY <3>1 DEF IsDir
    <3>3. CASE P = B /\ nm = call.comp /\ u < s
      <4>1. FirstWith(blk'[P].ents, call.comp, u)
        <5>1. blk'[P].ents[u].name = call.comp
          BY <3>3, <1>14
        <5>2. ASSUME NEW t \in Slots, t < u PROVE blk'[P].ents[t].name # call.comp
          <6>1. t < s /\ t # u
            BY <3>3, <5>2, SizeAssumption DEF Slots
          <6>. QED  BY <6>1, <3>1, <1>7, <1>13 DEF FirstWith
        <5>. QED  BY <5>1, <5>2 DEF FirstWith
      <4>. QED  BY <4>1, <3>2, <3>3, <1>14
    <3>4. CASE ~(P = B /\ nm = call.comp /\ u < s)
      <4>1. blk'[P].ents[s] = blk[P].ents[s]
        BY <1>7, <1>13, <1>16
      <4>2. ASSUME NEW t \in Slots, t < s PROVE blk'[P].ents[t].name # call.comp
        <5>1. CASE P = B /\ t = u
          BY <5>1, <4>2, <3>4, <1>14
        <5>2. CASE ~(P = B /\ t = u)
          BY <5>2, <4>2, <3>1, <1>7, <1>13 DEF FirstWith
        <5>. QED  BY <5>1, <5>2
      <4>3. FirstWith(blk'[P].ents, call.comp, s)
        BY <4>1, <4>2, <3>1 DEF FirstWith
      <4>. QED  BY <4>1, <4>3, <3>2, <1>8
    <3>. QED  BY <3>3, <3>4
  <2>2. (\E t \in Slots : /\ Matches(call.par, call.comp, t)
                          /\ Ents(call.par)[t].ino = call.tgt)'
    BY <2>1, <1>a, <1>7 DEF Matches, Ents, IsDir
  <2>3. /\ Link(P, s)' /\ Link(B, u)' /\ (P # B \/ s # u)
        /\ blk'[P].ents[s].ino = x /\ blk'[B].ents[u].ino = x
    BY <1>6, <1>7, <1>8, <1>13, <1>14, <1>16 DEF Link
  <2>4. ASSUME NEW e \in Blocks, NEW v \in Slots, Link(e, v)',
               blk'[e].ents[v].ino = x
        PROVE  (e = P /\ v = s) \/ (e = B /\ v = u)
    <3>1. CASE e = B /\ v = u
      BY <3>1
    <3>2. CASE e # B \/ v # u
      <4>1. Link(e, v) /\ blk[e].ents[v].ino = x
        BY <3>2, <2>4, <1>13 DEF Link
      <4>. QED  BY <4>1, <1>1, <1>7, <1>8 DEF DiskInv, SingleInv
    <3>. QED  BY <3>1, <3>2
  <2>5. \E b, c \in Blocks, v, w \in Slots :
          /\ Link(b, v)' /\ Link(c, w)' /\ (b # c \/ v # w)
          /\ blk'[b].ents[v].ino = call'.tgt /\ blk'[c].ents[w].ino = call'.tgt
          /\ \A e \in Blocks, z \in Slots :
               Link(e, z)' /\ blk'[e].ents[z].ino = call'.tgt =>
                 (e = b /\ z = v) \/ (e = c /\ z = w)
    <3>1. \A e \in Blocks, z \in Slots :
            Link(e, z)' /\ blk'[e].ents[z].ino = call'.tgt =>
              (e = P /\ z = s) \/ (e = B /\ z = u)
      BY <2>4, <1>12
    <3>2. blk'[P].ents[s].ino = call'.tgt /\ blk'[B].ents[u].ino = call'.tgt
      BY <2>3, <1>12
    <3>. WITNESS P \in Blocks, B \in Blocks, s \in Slots, u \in Slots
    <3>. QED  BY <3>1, <3>2, <2>3
  <2>6. call'.comp \in Names /\ pc' = "rment"
    BY <1>4
  <2>. QED  BY <2>2, <2>5, <2>6, Zenon DEF RenameInv
<1>. QED  BY <1>13, <1>17, <1>18
          DEF CallInv, OpInv, Making, Filling, HasBlock, MakeInv, BlockInv,
              FillInv, RemoveInv

(* A node that was made gets its name.                                     *)
LEMMA MakeAddInv ==
  ASSUME TypeOK, TypeOK', DiskInv, CallInv, pc = "addent",
         call.op \in {"mkdir", "create", "copy", "write"},
         NEW u \in Slots, Matches(call.par, NoName, u),
         blk' = [blk EXCEPT ![itab[call.par].direct].ents[u] =
                   [ino |-> call.inum, name |-> Stored(call.comp)]],
         pc' = (IF call.op \in {"copy", "write"} THEN "fill" ELSE "ret"),
         call' = call, ibm' = ibm, bbm' = bbm, itab' = itab, cwd' = cwd
  PROVE  DiskInv' /\ CallInv'
<1>1. /\ call.par \in Inodes /\ call.inum \in Inodes /\ call.bnum \in Blocks
      /\ ~Renaming /\ Making
  BY DEF TypeOK, Calls, Renaming, Making
<1>a. PICK d \in Inodes, x \in Inodes : d = call.par /\ x = call.inum
  BY <1>1
<1>b. PICK B \in Blocks : B = itab[d].direct
  BY LookupType
<1>2. Ents(d)[u].name = NoName
  BY <1>a DEF Matches, FirstWith
<1>3. /\ IsLive(d) /\ IsDir(d) /\ call.comp \in Names
      /\ x \in ibm /\ ~IsLive(x)
      /\ \A s \in Slots : Ents(d)[s].name # call.comp
  BY <1>1, <1>a DEF CallInv, PathInv, InPath, MakeInv
<1>4. x # 0 /\ Stored(call.comp) \in Names
  BY <1>3, StoredName DEF IsLive
<1>c. PICK nm \in Names : nm = Stored(call.comp)
  BY <1>4
<1>d. blk' = BlkWith(d, u, x, nm)
  BY <1>a, <1>c DEF BlkWith
<1>5. CASE call.op = "mkdir"
  <2>1. /\ itab[x] = [ZeroInode EXCEPT !.type = "dir", !.direct = call.bnum]
        /\ blk[call.bnum] = NewDirBlock(x, d)
    BY <1>5, <1>a DEF CallInv, MakeInv
  <2>2. /\ call.bnum # 0 /\ call.bnum \in bbm
        /\ \A i \in Inodes : IsLive(i) => ~Owns(i, call.bnum)
    BY <1>5 DEF CallInv, BlockInv, HasBlock
  <2>3. /\ itab[x].type = "dir" /\ itab[x].direct = call.bnum
        /\ itab[x].indirect = <<>>
    BY <2>1 DEF ZeroInode
  <2>4. \A b \in Blocks : Owns(x, b) => b = call.bnum
    BY <2>3 DEF Owns
  <2>5. /\ Ents(x)[1] = [ino |-> x, name |-> Dot]
        /\ Ents(x)[2] = [ino |-> d, name |-> DotDot]
        /\ blk[itab[x].direct].data = NoChunk
    <3>1. /\ NewDirBlock(x, d).ents[1] = [ino |-> x, name |-> Dot]
          /\ NewDirBlock(x, d).ents[2] = [ino |-> d, name |-> DotDot]
          /\ NewDirBlock(x, d).data = NoChunk
      BY Constants DEF NewDirBlock, ZeroBlock
    <3>. QED  BY <3>1, <2>1, <2>3 DEF Ents
  <2>6. Ents(x)[2].name = DotDot /\ Ents(x)[2].ino = d
    BY <2>5
  <2>7. /\ itab[x].direct # 0
        /\ blk[itab[x].direct].data = NoChunk
        /\ Ents(x)[1] = [ino |-> x, name |-> Dot]
        /\ Ents(x)[2].name = DotDot
        /\ IsLive(Ents(x)[2].ino) /\ IsDir(Ents(x)[2].ino)
        /\ itab[Ents(x)[2].ino].direct = itab[d].direct
    BY <1>3, <2>2, <2>3, <2>5, <2>6
  <2>8. /\ x \in ibm /\ itab[x].type # "none"
        /\ \A b \in Blocks : Owns(x, b) => b \in bbm
        /\ \A j \in Inodes, b \in Blocks :
             IsLive(j) /\ Owns(j, b) /\ Owns(x, b) => j = x
    BY <1>3, <2>2, <2>3, <2>4
  <2>9. DiskInv'
    BY <1>1, <1>2, <1>3, <1>4, <1>d, <2>7, <2>8, AddLink
  <2>. QED  BY <2>9, <1>5, Quiet
<1>6. CASE call.op # "mkdir"
  <2>1. itab[x] = [ZeroInode EXCEPT !.type = "file"]
    BY <1>6, <1>a DEF CallInv, MakeInv
  <2>2. itab[x].type = "file" /\ itab[x].direct = 0 /\ itab[x].indirect = <<>>
    BY <2>1 DEF ZeroInode
  <2>3. \A b \in Blocks : ~Owns(x, b)
    BY <2>2 DEF Owns
  <2>4. ~IsDir(x) /\ IsFile(x)
    BY <2>2 DEF IsDir, IsFile
  <2>5. /\ DiskInv'
        /\ \A b \in Blocks, s \in Slots :
             b # itab[d].direct \/ s # u => blk'[b].ents[s] = blk[b].ents[s]
        /\ blk'[itab[d].direct].ents[u] = [ino |-> x, name |-> nm]
        /\ IsLive(x)' /\ \A i \in Inodes : IsLive(i) => IsLive(i)'
    <3>1. /\ x \in ibm /\ itab[x].type # "none"
          /\ \A b \in Blocks : Owns(x, b) => b \in bbm
          /\ \A j \in Inodes, b \in Blocks :
               IsLive(j) /\ Owns(j, b) /\ Owns(x, b) => j = x
      BY <1>3, <2>2, <2>3
    <3>2. IsDir(x) =>
            /\ itab[x].direct # 0
            /\ blk[itab[x].direct].data = NoChunk
            /\ Ents(x)[1] = [ino |-> x, name |-> Dot]
            /\ Ents(x)[2].name = DotDot
            /\ IsLive(Ents(x)[2].ino) /\ IsDir(Ents(x)[2].ino)
            /\ itab[Ents(x)[2].ino].direct = itab[d].direct
      BY <2>4
    <3>3. DiskInv'
      BY <1>1, <1>2, <1>3, <1>4, <1>d, <3>1, <3>2, AddLink
    <3>5. /\ \A b \in Blocks, s \in Slots :
               b # itab[d].direct \/ s # u => blk'[b].ents[s] = blk[b].ents[s]
          /\ blk'[itab[d].direct].ents[u] = [ino |-> x, name |-> nm]
      BY <1>1, <1>2, <1>3, <1>4, <1>d, <3>1, <3>2, AddLink
    <3>6. IsLive(x)'
      <4>1. [ino |-> x, name |-> nm].name \in Names /\ [ino |-> x, name |-> nm].ino = x
        OBVIOUS
      <4>2. Link(B, u)' /\ blk'[B].ents[u].ino = x
        BY <4>1, <3>5, <1>b DEF Link
      <4>. QED  BY <4>2 DEF IsLive
    <3>7. \A i \in Inodes : IsLive(i) => IsLive(i)'
      <4>1. blk[B].ents[u].name = NoName /\ NoName \notin Names
        BY <1>2, <1>b, NameAssumption DEF Ents
      <4>2. \A b \in Blocks, s \in Slots :
              Link(b, s) => Link(b, s)' /\ blk'[b].ents[s].ino = blk[b].ents[s].ino
        BY <4>1, <3>5, <1>b DEF Link
      <4>. QED  BY <4>2, LinksKept
    <3>. QED  BY <3>3, <3>5, <3>6, <3>7
  <2>6. CASE pc' = "ret"
    BY <2>5, <2>6, Quiet
  <2>7. CASE call.op \in {"copy", "write"} /\ pc' = "fill"
    <3>1. IsLive(call.inum)' /\ IsLive(call.par)' /\ IsFile(call.inum)'
          /\ IsDir(call.par)'
      BY <1>a, <1>3, <2>4, <2>5 DEF IsFile, IsDir
    <3>2. ASSUME NEW s \in Slots, blk'[B].ents[s].name = call.comp
          PROVE  blk'[B].ents[s].ino = x
      <4>1. CASE s = u
        BY <4>1, <2>5, <1>b
      <4>2. CASE s # u
        <5>1. blk[B].ents[s].name = call.comp
          BY <4>2, <3>2, <2>5, <1>b
        <5>. QED  BY <5>1, <1>b, <1>3 DEF Ents
      <4>. QED  BY <4>1, <4>2
    <3>3. FillInv'
      BY <3>1, <3>2, <2>7, <1>a, <1>b DEF FillInv, Filling, Ents
    <3>4. PathInv'
      BY <3>1, <2>7, <1>3 DEF PathInv, Making
    <3>. QED  BY <2>5, <2>7, <3>3, <3>4
              DEF CallInv, OpInv, Making, Filling, HasBlock, MakeInv, BlockInv,
                  RemoveInv, RenameInv
  <2>. QED  BY <2>6, <2>7
<1>. QED  BY <1>5, <1>6

(* No room in the directory: the disk is as before and the call backs out. *)
LEMMA AddFailedInv ==
  ASSUME TypeOK, TypeOK', DiskInv, CallInv, pc = "addent", AddFailed,
         call' = call, ibm' = ibm, bbm' = bbm, itab' = itab, blk' = blk, cwd' = cwd
  PROVE  DiskInv' /\ CallInv'
<1>1. ~Renaming /\ UNCHANGED disk
  BY DEF Renaming, disk
<1>2. IsLive(cwd') /\ IsDir(cwd')
  BY DEF DiskInv, CwdInv
<1>3. DiskInv'
  BY <1>1, <1>2, SameDisk
<1>4. CASE call.op = "rename"
  <2>1. pc' = "ret"
    BY <1>4 DEF AddFailed, Done
  <2>. QED  BY <2>1, <1>3, Quiet
<1>5. CASE call.op # "rename"
  <2>1. pc' = IF call.op = "mkdir" THEN "undoblk" ELSE "undoino"
    BY <1>5 DEF AddFailed, Goto
  <2>2. /\ call.op \in {"mkdir", "create", "copy", "write"} /\ Making
        /\ call.inum \in Inodes /\ call.par \in Inodes
    BY <1>5 DEF CallInv, OpInv, Making, TypeOK, Calls
  <2>3. /\ IsLive(call.par) /\ IsDir(call.par) /\ call.comp \in Names
        /\ call.inum \in ibm /\ ~IsLive(call.inum)
    BY <2>2 DEF CallInv, PathInv, InPath, MakeInv
  <2>4. IsLive(call.par)' /\ IsDir(call.par)' /\ ~IsLive(call.inum)'
    BY <2>3 DEF IsLive, Link, IsDir
  <2>5. PathInv'
    BY <2>1, <2>3, <2>4 DEF PathInv, InPath, Making
  <2>6. MakeInv'
    BY <2>1, <2>2, <2>3, <2>4 DEF CallInv, MakeInv, Making
  <2>7. BlockInv'
    <3>1. CASE call.op = "mkdir"
      <4>1. /\ call.bnum # 0 /\ call.bnum \in bbm
            /\ \A i \in Inodes : IsLive(i) => ~Owns(i, call.bnum)
        BY <3>1 DEF CallInv, BlockInv, HasBlock
      <4>2. \A i \in Inodes : IsLive(i)' => ~Owns(i, call.bnum)'
        BY <4>1 DEF IsLive, Link, Owns
      <4>. QED  BY <4>1, <4>2 DEF BlockInv
    <3>2. CASE call.op # "mkdir"
      BY <3>2, <2>1 DEF BlockInv, HasBlock, Filling
    <3>. QED  BY <3>1, <3>2
  <2>. QED  BY <2>1, <2>2, <2>5, <2>6, <2>7, <1>3
            DEF CallInv, OpInv, Filling, FillInv, RemoveInv, RenameInv
<1>. QED  BY <1>4, <1>5

LEMMA AddDirentInv ==
  ASSUME TypeOK, TypeOK', DiskInv, CallInv, AddDirent
  PROVE  DiskInv' /\ CallInv'
<1>1. /\ pc = "addent" /\ call' = call /\ ibm' = ibm /\ bbm' = bbm
      /\ itab' = itab /\ cwd' = cwd
  BY DEF AddDirent
<1>2. CASE AddFailed /\ blk' = blk
  BY <1>1, <1>2, AddFailedInv
<1>3. CASE call.op = "rename" /\ ~(AddFailed /\ blk' = blk)
  <2>1. \E u \in Slots :
          /\ Matches(call.par2, NoName, u)
          /\ blk' = [blk EXCEPT ![itab[call.par2].direct].ents[u] =
                       [ino |-> call.tgt, name |-> Stored(call.comp2)]]
    BY <1>3 DEF AddDirent
  <2>2. pc' = "rment"
    BY <1>3 DEF AddDirent, Goto
  <2>. QED  BY <2>1, <2>2, <1>1, <1>3, RenameAddInv
<1>4. CASE call.op # "rename" /\ ~(AddFailed /\ blk' = blk)
  <2>1. \E u \in Slots :
          /\ Matches(call.par, NoName, u)
          /\ blk' = [blk EXCEPT ![itab[call.par].direct].ents[u] =
                       [ino |-> call.inum, name |-> Stored(call.comp)]]
    BY <1>4 DEF AddDirent
  <2>2. pc' = IF call.op \in {"copy", "write"} THEN "fill" ELSE "ret"
    BY <1>4 DEF AddDirent, Goto, Done
  <2>3. call.op \in {"mkdir", "create", "copy", "write"}
    BY <1>1, <1>4 DEF CallInv, OpInv
  <2>. QED  BY <2>1, <2>2, <2>3, <1>1, MakeAddInv
<1>. QED  BY <1>2, <1>3, <1>4

(* Removing entry u of directory d takes away that one link.               *)
LEMMA EntryRemoved ==
  ASSUME TypeOK, NEW d \in Inodes, NEW u \in Slots,
         blk' = BlkWithout(d, u)
  PROVE  /\ \A b \in Blocks, s \in Slots :
              b # itab[d].direct \/ s # u => blk'[b].ents[s] = blk[b].ents[s]
         /\ \A b \in Blocks : blk'[b].data = blk[b].data
         /\ \A b \in Blocks, s \in Slots :
              Link(b, s)' <=> Link(b, s) /\ (b # itab[d].direct \/ s # u)
<1>. DEFINE B == itab[d].direct
<1>1. B \in Blocks /\ Ents(d) = blk[B].ents
  BY LookupType DEF Ents
<1>2. /\ \A b \in Blocks, s \in Slots :
           b # B \/ s # u => blk'[b].ents[s] = blk[b].ents[s]
      /\ blk'[B].ents[u] = NoEntry
      /\ \A b \in Blocks : blk'[b].data = blk[b].data
  BY <1>1 DEF TypeOK, BlockContents, BlkWithout
<1>3. NoEntry.name \notin Names
  BY NameAssumption DEF NoEntry
<1>. HIDE DEF B
<1>4. ASSUME NEW b \in Blocks, NEW s \in Slots
      PROVE  Link(b, s)' <=> Link(b, s) /\ (b # B \/ s # u)
  <2>1. CASE b = B /\ s = u
    BY <2>1, <1>2, <1>3 DEF Link
  <2>2. CASE b # B \/ s # u
    BY <2>2, <1>2 DEF Link
  <2>. QED  BY <2>1, <2>2
<1>. QED  BY <1>2, <1>4 DEF B

(* Taking away a link keeps the disk sound when what loses its last name   *)
(* is neither the current directory nor a directory with entries.          *)
LEMMA RemoveLink ==
  ASSUME TypeOK, TypeOK', DiskInv,
         NEW d \in Inodes, NEW u \in Slots, Ents(d)[u].name \in Names,
         blk' = BlkWithout(d, u),
         ibm' = ibm, bbm' = bbm, itab' = itab, cwd' = cwd,
         SingleInv',
         \A i \in Inodes : IsLive(i) /\ ~IsLive(i)' =>
           i # cwd /\ (IsDir(i) => EmptyDir(i))
  PROVE  DiskInv'
<1>. DEFINE B == itab[d].direct
<1>1. /\ \A b \in Blocks, s \in Slots :
           b # B \/ s # u => blk'[b].ents[s] = blk[b].ents[s]
      /\ \A b \in Blocks : blk'[b].data = blk[b].data
      /\ \A b \in Blocks, s \in Slots :
           Link(b, s)' <=> Link(b, s) /\ (b # B \/ s # u)
  BY EntryRemoved
<1>2. B \in Blocks /\ blk[B].ents[u].name \in Names
  BY LookupType DEF Ents
<1>. HIDE DEF B
<1>3. \A b \in Blocks, s \in Slots :
        blk[b].ents[s].name \notin Names => blk'[b].ents[s] = blk[b].ents[s]
  BY <1>1, <1>2
<1>4. \A i \in Inodes : IsLive(i)' => IsLive(i)
  <2>. SUFFICES ASSUME NEW i \in Inodes, IsLive(i)', i # 0 PROVE IsLive(i)
    BY DEF IsLive
  <2>1. PICK b \in Blocks, s \in Slots : Link(b, s)' /\ blk'[b].ents[s].ino = i
    BY DEF IsLive
  <2>2. Link(b, s) /\ blk[b].ents[s].ino = i
    BY <2>1, <1>1
  <2>. QED  BY <2>2 DEF IsLive
<1>5. /\ \A i \in Inodes : IsDir(i)' <=> IsDir(i)
      /\ \A i \in Inodes, b \in Blocks : Owns(i, b)' <=> Owns(i, b)
  BY DEF IsDir, Owns
<1>6. \A i \in Inodes : IsLive(i) /\ IsDir(i) =>
        /\ itab[i].direct # 0
        /\ blk'[itab[i].direct].data = NoChunk
        /\ Ents(i)[1] = [ino |-> i, name |-> Dot] /\ Ents(i)'[1] = Ents(i)[1]
        /\ Ents(i)[2].name = DotDot /\ Ents(i)'[2] = Ents(i)[2]
  <2>. SUFFICES ASSUME NEW i \in Inodes, IsLive(i), IsDir(i)
                PROVE  /\ itab[i].direct # 0
                       /\ blk'[itab[i].direct].data = NoChunk
                       /\ Ents(i)[1] = [ino |-> i, name |-> Dot]
                       /\ Ents(i)'[1] = Ents(i)[1]
                       /\ Ents(i)[2].name = DotDot /\ Ents(i)'[2] = Ents(i)[2]
    OBVIOUS
  <2>1. /\ itab[i].direct # 0 /\ blk[itab[i].direct].data = NoChunk
        /\ Ents(i)[1] = [ino |-> i, name |-> Dot] /\ Ents(i)[2].name = DotDot
    BY DEF DiskInv, DotsInv
  <2>2. itab[i].direct \in Blocks
    BY LookupType
  <2>3. Ents(i)[1].name = Dot
    BY <2>1
  <2>4. Ents(i)'[1] = Ents(i)[1] /\ Ents(i)'[2] = Ents(i)[2]
    BY <2>1, <2>2, <2>3, <1>3, NameAssumption, Constants DEF Ents
  <2>. QED  BY <2>1, <2>2, <2>4, <1>1
(* A directory that holds a link stays live. *)
<1>7. \A i \in Inodes, b \in Blocks, s \in Slots :
        IsLive(i) /\ IsDir(i) /\ itab[i].direct = b /\ Link(b, s) => IsLive(i)'
  BY NameAssumption DEF EmptyDir, Ents, Link
<1>8. RootInv'
  <2>1. IsLive(0) /\ 0 \in Inodes /\ IsDir(0)
    BY Constants DEF IsLive, DiskInv, RootInv
  <2>2. IsDir(0)' /\ Ents(0)'[2] = Ents(0)[2]
    BY <2>1, <1>5, <1>6
  <2>. QED  BY <2>2 DEF RootInv, DiskInv
<1>9. UsedInv'
  BY <1>4, <1>5 DEF UsedInv, DiskInv
<1>10. LinkInv'
  <2>. SUFFICES ASSUME NEW b \in Blocks, NEW s \in Slots, Link(b, s)'
                PROVE  /\ blk'[b].ents[s].ino # 0
                       /\ \E i \in Inodes :
                            IsLive(i)' /\ IsDir(i)' /\ itab'[i].direct = b
    BY DEF LinkInv
  <2>1. Link(b, s) /\ blk'[b].ents[s] = blk[b].ents[s]
    BY <1>1
  <2>2. blk[b].ents[s].ino # 0
    BY <2>1 DEF DiskInv, LinkInv
  <2>3. PICK i \in Inodes : IsLive(i) /\ IsDir(i) /\ itab[i].direct = b
    BY <2>1 DEF DiskInv, LinkInv
  <2>. QED  BY <2>1, <2>2, <2>3, <1>5, <1>7
<1>11. DisjointInv'
  BY <1>4, <1>5 DEF DisjointInv, DiskInv
<1>12. DotsInv'
  <2>. SUFFICES ASSUME NEW i \in Inodes, IsLive(i)', IsDir(i)'
                PROVE  /\ itab'[i].direct # 0
                       /\ blk'[itab'[i].direct].data = NoChunk
                       /\ Ents(i)'[1] = [ino |-> i, name |-> Dot]
                       /\ Ents(i)'[2].name = DotDot
    BY DEF DotsInv
  <2>1. IsLive(i) /\ IsDir(i)
    BY <1>4, <1>5
  <2>. QED  BY <2>1, <1>6
<1>13. ParentInv'
  <2>1. ASSUME NEW b \in Blocks, NEW s \in Slots, NEW i \in Inodes,
               NEW p \in Inodes, Link(b, s)', i = blk'[b].ents[s].ino,
               IsDir(i)', p = Ents(i)'[2].ino
        PROVE  IsLive(p)' /\ IsDir(p)' /\ itab'[p].direct = b
    <3>1. Link(b, s) /\ i = blk[b].ents[s].ino
      BY <2>1, <1>1
    <3>2. IsDir(i) /\ IsLive(i)
      BY <2>1, <3>1, <1>5 DEF IsLive
    <3>3. p = Ents(i)[2].ino
      BY <2>1, <3>2, <1>6
    <3>4. IsLive(p) /\ IsDir(p) /\ itab[p].direct = b
      BY <3>1, <3>2, <3>3, ParentOf DEF DiskInv
    <3>. QED  BY <3>1, <3>4, <1>5, <1>7
  <2>. QED  BY <2>1, ParentNext
<1>14. CwdInv'
  BY <1>5 DEF CwdInv, DiskInv, TypeOK
<1>. QED  BY <1>8, <1>9, <1>10, <1>11, <1>12, <1>13, <1>14 DEF DiskInv

(* The second half of a rename takes the old name away.                    *)
LEMMA RenameRemoveInv ==
  ASSUME TypeOK, TypeOK', DiskInv, CallInv, pc = "rment", call.op = "rename",
         NEW u \in Slots, Matches(call.par, call.comp, u),
         blk' = BlkWithout(call.par, u),
         ibm' = ibm, bbm' = bbm, itab' = itab, cwd' = cwd
  PROVE  /\ DiskInv'
         /\ \A i \in Inodes : IsLive(i) => IsLive(i)'
<1>1. PICK d \in Inodes, x \in Inodes : d = call.par /\ x = call.tgt
  BY DEF TypeOK, Calls
<1>2. PICK B \in Blocks : B = itab[d].direct
  BY LookupType
<1>3. call.comp \in Names
  BY DEF CallInv, RenameInv
<1>4. Ents(d)[u].name = call.comp /\ Ents(d)[u].ino = x
  <2>1. PICK s \in Slots : Matches(d, call.comp, s) /\ Ents(d)[s].ino = x
    BY <1>1 DEF CallInv, RenameInv
  <2>2. s = u
    BY <2>1, <1>1, FirstUnique DEF Matches
  <2>. QED  BY <2>1, <2>2 DEF Matches, FirstWith
<1>5. Link(B, u) /\ blk[B].ents[u].ino = x
  BY <1>2, <1>3, <1>4 DEF Link, Ents
<1>6. /\ \A b \in Blocks, s \in Slots :
           b # B \/ s # u => blk'[b].ents[s] = blk[b].ents[s]
      /\ \A b \in Blocks, s \in Slots :
           Link(b, s)' <=> Link(b, s) /\ (b # B \/ s # u)
  BY <1>1, <1>2, EntryRemoved
<1>7. PICK c \in Blocks, t \in Slots :
        /\ Link(c, t) /\ blk[c].ents[t].ino = x /\ (c # B \/ t # u)
        /\ \A e \in Blocks, v \in Slots :
             Link(e, v) /\ blk[e].ents[v].ino = x =>
               (e = B /\ v = u) \/ (e = c /\ v = t)
  <2>1. PICK b1 \in Blocks, c1 \in Blocks, s1 \in Slots, t1 \in Slots :
          /\ Link(b1, s1) /\ Link(c1, t1) /\ (b1 # c1 \/ s1 # t1)
          /\ blk[b1].ents[s1].ino = x /\ blk[c1].ents[t1].ino = x
          /\ \A e \in Blocks, v \in Slots :
               Link(e, v) /\ blk[e].ents[v].ino = x =>
                 (e = b1 /\ v = s1) \/ (e = c1 /\ v = t1)
    BY <1>1 DEF CallInv, RenameInv
  <2>2. (B = b1 /\ u = s1) \/ (B = c1 /\ u = t1)
    BY <2>1, <1>2, <1>5
  <2>3. CASE B = b1 /\ u = s1
    BY <2>1, <2>3
  <2>4. CASE B = c1 /\ u = t1
    BY <2>1, <2>4
  <2>. QED  BY <2>2, <2>3, <2>4
<1>8. \A i \in Inodes : IsLive(i) => IsLive(i)'
  <2>. SUFFICES ASSUME NEW i \in Inodes, IsLive(i), i # 0 PROVE IsLive(i)'
    BY DEF IsLive
  <2>1. PICK b \in Blocks, s \in Slots : Link(b, s) /\ blk[b].ents[s].ino = i
    BY DEF IsLive
  <2>2. CASE b # B \/ s # u
    <3>1. Link(b, s)' /\ blk'[b].ents[s].ino = i
      BY <2>1, <2>2, <1>6
    <3>. QED  BY <3>1 DEF IsLive
  <2>3. CASE b = B /\ s = u
    <3>1. i = x
      BY <2>1, <2>3, <1>5
    <3>2. Link(c, t)' /\ blk'[c].ents[t].ino = i
      BY <3>1, <1>6, <1>7
    <3>. QED  BY <3>2 DEF IsLive
  <2>. QED  BY <2>2, <2>3
<1>9. SingleInv'
  <2>. SUFFICES ASSUME NEW b1 \in Blocks, NEW b2 \in Blocks, NEW s1 \in Slots,
                       NEW s2 \in Slots, Link(b1, s1)', Link(b2, s2)',
                       blk'[b1].ents[s1].ino = blk'[b2].ents[s2].ino
                PROVE  b1 = b2 /\ s1 = s2
    BY DEF SingleInv
  <2>1. /\ Link(b1, s1) /\ (b1 # B \/ s1 # u)
        /\ Link(b2, s2) /\ (b2 # B \/ s2 # u)
        /\ blk[b1].ents[s1].ino = blk[b2].ents[s2].ino
    BY <1>6
  <2>2. CASE blk[b1].ents[s1].ino = x
    BY <2>1, <2>2, <1>7
  <2>3. CASE blk[b1].ents[s1].ino # x
    BY <2>1, <2>3, <1>1 DEF DiskInv, SingleInv
  <2>. QED  BY <2>2, <2>3
<1>. QED  BY <1>1, <1>3, <1>4, <1>8, <1>9, RemoveLink

(* The other removals take away the only name of their target.             *)
LEMMA RemoveNameInv ==
  ASSUME TypeOK, TypeOK', DiskInv, CallInv, pc = "rment", call.op # "rename",
         NEW u \in Slots, Matches(call.par, call.comp, u),
         blk' = BlkWithout(call.par, u),
         pc' = (IF itab[call.tgt].direct # 0 THEN "bfree" ELSE "ifree"),
         call' = call, ibm' = ibm, bbm' = bbm, itab' = itab, cwd' = cwd
  PROVE  DiskInv' /\ CallInv'
<1>a. PICK d \in Inodes, x \in Inodes : d = call.par /\ x = call.tgt
  BY DEF TypeOK, Calls
<1>1. ~Renaming /\ call.op \in {"rmdir", "delete", "write"}
  BY DEF Renaming, CallInv, OpInv
<1>2. PICK B \in Blocks : B = itab[d].direct
  BY LookupType
<1>3. /\ call.comp \in Names /\ Ents(d)[u].ino = x
      /\ call.op = "rmdir" => IsDir(x) /\ EmptyDir(x) /\ cwd # x
      /\ call.op # "rmdir" => IsFile(x)
  BY <1>a DEF CallInv, RemoveInv
<1>4. IsDir(d) /\ Ents(d)[u].name = call.comp /\ IsLive(d)
  BY <1>a DEF Matches, FirstWith, CallInv, PathInv, InPath
<1>5. Link(B, u) /\ blk[B].ents[u].ino = x
  BY <1>2, <1>3, <1>4 DEF Link, Ents
<1>6. /\ \A b \in Blocks, s \in Slots :
           b # B \/ s # u => blk'[b].ents[s] = blk[b].ents[s]
      /\ \A b \in Blocks, s \in Slots :
           Link(b, s)' <=> Link(b, s) /\ (b # B \/ s # u)
  BY <1>a, <1>2, EntryRemoved
<1>7. SingleInv'
  <2>. SUFFICES ASSUME NEW b1 \in Blocks, NEW b2 \in Blocks, NEW s1 \in Slots,
                       NEW s2 \in Slots, Link(b1, s1)', Link(b2, s2)',
                       blk'[b1].ents[s1].ino = blk'[b2].ents[s2].ino
                PROVE  b1 = b2 /\ s1 = s2
    BY DEF SingleInv
  <2>1. /\ Link(b1, s1) /\ Link(b2, s2)
        /\ blk[b1].ents[s1].ino = blk[b2].ents[s2].ino
    BY <1>6
  <2>. QED  BY <2>1, <1>1 DEF DiskInv, SingleInv
<1>8. ~IsLive(x)'
  <2>1. x # 0
    BY <1>2, <1>5 DEF DiskInv, LinkInv
  <2>2. ASSUME NEW b \in Blocks, NEW s \in Slots, Link(b, s)',
               blk'[b].ents[s].ino = x
        PROVE  FALSE
    <3>1. Link(b, s) /\ blk[b].ents[s].ino = x /\ (b # B \/ s # u)
      BY <2>2, <1>6
    <3>. QED  BY <3>1, <1>1, <1>2, <1>5 DEF DiskInv, SingleInv
  <2>. QED  BY <2>1, <2>2 DEF IsLive
<1>9. \A i \in Inodes : IsLive(i) /\ i # x => IsLive(i)'
  <2>. SUFFICES ASSUME NEW i \in Inodes, IsLive(i), i # x, i # 0 PROVE IsLive(i)'
    BY DEF IsLive
  <2>1. PICK b \in Blocks, s \in Slots : Link(b, s) /\ blk[b].ents[s].ino = i
    BY DEF IsLive
  <2>2. Link(b, s)' /\ blk'[b].ents[s].ino = i
    BY <2>1, <1>5, <1>6
  <2>. QED  BY <2>2 DEF IsLive
<1>10. \A i \in Inodes : IsLive(i)' => IsLive(i)
  <2>. SUFFICES ASSUME NEW i \in Inodes, IsLive(i)', i # 0 PROVE IsLive(i)
    BY DEF IsLive
  <2>1. PICK b \in Blocks, s \in Slots : Link(b, s)' /\ blk'[b].ents[s].ino = i
    BY DEF IsLive
  <2>2. Link(b, s) /\ blk[b].ents[s].ino = i
    BY <2>1, <1>6
  <2>. QED  BY <2>2 DEF IsLive
<1>11. x # cwd /\ (IsDir(x) => EmptyDir(x))
  BY <1>1, <1>3 DEF IsDir, IsFile, DiskInv, CwdInv
<1>12. DiskInv'
  BY <1>a, <1>3, <1>4, <1>7, <1>9, <1>11, RemoveLink
<1>13. PathInv'
  <2>1. call.op = "write" => IsLive(call.par)'
    <3>1. IsFile(x) => d # x
      BY <1>4 DEF IsDir, IsFile
    <3>. QED  BY <3>1, <1>a, <1>3, <1>4, <1>9
  <2>. QED  BY <2>1 DEF PathInv, InPath, Making
<1>14. RemoveInv'
  <2>1. IsLive(x)
    BY <1>2, <1>5 DEF IsLive
  <2>2. ASSUME itab[x].direct # 0, NEW i \in Inodes, IsLive(i)'
        PROVE  ~Owns(i, itab[x].direct)
    <3>1. IsLive(i) /\ i # x
      BY <2>2, <1>8, <1>10
    <3>2. itab[x].direct \in Blocks /\ Owns(x, itab[x].direct)
      BY <2>2, <1>1, LookupType DEF Owns
    <3>. QED  BY <3>1, <3>2, <2>1, <1>1 DEF DiskInv, DisjointInv
  <2>3. itab[x].direct # 0 =>
          \A i \in Inodes : IsLive(i)' => ~Owns(i, itab[x].direct)'
    BY <2>2 DEF Owns
  <2>. QED  BY <2>3, <1>8, <1>a DEF RemoveInv
<1>. QED  BY <1>1, <1>12, <1>13, <1>14
          DEF CallInv, OpInv, Making, Filling, HasBlock, MakeInv, BlockInv,
              FillInv, RenameInv

LEMMA RemoveDirentInv ==
  ASSUME TypeOK, TypeOK', DiskInv, CallInv, RemoveDirent
  PROVE  DiskInv' /\ CallInv'
<1>. USE DEF Goto, Done
<1>1. /\ pc = "rment" /\ call' = call /\ ibm' = ibm /\ bbm' = bbm
      /\ itab' = itab /\ cwd' = cwd
  BY DEF RemoveDirent
<1>2. ASSUME NEW u \in Slots, Matches(call.par, call.comp, u),
             blk' = [blk EXCEPT ![itab[call.par].direct].ents = WithoutEntry(u)],
             Removed
      PROVE  DiskInv' /\ CallInv'
  <2>1. blk' = BlkWithout(call.par, u)
    BY <1>2 DEF WithoutEntry, BlkWithout
  <2>2. CASE call.op = "rename"
    <3>1. pc' = "ret"
      BY <1>2, <2>2 DEF Removed
    <3>. QED  BY <3>1, <2>1, <2>2, <1>1, <1>2, RenameRemoveInv, Quiet
  <2>3. CASE call.op # "rename"
    <3>1. pc' = IF itab[call.tgt].direct # 0 THEN "bfree" ELSE "ifree"
      BY <1>2, <2>3 DEF Removed
    <3>. QED  BY <3>1, <2>1, <2>3, <1>1, <1>2, RemoveNameInv
  <2>. QED  BY <2>2, <2>3
<1>3. ASSUME ~Found(call.par, call.comp), blk' = blk,
             pc' = IF call.op = "write" THEN "create" ELSE "ret"
      PROVE  DiskInv' /\ CallInv'
  <2>1. call.op # "rename"
    BY <1>1, <1>3 DEF CallInv, RenameInv, Found, Matches, FirstWith
  <2>2. DiskInv'
    <3>1. IsLive(cwd') /\ IsDir(cwd')
      BY <1>1 DEF DiskInv, CwdInv
    <3>. QED  BY <3>1, <2>1, <1>1, <1>3, SameDisk DEF Renaming, disk
  <2>3. CASE call.op = "write"
    <3>1. call' \in Calls /\ IsLive(call'.par)
      BY <1>1 DEF TypeOK, CallInv, PathInv, InPath
    <3>. QED  BY <3>1, <2>2, <2>3, <1>1, <1>3, StartCreate
  <2>4. CASE call.op # "write"
    BY <2>2, <2>4, <1>3, Quiet
  <2>. QED  BY <2>3, <2>4
<1>. QED  BY <1>2, <1>3 DEF RemoveDirent

-----------------------------------------------------------------------------
(* The end of a call, power failures and the first state.                  *)

LEMMA ReturnInv ==
  ASSUME TypeOK, TypeOK', DiskInv, CallInv, Return
  PROVE  DiskInv' /\ CallInv'
<1>1. pc' = "idle" /\ UNCHANGED disk /\ cwd' = cwd /\ ~Renaming
  BY DEF Return, Renaming
<1>2. IsLive(cwd') /\ IsDir(cwd')
  BY <1>1 DEF DiskInv, CwdInv
<1>. QED  BY <1>1, <1>2, SameDisk, Quiet

LEMMA CrashInv ==
  ASSUME TypeOK, TypeOK', DiskInv, CallInv, Crash
  PROVE  torn' \/ (DiskInv' /\ CallInv')
<1>1. /\ pc' = "idle" /\ UNCHANGED disk /\ cwd' = 0
      /\ torn' = (torn \/ Renaming)
  BY DEF Crash, Renaming
<1>2. IsLive(cwd') /\ IsDir(cwd')
  BY <1>1 DEF DiskInv, RootInv, IsLive
<1>. QED  BY <1>1, <1>2, SameDisk, Quiet

LEMMA InitInv == ASSUME Init PROVE DiskInv /\ CallInv
<1>1. CallInv
  BY DEF Init, CallInv, OpInv, PathInv, InPath, Making, Filling, HasBlock, MakeInv,
         BlockInv, FillInv, RemoveInv, RenameInv
<1>2. PICK n \in Names, c \in Chunks :
        blk = [b \in Blocks |->
                 CASE b = 1 -> RootBlock(n)
                   [] b = 2 \/ (BigFile /\ b = 3) -> DataBlock(c)
                   [] OTHER -> ZeroBlock]
  BY DEF Init
<1>3. \A b \in Blocks : b # 1 => \A s \in Slots : blk[b].ents[s] = NoEntry
  BY <1>2 DEF DataBlock, ZeroBlock
<1>4. blk[1] = RootBlock(n)
  BY <1>2, Constants
<1>5. /\ blk[1].data = NoChunk
      /\ blk[1].ents[1] = [ino |-> 0, name |-> Dot]
      /\ blk[1].ents[2] = [ino |-> 0, name |-> DotDot]
      /\ blk[1].ents[3] = [ino |-> 1, name |-> n]
      /\ \A s \in Slots : s \notin {1, 2, 3} => blk[1].ents[s] = NoEntry
  BY <1>4, Constants DEF RootBlock, ZeroBlock
<1>6. \A b \in Blocks, s \in Slots : Link(b, s) <=> b = 1 /\ s = 3
  <2>1. /\ blk[1].ents[1].name = Dot /\ blk[1].ents[2].name = DotDot
        /\ blk[1].ents[3].name = n /\ NoEntry.name = NoName
    BY <1>5 DEF NoEntry
  <2>. QED  BY <2>1, <1>3, <1>5, NameAssumption DEF Link
<1>7. \A i \in Inodes : IsLive(i) <=> i \in {0, 1}
  <2>1. blk[1].ents[3].ino = 1
    BY <1>5
  <2>. QED  BY <2>1, <1>6, Constants DEF IsLive
<1>8. /\ itab[0].type = "dir" /\ itab[0].direct = 1 /\ itab[0].indirect = <<>>
      /\ itab[1].type = "file" /\ itab[1].direct = 2
      /\ itab[1].indirect = IF BigFile THEN <<4, 3>> ELSE <<>>
  <2>1. itab[0] = [ZeroInode EXCEPT !.type = "dir", !.direct = 1]
    BY Constants DEF Init
  <2>2. itab[1] = AddedFile
    BY Constants DEF Init
  <2>. QED  BY <2>1, <2>2 DEF ZeroInode, AddedFile
<1>9. \A b \in Blocks : /\ Owns(0, b) => b = 1
                        /\ Owns(1, b) => b = 2 \/ (BigFile /\ b \in {3, 4})
  BY <1>8, SizeAssumption DEF Owns
<1>10. /\ ibm = {0, 1} /\ cwd = 0 /\ 0 \in bbm /\ 1 \in bbm /\ 2 \in bbm
       /\ BigFile => 3 \in bbm /\ 4 \in bbm
  BY DEF Init
<1>11. IsDir(0) /\ ~IsDir(1) /\ Ents(0) = blk[1].ents /\ blk[1].ents[3].ino = 1
       /\ blk[1].ents[2].ino = 0 /\ blk[1].ents[2].name = DotDot
  BY <1>5, <1>8 DEF IsDir, Ents
<1>12. RootInv /\ CwdInv
  BY <1>7, <1>10, <1>11, Constants DEF RootInv, CwdInv
<1>13. UsedInv
  BY <1>7, <1>8, <1>9, <1>10 DEF UsedInv
<1>14. LinkInv
  BY <1>6, <1>7, <1>8, <1>11, Constants DEF LinkInv
<1>15. SingleInv
  BY <1>6 DEF SingleInv
<1>16. DisjointInv
  BY <1>7, <1>9 DEF DisjointInv
<1>17. DotsInv
  BY <1>5, <1>7, <1>8, <1>11 DEF DotsInv
<1>18. ParentInv
  BY <1>6, <1>11 DEF ParentInv
<1>. QED  BY <1>1, <1>12, <1>13, <1>14, <1>15, <1>16, <1>17, <1>18 DEF DiskInv

-----------------------------------------------------------------------------
(* The theorems.                                                           *)

LEMMA StepInv ==
  ASSUME TypeOK, TypeOK', DiskInv, CallInv, Step
  PROVE  DiskInv' /\ CallInv'
BY CreateNodeInv, InodeClearInv, MkdirBlockInv, WriteInodeInv, WriteDirBlockInv,
   AddDirentInv, RemoveDirentInv, FreeBlockInv, FreeInodeInv, UndoBlockInv,
   UndoInodeInv, FillBlockInv, WriteDataInv, WriteFinalInv, ReturnInv DEF Step

(* A request begins a call or changes the current directory.               *)
LEMMA RequestBegins ==
  ASSUME Request
  PROVE  (\E c, l, r : Begin(c, l, r)) \/ (\E i \in Live : FsCd(i))
<1>1. ASSUME NEW p, NEW n, FsMkdir(p, n) \/ FsCreate(p, n)
      PROVE  \E c, l, r : Begin(c, l, r)
  BY <1>1 DEF FsMkdir, FsCreate, Enter
<1>2. ASSUME NEW p, NEW n, FsDelete(p, n) PROVE \E c, l, r : Begin(c, l, r)
  BY <1>2 DEF FsDelete, Enter, Reject
<1>3. ASSUME NEW p, NEW n, FsRmdir(p, n) PROVE \E c, l, r : Begin(c, l, r)
  BY <1>3 DEF FsRmdir, Enter, Reject
<1>4. ASSUME NEW p, NEW n, NEW d, NEW k, FsWriteFile(p, n, d, k)
      PROVE  \E c, l, r : Begin(c, l, r)
  BY <1>4 DEF FsWriteFile, Enter
<1>5. ASSUME NEW p, NEW n, NEW p2, NEW n2, FsRename(p, n, p2, n2)
      PROVE  \E c, l, r : Begin(c, l, r)
  BY <1>5 DEF FsRename, RenameFrom, Enter, Reject
<1>6. ASSUME NEW p, NEW n, NEW p2, NEW n2, FsCopy(p, n, p2, n2)
      PROVE  \E c, l, r : Begin(c, l, r)
  BY <1>6 DEF FsCopy, Enter, Reject
<1>. QED  BY <1>1, <1>2, <1>3, <1>4, <1>5, <1>6, Zenon DEF Request

LEMMA TornStays == ASSUME torn, TypeOK, [Next]_vars PROVE torn'
<1>1. CASE Request
  <2>1. torn' = torn
    BY <1>1, RequestBegins DEF Begin, FsCd
  <2>. QED  BY <2>1
<1>2. CASE Step
  BY <1>2 DEF Step, CreateNode, InodeClear, MkdirBlock, WriteInode, WriteDirBlock,
              AddDirent, RemoveDirent, FreeBlock, FreeInode, UndoBlock, UndoInode,
              FillBlock, WriteData, WriteFinal, Return
<1>3. CASE Crash
  BY <1>3 DEF Crash
<1>4. CASE UNCHANGED vars
  BY <1>4 DEF vars
<1>. QED  BY <1>1, <1>2, <1>3, <1>4 DEF Next

(* Stuttering.                                                             *)
LEMMA CallInvSame == ASSUME CallInv, UNCHANGED vars PROVE CallInv'
<1>1. /\ ibm' = ibm /\ bbm' = bbm /\ itab' = itab /\ blk' = blk /\ cwd' = cwd
      /\ pc' = pc /\ call' = call
  BY DEF vars
<1>2. OpInv'
  BY <1>1 DEF CallInv, OpInv
<1>3. PathInv'
  BY <1>1 DEF CallInv, PathInv, InPath, Making, IsLive, Link, IsDir
<1>4. MakeInv'
  BY <1>1 DEF CallInv, MakeInv, Making, IsLive, Link, Ents, NewDirBlock
<1>5. BlockInv'
  BY <1>1 DEF CallInv, BlockInv, HasBlock, Filling, IsLive, Link, Owns
<1>6. FillInv'
  BY <1>1 DEF CallInv, FillInv, Filling, IsLive, Link, IsFile, Ents
<1>7. RemoveInv'
  BY <1>1 DEF CallInv, RemoveInv, Matches, FirstWith, IsDir, IsFile, EmptyDir,
              Ents, IsLive, Link, Owns
<1>8. RenameInv'
  BY <1>1 DEF CallInv, RenameInv, Matches, FirstWith, Found, IsDir, Ents, Link
<1>. QED  BY <1>2, <1>3, <1>4, <1>5, <1>6, <1>7, <1>8 DEF CallInv

(* IndInv is an invariant of the file system: of every step of every call, *)
(* and through power failures between any two writes, until one of them    *)
(* cuts a rename in two.                                                   *)
THEOREM Inductive == Spec => []IndInv
<1>1. Init => IndInv
  BY InitTypes, InitInv DEF IndInv
<1>2. IndInv /\ [Next]_vars => IndInv'
  <2>. SUFFICES ASSUME IndInv, [Next]_vars PROVE IndInv'
    OBVIOUS
  <2>1. TypeOK /\ TypeOK'
    <3>1. CASE UNCHANGED vars
      BY <3>1 DEF vars, TypeOK, IndInv
    <3>. QED  BY <3>1, RequestTypes, StepTypes, CrashTypes DEF Next, IndInv
  <2>2. CASE torn
    BY <2>1, <2>2, TornStays DEF IndInv
  <2>3. CASE ~torn
    <3>1. DiskInv /\ CallInv
      BY <2>3 DEF IndInv
    <3>2. CASE UNCHANGED vars
      <4>1. UNCHANGED disk /\ cwd' = cwd /\ pc' = pc /\ call' = call
        BY <3>2 DEF vars, disk
      <4>2. DiskInv'
        <5>1. IsLive(cwd') /\ IsDir(cwd')
          BY <3>1, <4>1 DEF DiskInv, CwdInv
        <5>2. Renaming => Renaming' /\ call'.tgt = call.tgt
          BY <4>1 DEF Renaming
        <5>. QED  BY <2>1, <3>1, <4>1, <5>1, <5>2, SameDisk
      <4>3. CallInv'
        BY <3>1, <3>2, CallInvSame
      <4>. QED  BY <2>1, <4>2, <4>3 DEF IndInv
    <3>. QED  BY <2>1, <3>1, <3>2, RequestInv, StepInv, CrashInv DEF Next, IndInv
  <2>. QED  BY <2>2, <2>3
<1>. QED  BY <1>1, <1>2, PTL DEF Spec

(* Links and owned blocks as predicates.                                   *)
LEMMA LinkIs ==
  ASSUME TypeOK, NEW l \in Links
  PROVE  \E b \in Blocks, s \in Slots :
           /\ l = <<b, s>> /\ l[1] = b /\ Link(b, s)
           /\ LinkIno(l) = blk[b].ents[s].ino /\ LinkIno(l) \in Inodes
           /\ IsLive(LinkIno(l))
<1>1. PICK b \in Blocks, s \in Slots : l = <<b, s>> /\ Link(b, s)
  BY DEF Links, LinksIn, Link
<1>2. LinkIno(l) = blk[b].ents[s].ino /\ l[1] = b
  BY <1>1 DEF LinkIno
<1>3. LinkIno(l) \in Inodes
  BY <1>2 DEF TypeOK, BlockContents, Dirents
<1>. QED  BY <1>1, <1>2, <1>3 DEF IsLive

LEMMA OwnedIs ==
  ASSUME TypeOK, NEW i \in Inodes, NEW b \in Owned(i)
  PROVE  b \in Blocks /\ Owns(i, b)
<1>1. itab[i].direct \in Blocks /\ itab[i].indirect \in Seq(Blocks)
  BY DEF TypeOK, InodeRecords
<1>2. \A k \in DOMAIN itab[i].indirect : itab[i].indirect[k] \in Blocks
  BY <1>1
<1>. QED  BY <1>1, <1>2 DEF Owned, Owns

LEMMA SafetyParts ==
  ASSUME IndInv
  PROVE  /\ LinksSound /\ SingleLink /\ NoSharedBlocks
         /\ DirsSound /\ EntriesInDirs /\ CwdLive
<1>. SUFFICES ASSUME ~torn
              PROVE  /\ LinksSound /\ SingleLink /\ NoSharedBlocks
                     /\ DirsSound /\ EntriesInDirs /\ CwdLive
  BY DEF LinksSound, SingleLink, NoSharedBlocks, DirsSound, EntriesInDirs, CwdLive
<1>1. TypeOK /\ DiskInv
  BY DEF IndInv
<1>2. \A i \in Inodes : i \in Live <=> IsLive(i)
  BY <1>1, LiveIs
<1>3. Live \subseteq Inodes
  BY <1>1, LiveType
<1>4. LinksSound
  <2>. SUFFICES ASSUME NEW l \in Links
                PROVE  LET i == LinkIno(l) IN
                         /\ i \in ibm \ {0}
                         /\ itab[i].type # "none"
                         /\ Owned(i) \subseteq bbm
    BY DEF LinksSound
  <2>1. LinkIno(l) \in Inodes /\ IsLive(LinkIno(l)) /\ LinkIno(l) # 0
    BY <1>1, LinkIs DEF DiskInv, LinkInv
  <2>. QED  BY <2>1, <1>1, OwnedIs DEF DiskInv, UsedInv
<1>5. SingleLink
  <2>. SUFFICES ASSUME NEW k \in Links, NEW l \in Links, LinkIno(k) = LinkIno(l)
                PROVE  k = l \/ (pc = "rment" /\ call.op = "rename"
                                   /\ call.tgt = LinkIno(l))
    BY DEF SingleLink
  <2>1. PICK b \in Blocks, s \in Slots :
          k = <<b, s>> /\ Link(b, s) /\ LinkIno(k) = blk[b].ents[s].ino
    BY <1>1, LinkIs
  <2>2. PICK c \in Blocks, t \in Slots :
          l = <<c, t>> /\ Link(c, t) /\ LinkIno(l) = blk[c].ents[t].ino
    BY <1>1, LinkIs
  <2>3. (b = c /\ s = t) \/ (Renaming /\ call.tgt = LinkIno(l))
    BY <2>1, <2>2, <1>1 DEF DiskInv, SingleInv
  <2>. QED  BY <2>1, <2>2, <2>3 DEF Renaming
<1>6. NoSharedBlocks
  <2>. SUFFICES ASSUME NEW i \in Live, NEW j \in Live, i # j,
                       NEW b \in Owned(i), b \in Owned(j)
                PROVE  FALSE
    BY DEF NoSharedBlocks
  <2>1. i \in Inodes /\ j \in Inodes /\ IsLive(i) /\ IsLive(j)
    BY <1>2, <1>3
  <2>2. b \in Blocks /\ Owns(i, b) /\ Owns(j, b)
    BY <2>1, <1>1, OwnedIs
  <2>. QED  BY <2>1, <2>2, <1>1 DEF DiskInv, DisjointInv
<1>7. DirsSound
  <2>1. IsDir(0) /\ Ents(0)[2].ino = 0
    BY <1>1 DEF DiskInv, RootInv
  <2>2. \A d \in Live : IsDir(d) =>
          /\ itab[d].direct # 0
          /\ blk[itab[d].direct].data = NoChunk
          /\ Ents(d)[1] = [ino |-> d, name |-> Dot]
          /\ Ents(d)[2].name = DotDot
    BY <1>1, <1>2, <1>3 DEF DiskInv, DotsInv
  <2>3. ASSUME NEW l \in Links, IsDir(LinkIno(l))
        PROVE  LET p == Ents(LinkIno(l))[2].ino
               IN  p \in Live /\ IsDir(p) /\ itab[p].direct = l[1]
    <3>. DEFINE p == Ents(LinkIno(l))[2].ino
    <3>1. LinkIno(l) \in Inodes
      BY <1>1, LinkIs
    <3>2. p \in Inodes
      BY <3>1, <1>1, LookupType, Constants DEF Dirents
    <3>3. IsLive(p) /\ IsDir(p) /\ itab[p].direct = l[1]
      BY <2>3, <1>1, LinkIs DEF DiskInv, ParentInv
    <3>. QED  BY <3>2, <3>3, <1>2
  <2>. QED  BY <2>1, <2>2, <2>3 DEF DirsSound
<1>8. EntriesInDirs
  <2>. SUFFICES ASSUME NEW l \in Links
                PROVE  \E d \in Live : IsDir(d) /\ itab[d].direct = l[1]
    BY DEF EntriesInDirs
  <2>1. PICK d \in Inodes : IsLive(d) /\ IsDir(d) /\ itab[d].direct = l[1]
    BY <1>1, LinkIs DEF DiskInv, LinkInv
  <2>. QED  BY <2>1, <1>2
<1>9. CwdLive
  BY <1>1, <1>2 DEF DiskInv, CwdInv, CwdLive, TypeOK
<1>. QED  BY <1>4, <1>5, <1>6, <1>7, <1>8, <1>9

(* Every entry names an inode and blocks that are marked used: the         *)
(* allocators never hand out what is in use, through any power failure.    *)
THEOREM LinksStaySound == Spec => []LinksSound
BY Inductive, SafetyParts, PTL

(* No inode has two names, but for the moment between the two halves of a  *)
(* rename: freeing the inode of a name that goes never frees another's.    *)
THEOREM LinksStaySingle == Spec => []SingleLink
BY Inductive, SafetyParts, PTL

(* No two files or directories ever share a block.                         *)
THEOREM BlocksStayDisjoint == Spec => []NoSharedBlocks
BY Inductive, SafetyParts, PTL

(* Directories keep their "." and "..", ".." leads to the directory that   *)
(* holds the name, no entry is outside a live directory, and the current   *)
(* directory stays one.                                                    *)
THEOREM DirectoriesStaySound == Spec => [](DirsSound /\ EntriesInDirs /\ CwdLive)
BY Inductive, SafetyParts, PTL

-----------------------------------------------------------------------------
(* Nothing loses its last name but by the call that removes it.            *)

LEMMA LiveIsNext == TypeOK' => (\A i \in Inodes : i \in Live <=> IsLive(i))'
<1>1. TypeOK => \A i \in Inodes : i \in Live <=> IsLive(i)
  BY LiveIs
<1>. QED  BY <1>1, PTL

LEMMA StepKeeps ==
  ASSUME TypeOK, TypeOK', DiskInv, CallInv, Step,
         ~(pc = "rment" /\ call.op \in {"rmdir", "delete", "write"})
  PROVE  \A i \in Inodes : IsLive(i) => IsLive(i)'
<1>1. CASE blk' = blk
  BY <1>1 DEF IsLive, Link
<1>2. CASE WriteDirBlock
  <2>1. /\ pc = "wdir" /\ ~Renaming
        /\ blk' = [blk EXCEPT ![call.bnum] = NewDirBlock(call.inum, call.par)]
        /\ ibm' = ibm /\ bbm' = bbm /\ itab' = itab /\ cwd' = cwd
    BY <1>2 DEF WriteDirBlock, Renaming
  <2>2. /\ call.bnum \in Blocks /\ call.bnum # 0
        /\ \A i \in Inodes : IsLive(i) => ~Owns(i, call.bnum)
    BY <2>1 DEF CallInv, OpInv, BlockInv, HasBlock, TypeOK, Calls
  <2>3. \A s \in Slots : NewDirBlock(call.inum, call.par).ents[s].name \notin Names
    BY NameAssumption, Constants DEF NewDirBlock, ZeroBlock, NoEntry, Slots
  <2>. QED  BY <2>1, <2>2, <2>3, FrameBlock
<1>3. CASE WriteData
  <2>1. /\ pc = "wdata" /\ ~Renaming
        /\ blk' = [blk EXCEPT ![call.bnum] = DataBlock(call.buf)]
        /\ ibm' = ibm /\ bbm' = bbm /\ itab' = itab /\ cwd' = cwd
    BY <1>3 DEF WriteData, Renaming
  <2>2. /\ call.bnum \in Blocks /\ call.bnum # 0
        /\ \A i \in Inodes : IsLive(i) => ~Owns(i, call.bnum)
    BY <2>1 DEF CallInv, BlockInv, HasBlock, Filling, TypeOK, Calls
  <2>3. \A s \in Slots : DataBlock(call.buf).ents[s].name \notin Names
    BY NameAssumption DEF DataBlock, ZeroBlock, NoEntry
  <2>. QED  BY <2>1, <2>2, <2>3, FrameBlock
<1>4. CASE AddDirent /\ blk' # blk
  <2>1. PICK d \in {call.par, call.par2}, u \in Slots, e \in [ino : Inodes, name : {Stored(call.comp), Stored(call.comp2)}] :
          Matches(d, NoName, u) /\ blk' = [blk EXCEPT ![itab[d].direct].ents[u] = e]
    BY <1>4 DEF AddDirent, TypeOK, Calls
  <2>2. d \in Inodes /\ Ents(d)[u].name = NoName
    BY <2>1 DEF Matches, FirstWith, TypeOK, Calls
  <2>3. itab[d].direct \in Blocks /\ blk[itab[d].direct].ents[u].name = NoName
    BY <2>2, LookupType DEF Ents
  <2>4. \A b \in Blocks, s \in Slots :
          b # itab[d].direct \/ s # u => blk'[b].ents[s] = blk[b].ents[s]
    BY <2>1, <2>3 DEF TypeOK, BlockContents
  <2>5. \A b \in Blocks, s \in Slots :
          Link(b, s) => Link(b, s)' /\ blk'[b].ents[s].ino = blk[b].ents[s].ino
    BY <2>3, <2>4, NameAssumption DEF Link
  <2>. QED  BY <2>5, LinksKept
<1>5. CASE RemoveDirent /\ blk' # blk
  <2>1. PICK u \in Slots :
          /\ Matches(call.par, call.comp, u)
          /\ blk' = BlkWithout(call.par, u)
    BY <1>5 DEF RemoveDirent, WithoutEntry, BlkWithout
  <2>2. /\ pc = "rment" /\ ibm' = ibm /\ bbm' = bbm /\ itab' = itab /\ cwd' = cwd
    BY <1>5 DEF RemoveDirent
  <2>3. call.op = "rename"
    BY <2>2 DEF CallInv, OpInv
  <2>. QED  BY <2>1, <2>2, <2>3, RenameRemoveInv
<1>6. CASE \/ CreateNode \/ InodeClear \/ MkdirBlock \/ WriteInode \/ FreeBlock
           \/ FreeInode \/ UndoBlock \/ UndoInode \/ FillBlock \/ WriteFinal
           \/ Return
  BY <1>6, <1>1 DEF CreateNode, InodeClear, MkdirBlock, WriteInode, FreeBlock,
                    FreeInode, UndoBlock, UndoInode, FillBlock, WriteFinal,
                    Return, disk
<1>. QED  BY <1>1, <1>2, <1>3, <1>4, <1>5, <1>6 DEF Step

(* A rename never leaves what it moves without a name, and no other step   *)
(* takes the last name of anything, but the removal that rmdir, delete and *)
(* write_file were called for.                                             *)
THEOREM NothingIsLost == Spec => NothingLost
<1>. DEFINE Kept == \A i \in Linked : ~torn /\ i \notin Linked' =>
                      pc = "rment" /\ call.op \in {"rmdir", "delete", "write"}
<1>1. IndInv /\ IndInv' /\ [Next]_vars => [Kept]_vars
  <2>. SUFFICES ASSUME IndInv, IndInv', Next, ~torn, NEW i \in Linked,
                       ~(pc = "rment" /\ call.op \in {"rmdir", "delete", "write"})
                PROVE  i \in Linked'
    OBVIOUS
  <2>1. TypeOK /\ TypeOK' /\ DiskInv /\ CallInv
    BY DEF IndInv
  <2>2. i \in Inodes /\ i # 0 /\ IsLive(i)
    <3>1. PICK l \in Links : i = LinkIno(l)
      BY DEF Linked
    <3>. QED  BY <3>1, <2>1, LinkIs DEF DiskInv, LinkInv
  <2>3. IsLive(i)'
    <3>1. CASE Step
      BY <3>1, <2>1, <2>2, StepKeeps
    <3>2. CASE Request \/ Crash
      <4>1. blk' = blk
        <5>1. CASE Request
          BY <5>1, RequestBegins DEF Begin, FsCd, disk
        <5>2. CASE Crash
          BY <5>2 DEF Crash, disk
        <5>. QED  BY <3>2, <5>1, <5>2
      <4>. QED  BY <4>1, <2>2 DEF IsLive, Link
    <3>. QED  BY <3>1, <3>2 DEF Next
  <2>4. (i \in Live)'
    BY <2>1, <2>2, <2>3, LiveIsNext
  <2>. QED  BY <2>2, <2>4 DEF Live
<1>2. [][Kept]_vars <=> NothingLost
  BY PTL DEF NothingLost
<1>. QED  BY <1>1, <1>2, Inductive, PTL DEF Spec


-----------------------------------------------------------------------------
(* The contents of files.                                                  *)

LEMMA CatSame ==
  ASSUME TypeOK, NEW i \in Inodes, itab'[i] = itab[i],
         \A b \in Blocks : Owns(i, b) => blk'[b].data = blk[b].data
  PROVE  FsCat(i)' = FsCat(i)
<1> DEFINE n == itab[i]
           tail == IF n.indirect = <<>> THEN <<>> ELSE Tail(n.indirect)
           len == IF Len(tail) < n.size - 1 THEN Len(tail) ELSE n.size - 1
<1>1. n.direct \in Blocks /\ n.indirect \in Seq(Blocks) /\ n.size \in Int
  BY SizeAssumption DEF TypeOK, InodeRecords
<1>2. \A b \in Blocks : b \in Int /\ b >= 0
  BY SizeAssumption DEF Blocks
<1>3. n.direct > 0 => blk'[n.direct].data = blk[n.direct].data
  BY <1>1, <1>2 DEF Owns
<1>4. tail \in Seq(Blocks) /\ Len(tail) \in Nat
      /\ \A k \in 1 .. Len(tail) : k + 1 \in DOMAIN n.indirect /\ tail[k] = n.indirect[k + 1]
  BY <1>1
<1>5. \A k \in 1 .. Len(tail) : blk'[tail[k]].data = blk[tail[k]].data
  BY <1>1, <1>4 DEF Owns
<1> HIDE DEF tail
<1>6. len \in Int /\ len <= Len(tail)
  BY <1>1, <1>4
<1> HIDE DEF len
<1>7. \A k \in 1 .. len : blk'[tail[k]].data = blk[tail[k]].data
  BY <1>4, <1>5, <1>6
<1>8. [k \in 1 .. len |-> blk'[tail[k]].data] = [k \in 1 .. len |-> blk[tail[k]].data]
  BY <1>7
<1>9. FsCat(i) = IF n.size = 0 THEN <<>>
                 ELSE (IF n.direct > 0 THEN <<blk[n.direct].data>> ELSE <<>>)
                        \o [k \in 1 .. len |-> blk[tail[k]].data]
  BY DEF FsCat, tail, len
<1>10. FsCat(i)' = IF n.size = 0 THEN <<>>
                   ELSE (IF n.direct > 0 THEN <<blk'[n.direct].data>> ELSE <<>>)
                          \o [k \in 1 .. len |-> blk'[tail[k]].data]
  BY DEF FsCat, tail, len
<1> DEFINE head == IF n.direct > 0 THEN <<blk[n.direct].data>> ELSE <<>>
           head2 == IF n.direct > 0 THEN <<blk'[n.direct].data>> ELSE <<>>
           rest == [k \in 1 .. len |-> blk[tail[k]].data]
           rest2 == [k \in 1 .. len |-> blk'[tail[k]].data]
<1>11. head2 = head
  BY <1>3
<1>12. FsCat(i) = IF n.size = 0 THEN <<>> ELSE head \o rest
  BY <1>9
<1>13. FsCat(i)' = IF n.size = 0 THEN <<>> ELSE head2 \o rest2
  BY <1>10
<1>14. rest2 = rest
  BY <1>8
<1> HIDE DEF n, head, head2, rest, rest2
<1> QED BY <1>11, <1>12, <1>13, <1>14

(* A step of a call writes no data of a live inode, but for the one that   *)
(* it is making or filling.                                                *)
LEMMA StepSpares ==
  ASSUME TypeOK, DiskInv, CallInv, Step, NEW i \in Inodes, IsLive(i), i # call.inum
  PROVE  /\ itab'[i] = itab[i]
         /\ \A b \in Blocks : Owns(i, b) => blk'[b].data = blk[b].data
<1>0. /\ itab \in [Inodes -> InodeRecords] /\ blk \in [Blocks -> BlockContents]
      /\ call.inum \in Inodes /\ call.bnum \in Blocks
  BY DEF TypeOK, Calls
<1>1. itab'[i] = itab[i]
  <2>1. itab' = itab \/ \E e : itab' = [itab EXCEPT ![call.inum] = e]
    <3>1. CASE InodeClear \/ WriteInode
      BY <3>1 DEF InodeClear, WriteInode
    <3>2. CASE WriteFinal
      <4> DEFINE e == [itab[call.inum] EXCEPT !.direct = call.bnum, !.size = call.size]
      <4>1. itab' = [itab EXCEPT ![call.inum].direct = call.bnum, ![call.inum].size = call.size]
        BY <3>2 DEF WriteFinal
      <4>2. itab' = [itab EXCEPT ![call.inum] = e]
        BY <1>0, <4>1
      <4> QED BY <4>2
    <3>3. CASE ~(InodeClear \/ WriteInode \/ WriteFinal)
      BY <3>3 DEF Step, CreateNode, MkdirBlock, WriteDirBlock, AddDirent, RemoveDirent, FreeBlock,
                  FreeInode, UndoBlock, UndoInode, FillBlock, WriteData, Return, disk
    <3> QED BY <3>1, <3>2, <3>3
  <2> QED BY <1>0, <2>1
<1>2. ASSUME NEW b \in Blocks, Owns(i, b) PROVE blk'[b].data = blk[b].data
  <2>1. CASE blk' = blk
    BY <2>1
  <2>2. CASE WriteDirBlock \/ WriteData
    <3>1. HasBlock
      BY <2>2 DEF WriteDirBlock, WriteData, HasBlock, Filling, CallInv, OpInv
    <3>2. ~Owns(i, call.bnum)
      BY <3>1 DEF CallInv, BlockInv
    <3>3. \E e : blk' = [blk EXCEPT ![call.bnum] = e]
      BY <2>2 DEF WriteDirBlock, WriteData
    <3>4. b # call.bnum
      BY <1>2, <3>2
    <3> QED BY <1>0, <3>3, <3>4
  <2>3. CASE AddDirent /\ blk' # blk
    <3> DEFINE ren == call.op = "rename"
               d == IF ren THEN call.par2 ELSE call.par
               c == itab[d].direct
               e == [ino  |-> IF ren THEN call.tgt ELSE call.inum,
                     name |-> Stored(IF ren THEN call.comp2 ELSE call.comp)]
    <3>1. PICK s \in Slots : blk' = [blk EXCEPT ![c].ents[s] = e]
      BY <2>3 DEF AddDirent
    <3> HIDE DEF c, e
    <3> QED BY <1>0, <3>1 DEF BlockContents
  <2>4. CASE RemoveDirent /\ blk' # blk
    <3>1. PICK c, e : blk' = [blk EXCEPT ![c].ents = e]
      BY <2>4 DEF RemoveDirent
    <3> QED BY <1>0, <3>1 DEF BlockContents
  <2>5. CASE \/ CreateNode \/ InodeClear \/ MkdirBlock \/ WriteInode \/ FreeBlock
             \/ FreeInode \/ UndoBlock \/ UndoInode \/ FillBlock \/ WriteFinal
             \/ Return
    BY <2>5, <2>1 DEF CreateNode, InodeClear, MkdirBlock, WriteInode, FreeBlock,
                      FreeInode, UndoBlock, UndoInode, FillBlock, WriteFinal,
                      Return, disk
  <2> QED BY <2>1, <2>2, <2>3, <2>4, <2>5 DEF Step
<1> QED BY <1>1, <1>2

LEMMA LinkedIsLive ==
  ASSUME TypeOK, DiskInv, NEW i \in Linked PROVE i \in Inodes /\ i # 0 /\ IsLive(i)
<1>1. PICK l \in Links : i = LinkIno(l)
  BY DEF Linked
<1> QED BY <1>1, LinkIs DEF DiskInv, LinkInv

(* No step, a power failure included, changes the contents of a file but   *)
(* the one that the running call of vfs.c is filling.                      *)
THEOREM ContentsUntouched == Spec => FilesUntouched
<1> DEFINE Same == \A i \in Linked :
                     ~torn /\ IsFile(i) /\ i \in Linked' /\ i # call.inum => FsCat(i)' = FsCat(i)
<1>1. IndInv /\ [Next]_vars => [Same]_vars
  <2> SUFFICES ASSUME IndInv, Next, ~torn, NEW i \in Linked, i # call.inum
               PROVE  FsCat(i)' = FsCat(i)
    OBVIOUS
  <2>1. TypeOK /\ DiskInv /\ CallInv
    BY DEF IndInv
  <2>2. i \in Inodes /\ IsLive(i)
    BY <2>1, LinkedIsLive
  <2>3. /\ itab'[i] = itab[i]
        /\ \A b \in Blocks : Owns(i, b) => blk'[b].data = blk[b].data
    <3>1. CASE Step
      BY <2>1, <2>2, <3>1, StepSpares
    <3>2. CASE Request
      BY <3>2, RequestBegins DEF Begin, FsCd, disk
    <3>3. CASE Crash
      BY <3>3 DEF Crash, disk
    <3> QED BY <3>1, <3>2, <3>3 DEF Next
  <2> QED BY <2>1, <2>2, <2>3, CatSame
<1>2. [][Same]_vars <=> FilesUntouched
  BY PTL DEF FilesUntouched
<1> QED BY <1>1, <1>2, Inductive, PTL DEF Spec

-----------------------------------------------------------------------------
(* Calls that fail.                                                        *)

(* How a request leaves the state: a call that has taken nothing yet.      *)
Starts == /\ \/ pc' \in {"create", "rment", "ret"}
             \/ pc' = "addent" /\ call'.op = "rename"
          /\ old' = [ibm |-> ibm, bbm |-> bbm, blk |-> blk]
          /\ UNCHANGED <<disk, cwd, crashes, torn>>

LEMMA RequestStarts ==
  ASSUME Request PROVE Starts \/ \E i \in Live : FsCd(i)
<1>1. ASSUME NEW c, NEW l, NEW r, Begin(c, l, r), l \in {"create", "rment", "ret"}
      PROVE  Starts
  BY <1>1 DEF Begin, Starts
<1>2. ASSUME NEW p, NEW n, FsMkdir(p, n) \/ FsCreate(p, n) PROVE Starts
  BY <1>1, <1>2 DEF FsMkdir, FsCreate, Enter
<1>3. ASSUME NEW p, NEW n, FsDelete(p, n) PROVE Starts
  BY <1>1, <1>3 DEF FsDelete, Enter, Reject
<1>4. ASSUME NEW p, NEW n, FsRmdir(p, n) PROVE Starts
  BY <1>1, <1>4 DEF FsRmdir, Enter, Reject
<1>5. ASSUME NEW p, NEW n, NEW d, NEW k, FsWriteFile(p, n, d, k) PROVE Starts
  BY <1>1, <1>5 DEF FsWriteFile, Enter
<1>6. ASSUME NEW p, NEW n, NEW p2, NEW n2, FsCopy(p, n, p2, n2) PROVE Starts
  BY <1>1, <1>6 DEF FsCopy, Enter, Reject
<1>7. ASSUME NEW p, NEW n, NEW p2, NEW n2, FsRename(p, n, p2, n2) PROVE Starts
  <2> DEFINE c(i) == [[Path("rename", p, n) EXCEPT !.par2 = p2, !.comp2 = n2]
                        EXCEPT !.tgt = i]
  <2>1. \A i : c(i).op = "rename"
    BY DEF Path, NoCall
  <2>2. Reject("rename") \/ \E i \in Inodes : Enter(c(i), "addent")
    BY <1>7 DEF FsRename, RenameFrom
  <2>3. CASE Reject("rename")
    BY <1>1, <2>3 DEF Reject
  <2>4. CASE \E i \in Inodes : Enter(c(i), "addent")
    <3>1. PICK i : Begin(c(i), "addent", "none")
      BY <2>4 DEF Enter
    <3> HIDE DEF c
    <3> QED BY <2>1, <3>1 DEF Begin, Starts
  <2> QED BY <2>2, <2>3, <2>4
<1> QED BY <1>2, <1>3, <1>4, <1>5, <1>6, <1>7, Zenon DEF Request

LEMMA SameNamesStay ==
  ASSUME blk' = blk, old' = old, SameNames PROVE SameNames'
BY DEF SameNames, Link

LEMMA CleanStep ==
  ASSUME TypeOK, DiskInv, CallInv, CleanInv, Step PROVE CleanInv'
<1> DEFINE Fails == call.op \in {"mkdir", "rmdir", "create", "delete", "rename"}
<1>0. call.op \in Ops \cup {"none"} /\ call.inum \in Inodes /\ call.bnum \in Blocks
      /\ call \in Calls
  BY DEF TypeOK, Calls
<1>1. CASE CreateNode
  <2>1. pc = "create" /\ bbm' = bbm /\ blk' = blk /\ old' = old
    BY <1>1 DEF CreateNode
  <2>2. Fails => ibm = old.ibm /\ bbm = old.bbm /\ SameNames
    BY <2>1 DEF CleanInv, Untouched
  <2>3. CASE pc' = "clear"
    <3>1. PICK i \in Inodes : /\ LowestFreeInode(i) /\ ibm' = ibm \cup {i}
                              /\ call' = [call EXCEPT !.inum = i]
      BY <1>1, <2>3 DEF CreateNode, MarkedInode, Done
    <3>2. call'.op = call.op /\ call'.inum = i /\ i \notin ibm
      BY <3>1, <1>0 DEF LowestFreeInode, Calls
    <3> QED BY <2>1, <2>2, <2>3, <3>1, <3>2, SameNamesStay
            DEF CleanInv, Untouched, HasBlock, Filling
  <2>4. CASE pc' # "clear"
    <3>1. pc' = "ret" /\ ibm' = ibm /\ call' = call
      BY <1>1, <2>4 DEF CreateNode, Goto, Done
    <3> QED BY <2>1, <2>2, <3>1, SameNamesStay DEF CleanInv, Making
  <2> QED BY <2>3, <2>4
<1>2. CASE InodeClear
  <2>1. /\ pc = "clear" /\ pc' = (IF call.op = "mkdir" THEN "balloc" ELSE "winode")
        /\ ibm' = ibm /\ bbm' = bbm /\ blk' = blk /\ old' = old /\ call' = call
    BY <1>2 DEF InodeClear, Goto
  <2> QED BY <2>1, SameNamesStay DEF CleanInv, Untouched, Making, HasBlock, Filling, CallInv, OpInv
<1>3. CASE MkdirBlock
  <2>1. /\ pc = "balloc" /\ ibm' = ibm /\ blk' = blk /\ old' = old /\ call.op = "mkdir"
    BY <1>3 DEF MkdirBlock, CallInv, OpInv
  <2>2. /\ call.inum \notin old.ibm /\ ibm = old.ibm \cup {call.inum}
        /\ bbm = old.bbm /\ SameNames
    BY <2>1 DEF CleanInv, Making, HasBlock, Filling
  <2>3. CASE pc' = "winode"
    <3>1. PICK b \in Blocks : /\ LowestFreeBlock(b) /\ bbm' = bbm \cup {b}
                              /\ call' = [call EXCEPT !.bnum = b]
      BY <1>3, <2>3 DEF MkdirBlock, MarkedBlock, Goto
    <3>2. call'.op = call.op /\ call'.inum = call.inum /\ call'.bnum = b /\ b \notin bbm
      BY <3>1, <1>0 DEF LowestFreeBlock, Calls
    <3> QED BY <2>1, <2>2, <2>3, <3>1, <3>2, SameNamesStay
            DEF CleanInv, Untouched, HasBlock, Filling
  <2>4. CASE pc' # "winode"
    <3>1. pc' = "undoino" /\ bbm' = bbm /\ call' = call
      BY <1>3, <2>4 DEF MkdirBlock, Goto
    <3> QED BY <2>1, <2>2, <3>1, SameNamesStay
            DEF CleanInv, Untouched, HasBlock, Filling
  <2> QED BY <2>3, <2>4
<1>4. CASE WriteInode
  <2>1. /\ pc = "winode" /\ pc' = (IF call.op = "mkdir" THEN "wdir" ELSE "addent")
        /\ ibm' = ibm /\ bbm' = bbm /\ blk' = blk /\ old' = old /\ call' = call
        /\ call.op # "rename"
    BY <1>4 DEF WriteInode, Goto, CallInv, OpInv
  <2> QED BY <2>1, SameNamesStay DEF CleanInv, Untouched, Making, HasBlock, Filling
<1>5. CASE WriteDirBlock
  <2>1. /\ pc = "wdir" /\ pc' = "addent" /\ call.op = "mkdir"
        /\ ibm' = ibm /\ bbm' = bbm /\ old' = old /\ call' = call
        /\ blk' = [blk EXCEPT ![call.bnum] = NewDirBlock(call.inum, call.par)]
    BY <1>5 DEF WriteDirBlock, Goto, CallInv, OpInv
  <2>2. /\ SameNames /\ call.inum \notin old.ibm /\ ibm = old.ibm \cup {call.inum}
        /\ call.bnum \notin old.bbm /\ bbm = old.bbm \cup {call.bnum}
    BY <2>1 DEF CleanInv, Making, HasBlock
  <2>3. \A s \in Slots : ~Link(call.bnum, s)
    <3>1. call.bnum # 0 /\ \A i \in Inodes : IsLive(i) => ~Owns(i, call.bnum)
      BY <2>1 DEF CallInv, BlockInv, HasBlock
    <3> QED BY <1>0, <3>1, NoLinkIn
  <2>4. \A s \in Slots : NewDirBlock(call.inum, call.par).ents[s].name \notin Names
    BY NameAssumption DEF NewDirBlock, ZeroBlock, NoEntry
  <2>5. \A b \in Blocks, s \in Slots :
           /\ Link(b, s)' <=> Link(b, s)
           /\ Link(b, s) => blk'[b].ents[s].ino = blk[b].ents[s].ino
    <3> HIDE DEF NewDirBlock
    <3>1. \A b \in Blocks : b # call.bnum => blk'[b] = blk[b]
      BY <2>1 DEF TypeOK
    <3>2. blk'[call.bnum] = NewDirBlock(call.inum, call.par)
      BY <1>0, <2>1 DEF TypeOK
    <3> QED BY <2>3, <2>4, <3>1, <3>2 DEF Link
  <2>6. SameNames'
    BY <2>1, <2>2, <2>5 DEF SameNames
  <2> QED BY <2>1, <2>2, <2>6 DEF CleanInv, Untouched, HasBlock
<1>6. CASE AddDirent
  <2>1. /\ pc = "addent" /\ ibm' = ibm /\ bbm' = bbm /\ old' = old /\ call' = call
    BY <1>6 DEF AddDirent
  <2>2. CASE AddFailed /\ UNCHANGED blk
    BY <2>1, <2>2, SameNamesStay
       DEF AddFailed, Goto, Done, CleanInv, Untouched, Making, HasBlock, Filling
  <2>3. CASE ~(AddFailed /\ UNCHANGED blk)
    <3>1. \/ call.op = "rename" /\ pc' = "rment"
          \/ call.op \in {"copy", "write"}
          \/ pc' = "ret" /\ ret' = "ok"
      BY <1>6, <2>3 DEF AddDirent, Goto, Done
    <3> QED BY <2>1, <3>1 DEF CleanInv, Untouched, Making
  <2> QED BY <2>2, <2>3
<1>7. CASE RemoveDirent
  <2>1. /\ pc = "rment" /\ ibm' = ibm /\ bbm' = bbm /\ old' = old /\ call' = call
    BY <1>7 DEF RemoveDirent
  <2>2. CASE ~Found(call.par, call.comp) /\ UNCHANGED blk
    <3>1. call.op # "rename"
      BY <2>1, <2>2 DEF CallInv, RenameInv, Found, Matches, FirstWith
    <3>2. Fails => pc' = "ret"
      BY <1>7, <2>2 DEF RemoveDirent, Done, Found, Matches, FirstWith
    <3> QED BY <2>1, <2>2, <3>1, <3>2, SameNamesStay DEF CleanInv, Untouched, Making
  <2>3. CASE Removed
    <3>1. (pc' = "ret" /\ ret' = "ok") \/ pc' \in {"bfree", "ifree"}
      BY <2>3 DEF Removed, Goto, Done
    <3> QED BY <3>1 DEF CleanInv, Untouched, Making
  <2> QED BY <1>7, <2>2, <2>3 DEF RemoveDirent
<1>8. CASE FreeBlock
  BY <1>8 DEF FreeBlock, Goto, CleanInv, Untouched, Making
<1>9. CASE FreeInode
  BY <1>9 DEF FreeInode, Goto, Done, CleanInv, Untouched, Making
<1>10. CASE UndoBlock
  <2>1. /\ pc = "undoblk" /\ pc' = "undoino" /\ call.op = "mkdir" /\ bbm' = bbm \ {call.bnum}
        /\ ibm' = ibm /\ blk' = blk /\ old' = old /\ call' = call
    BY <1>10 DEF UndoBlock, Goto, CallInv, OpInv
  <2>2. /\ SameNames /\ call.inum \notin old.ibm /\ ibm = old.ibm \cup {call.inum}
        /\ call.bnum \notin old.bbm /\ bbm = old.bbm \cup {call.bnum}
    BY <2>1 DEF CleanInv, Making, HasBlock
  <2>3. bbm' = old.bbm
    BY <2>1, <2>2
  <2> QED BY <2>1, <2>2, <2>3, SameNamesStay DEF CleanInv, Untouched, HasBlock, Filling
<1>11. CASE UndoInode
  <2>1. /\ pc = "undoino" /\ pc' = "ret" /\ ibm' = ibm \ {call.inum} /\ call.op # "rename"
        /\ bbm' = bbm /\ blk' = blk /\ old' = old /\ call' = call
    BY <1>11 DEF UndoInode, Done, CallInv, OpInv
  <2>2. Fails => /\ SameNames /\ call.inum \notin old.ibm /\ ibm = old.ibm \cup {call.inum}
                 /\ bbm = old.bbm
    BY <2>1 DEF CleanInv, Making, HasBlock, Filling
  <2>3. Fails => ibm' = old.ibm
    BY <2>1, <2>2
  <2> QED BY <2>1, <2>2, <2>3, SameNamesStay DEF CleanInv, Making
<1>12. CASE FillBlock
  <2>1. call'.op = call.op /\ call.op \in {"copy", "write"}
    BY <1>0, <1>12 DEF FillBlock, CallInv, OpInv, Calls
  <2> QED BY <2>1 DEF CleanInv
<1>13. CASE WriteData \/ WriteFinal
  <2>1. call'.op = call.op /\ call.op \in {"copy", "write"}
    BY <1>13 DEF WriteData, WriteFinal, CallInv, OpInv
  <2> QED BY <2>1 DEF CleanInv
<1>14. CASE Return
  BY <1>14 DEF Return, CleanInv, NoCall
<1> QED BY <1>1, <1>2, <1>3, <1>4, <1>5, <1>6, <1>7, <1>8, <1>9, <1>10, <1>11, <1>12,
           <1>13, <1>14 DEF Step

(* A fs_mkdir, fs_create, fs_rmdir, fs_delete or fs_rename that fails has  *)
(* given back the inode and the block it had taken, and has added and      *)
(* removed no name: the bitmaps and the entries are as they were.          *)
THEOREM FailuresAreClean == Spec => []FailureIsClean
<1> DEFINE Inv == torn \/ CleanInv
<1>1. Init => Inv
  BY DEF Init, CleanInv, NoCall
<1>2. IndInv /\ Inv /\ [Next]_vars => Inv'
  <2> SUFFICES ASSUME IndInv, Inv, [Next]_vars, ~torn PROVE CleanInv' \/ torn'
    BY TornStays DEF IndInv
  <2>1. TypeOK /\ DiskInv /\ CallInv /\ CleanInv
    BY DEF IndInv
  <2>2. CASE Step
    BY <2>1, <2>2, CleanStep
  <2>3. CASE Request
    <3>1. CASE Starts
      <4>1. SameNames'
        BY <3>1 DEF Starts, disk, SameNames, Link
      <4> QED BY <3>1, <4>1 DEF Starts, disk, CleanInv, Making
    <3>2. CASE \E i \in Live : FsCd(i)
      <4>1. UNCHANGED <<ibm, bbm, itab, blk, pc, call, ret, old>>
        BY <3>2 DEF FsCd, disk
      <4>2. SameNames => SameNames'
        BY <4>1, SameNamesStay
      <4> QED BY <2>1, <4>1, <4>2 DEF CleanInv, Untouched, Making, HasBlock, Filling
    <3> QED BY <2>3, <3>1, <3>2, RequestStarts
  <2>4. CASE Crash
    BY <2>4 DEF Crash, CleanInv, NoCall
  <2>5. CASE UNCHANGED vars
    <3>1. UNCHANGED <<ibm, bbm, itab, blk, pc, call, ret, old>>
      BY <2>5 DEF vars
    <3>2. SameNames => SameNames'
      BY <3>1, SameNamesStay
    <3> QED BY <2>1, <3>1, <3>2 DEF CleanInv, Untouched, Making, HasBlock, Filling
  <2> QED BY <2>2, <2>3, <2>4, <2>5 DEF Next
<1>3. IndInv /\ Inv => FailureIsClean
  <2> SUFFICES ASSUME ~torn, TypeOK, CleanInv, pc = "ret", ret = "fail",
                      call.op \in {"mkdir", "rmdir", "create", "delete", "rename"}
               PROVE  /\ ibm = old.ibm /\ bbm = old.bbm
                      /\ Links = LinksIn(old.blk)
                      /\ \A l \in Links : LinkIno(l) = old.blk[l[1]].ents[l[2]].ino
    BY DEF FailureIsClean, IndInv
  <2>1. ibm = old.ibm /\ bbm = old.bbm /\ SameNames
    BY DEF CleanInv, Untouched
  <2>2. Links = LinksIn(old.blk)
    BY <2>1 DEF Links, LinksIn, SameNames, Link
  <2>3. ASSUME NEW l \in Links PROVE LinkIno(l) = old.blk[l[1]].ents[l[2]].ino
    <3>1. l[1] \in Blocks /\ l[2] \in Slots /\ Link(l[1], l[2])
      BY DEF Links, LinksIn, Link
    <3> QED BY <2>1, <3>1 DEF SameNames, LinkIno
  <2> QED BY <2>1, <2>2, <2>3
<1> HIDE DEF Inv
<1> QED BY <1>1, <1>2, <1>3, Inductive, PTL DEF Spec

-----------------------------------------------------------------------------
(* What is marked used.                                                    *)

(* Nothing is leaked by a step that takes only what its call then holds,   *)
(* and lets go only of what it gives back or gives a name.                 *)
LEMMA HeldFrame ==
  ASSUME InodesHeld, BlocksHeld,
         \A i \in Inodes : i \in ibm' => i \in ibm \/ HeldInode(i)',
         \A i \in Inodes : IsLive(i) \/ HeldInode(i) =>
           IsLive(i)' \/ HeldInode(i)' \/ i \notin ibm',
         \A b \in Blocks : b \in bbm' => b \in bbm \/ HeldBlock(b)',
         \A b \in Blocks :
           HeldBlock(b) \/ (\E i \in Inodes : IsLive(i) /\ Owns(i, b)) =>
             \/ b \notin bbm' \/ HeldBlock(b)' \/ Listed(b)
             \/ \E i \in Inodes : IsLive(i)' /\ Owns(i, b)'
  PROVE  InodesHeld' /\ BlocksHeld'
<1>1. InodesHeld'
  BY DEF InodesHeld
<1>2. \A b \in Blocks : Listed(b)' <=> Listed(b)
  BY DEF Listed
<1>3. BlocksHeld'
  <2> HIDE DEF HeldBlock, Listed
  <2> QED BY <1>2 DEF BlocksHeld
<1> QED BY <1>1, <1>3

Leakless == InodesHeld /\ BlocksHeld /\ KeptInv /\ ListedInv /\ FreshInv

(* The steps that write neither an inode nor a block.                      *)
LEMMA LeakBitmap ==
  ASSUME TypeOK, TypeOK', DiskInv, CallInv, Leakless,
         \/ CreateNode \/ MkdirBlock \/ FreeBlock \/ FreeInode \/ UndoBlock
         \/ UndoInode \/ FillBlock \/ Return
  PROVE  Leakless'
<1>0. /\ call \in Calls /\ call.inum \in Inodes /\ call.bnum \in Blocks /\ call.tgt \in Inodes
      /\ ibm \in SUBSET Inodes /\ bbm \in SUBSET Blocks
  BY DEF TypeOK, Calls
<1>1. itab' = itab /\ blk' = blk
  BY DEF CreateNode, MkdirBlock, FreeBlock, FreeInode, UndoBlock, UndoInode, FillBlock,
         Return, disk
<1>2. /\ \A i \in Inodes : IsLive(i)' <=> IsLive(i)
      /\ \A i \in Inodes, b \in Blocks : Owns(i, b)' <=> Owns(i, b)
  BY <1>1, SameLookups
<1>3. ListedInv'
  BY <1>1 DEF Leakless, ListedInv, Listed
<1>4. \A b \in Blocks : Listed(b)' <=> Listed(b)
  BY DEF Listed
<1>5. \A b \in Blocks : Listed(b) => b \in bbm /\ ~HeldBlock(b) /\ \A i \in Inodes : itab[i].direct # b
  BY DEF Leakless, KeptInv
<1>6. InodesHeld /\ BlocksHeld
  BY DEF Leakless
<1>7. ASSUME NEW x \in Blocks, x \notin bbm, pc \notin {"fill"} \/ call'.inum = call.inum,
             pc \in {"balloc", "fill"}, bbm' = bbm \cup {x}, ibm' = ibm,
             pc' = (IF pc = "balloc" THEN "winode" ELSE "wdata"),
             call'.bnum = x, call'.inum = call.inum, call'.op = call.op
      PROVE  Leakless'
  <2>1. /\ pc = "balloc" => call.op = "mkdir"
        /\ pc = "fill" => call.op \in {"copy", "write"}
    BY <1>7 DEF CallInv, OpInv
  <2>2. \A b \in Blocks : HeldBlock(b)' <=> b = x
    BY <1>7, <2>1 DEF HeldBlock, HasBlock, Filling
  <2>3. \A b \in Blocks : ~HeldBlock(b)
    BY <1>7, <2>1 DEF HeldBlock, HasBlock, Filling
  <2>4. \A i \in Inodes : HeldInode(i)' <=> HeldInode(i)
    BY <1>7, <2>1 DEF HeldInode, Making
  <2> HIDE DEF HeldBlock, HeldInode
  <2>5. InodesHeld' /\ BlocksHeld'
    BY <1>2, <1>6, <1>7, <2>2, <2>3, <2>4, HeldFrame
  <2>6. KeptInv'
    BY <1>1, <1>4, <1>5, <1>7, <2>2 DEF KeptInv
  <2>7. FreshInv'
    BY <1>1, <1>7 DEF Leakless, FreshInv, Filling
  <2> QED BY <1>3, <2>5, <2>6, <2>7 DEF Leakless
<1>8. ASSUME pc' \notin {"fill", "wdata", "wfinal"}, \A b \in Blocks : ~HeldBlock(b)',
             \A b \in Blocks : HeldBlock(b) => b \notin bbm',
             \A b \in Blocks : Listed(b) => b \in bbm',
             bbm' \subseteq bbm,
             \A i \in Inodes : i \in ibm' => i \in ibm \/ HeldInode(i)',
             \A i \in Inodes : HeldInode(i) => HeldInode(i)' \/ i \notin ibm'
      PROVE  Leakless'
  <2> HIDE DEF HeldBlock, HeldInode
  <2>1. InodesHeld' /\ BlocksHeld'
    BY <1>2, <1>6, <1>8, HeldFrame
  <2>2. KeptInv'
    BY <1>1, <1>4, <1>5, <1>8 DEF KeptInv
  <2>3. FreshInv'
    BY <1>8 DEF FreshInv, Filling
  <2> QED BY <1>3, <2>1, <2>2, <2>3 DEF Leakless
<1>9. CASE CreateNode
  <2>1. pc = "create" /\ bbm' = bbm /\ call.op \in {"mkdir", "create", "copy", "write"}
    BY <1>9 DEF CreateNode, CallInv, OpInv
  <2>2. (pc' = "clear" /\ \E i \in Inodes : ibm' = ibm \cup {i} /\ call' = [call EXCEPT !.inum = i])
        \/ (pc' = "ret" /\ ibm' = ibm)
    BY <1>9 DEF CreateNode, Goto, Done, MarkedInode
  <2>3. pc' = "clear" => call'.op = call.op /\ ibm' = ibm \cup {call'.inum}
    BY <1>0, <2>2 DEF Calls
  <2>4. \A b \in Blocks : ~HeldBlock(b) /\ ~HeldBlock(b)'
    BY <2>1, <2>2 DEF HeldBlock, HasBlock, Filling
  <2>5. \A i \in Inodes : ~HeldInode(i)
    BY <2>1 DEF HeldInode, Making
  <2>6. \A i \in Inodes : i \in ibm' => i \in ibm \/ HeldInode(i)'
    BY <2>1, <2>2, <2>3 DEF HeldInode, Making
  <2> HIDE DEF HeldBlock, HeldInode
  <2> QED BY <1>5, <1>8, <2>1, <2>2, <2>4, <2>5, <2>6
<1>10. CASE MkdirBlock
  <2>1. pc = "balloc" /\ ibm' = ibm /\ call.op = "mkdir"
    BY <1>10 DEF MkdirBlock, CallInv, OpInv
  <2>2. CASE pc' = "winode"
    <3>1. PICK x \in Blocks : x \notin bbm /\ bbm' = bbm \cup {x} /\ call' = [call EXCEPT !.bnum = x]
      BY <1>10, <2>2 DEF MkdirBlock, Goto, MarkedBlock, LowestFreeBlock
    <3>2. call'.bnum = x /\ call'.inum = call.inum /\ call'.op = call.op
      BY <1>0, <3>1 DEF Calls
    <3> QED BY <1>7, <2>1, <2>2, <3>1, <3>2
  <2>3. CASE pc' # "winode"
    <3>1. pc' = "undoino" /\ bbm' = bbm /\ call' = call
      BY <1>10, <2>3 DEF MkdirBlock, Goto
    <3>2. \A b \in Blocks : ~HeldBlock(b) /\ ~HeldBlock(b)'
      BY <2>1, <3>1 DEF HeldBlock, HasBlock, Filling
    <3>3. \A i \in Inodes : HeldInode(i)' <=> HeldInode(i)
      BY <2>1, <3>1 DEF HeldInode, Making
    <3> HIDE DEF HeldBlock, HeldInode
    <3> QED BY <1>5, <1>8, <2>1, <3>1, <3>2, <3>3
  <2> QED BY <2>2, <2>3
<1>11. CASE FreeBlock
  <2>1. pc = "bfree" /\ pc' = "ifree" /\ ibm' = ibm /\ call' = call
        /\ bbm' = bbm \ {itab[call.tgt].direct}
    BY <1>11 DEF FreeBlock, Goto
  <2>2. \A b \in Blocks : (HeldBlock(b) <=> b = itab[call.tgt].direct) /\ ~HeldBlock(b)'
    BY <2>1 DEF HeldBlock, HasBlock, Filling
  <2>3. \A i \in Inodes : HeldInode(i)' <=> HeldInode(i)
    BY <2>1 DEF HeldInode, Making
  <2> HIDE DEF HeldBlock, HeldInode
  <2> QED BY <1>0, <1>5, <1>8, <2>1, <2>2, <2>3
<1>12. CASE FreeInode
  <2>1. pc = "ifree" /\ pc' \in {"create", "ret"} /\ bbm' = bbm /\ ibm' = ibm \ {call.tgt}
    BY <1>12 DEF FreeInode, Goto, Done
  <2>2. \A b \in Blocks : ~HeldBlock(b) /\ ~HeldBlock(b)'
    BY <2>1 DEF HeldBlock, HasBlock, Filling
  <2>3. \A i \in Inodes : HeldInode(i) => i = call.tgt
    BY <2>1 DEF HeldInode, Making
  <2> HIDE DEF HeldBlock, HeldInode
  <2> QED BY <1>5, <1>8, <2>1, <2>2, <2>3
<1>13. CASE UndoBlock
  <2>1. pc = "undoblk" /\ pc' = "undoino" /\ call.op = "mkdir" /\ ibm' = ibm /\ call' = call
        /\ bbm' = bbm \ {call.bnum}
    BY <1>13 DEF UndoBlock, Goto, CallInv, OpInv
  <2>2. \A b \in Blocks : (HeldBlock(b) <=> b = call.bnum) /\ ~HeldBlock(b)'
    BY <2>1 DEF HeldBlock, HasBlock, Filling
  <2>3. \A i \in Inodes : HeldInode(i)' <=> HeldInode(i)
    BY <2>1 DEF HeldInode, Making
  <2> HIDE DEF HeldBlock, HeldInode
  <2> QED BY <1>0, <1>5, <1>8, <2>1, <2>2, <2>3
<1>14. CASE UndoInode
  <2>1. pc = "undoino" /\ pc' = "ret" /\ bbm' = bbm /\ ibm' = ibm \ {call.inum}
    BY <1>14 DEF UndoInode, Done
  <2>2. \A b \in Blocks : ~HeldBlock(b) /\ ~HeldBlock(b)'
    BY <2>1 DEF HeldBlock, HasBlock, Filling
  <2>3. \A i \in Inodes : HeldInode(i) => i = call.inum
    BY <2>1 DEF HeldInode, Making
  <2> HIDE DEF HeldBlock, HeldInode
  <2> QED BY <1>5, <1>8, <2>1, <2>2, <2>3
<1>15. CASE FillBlock
  <2>1. pc = "fill" /\ ibm' = ibm /\ call.comp \in Names /\ call.op \in {"copy", "write"}
    BY <1>15 DEF FillBlock, CallInv, PathInv, OpInv
  <2>2. CASE pc' = "wdata"
    <3>1. PICK i \in Inodes, x \in Blocks :
             /\ Resolves(call.par, call.comp, i)
             /\ x \notin bbm /\ bbm' = bbm \cup {x}
             /\ call' = [call EXCEPT !.inum = i, !.bnum = x,
                           !.buf = IF call.op = "copy" THEN blk[call.sblk].data ELSE @]
      BY <1>15, <2>2 DEF FillBlock, Done, MarkedBlock, LowestFreeBlock
    <3>2. call'.bnum = x /\ call'.inum = i /\ call'.op = call.op
      BY <1>0, <3>1 DEF Calls
    <3>3. i = call.inum
      BY <2>1, <3>1, NameAssumption DEF Resolves, Matches, FirstWith, CallInv, FillInv
    <3> QED BY <1>7, <2>1, <2>2, <3>1, <3>2, <3>3
  <2>3. CASE pc' # "wdata"
    <3>1. pc' = "ret" /\ bbm' = bbm /\ call' = call
      BY <1>15, <2>3 DEF FillBlock, Goto, Done
    <3>2. \A b \in Blocks : ~HeldBlock(b) /\ ~HeldBlock(b)'
      BY <2>1, <3>1 DEF HeldBlock, HasBlock, Filling
    <3>3. \A i \in Inodes : ~HeldInode(i)
      BY <2>1, <3>1 DEF HeldInode, Making
    <3> HIDE DEF HeldBlock, HeldInode
    <3> QED BY <1>5, <1>8, <2>1, <3>1, <3>2, <3>3
  <2> QED BY <2>2, <2>3
<1>16. CASE Return
  <2>1. pc = "ret" /\ pc' = "idle" /\ bbm' = bbm /\ ibm' = ibm
    BY <1>16 DEF Return, disk
  <2>2. \A b \in Blocks : ~HeldBlock(b) /\ ~HeldBlock(b)'
    BY <2>1 DEF HeldBlock, HasBlock, Filling
  <2>3. \A i \in Inodes : ~HeldInode(i)
    BY <2>1 DEF HeldInode, Making
  <2> HIDE DEF HeldBlock, HeldInode
  <2> QED BY <1>5, <1>8, <2>1, <2>2, <2>3
<1> QED BY <1>9, <1>10, <1>11, <1>12, <1>13, <1>14, <1>15, <1>16

(* The steps that write an inode.                                          *)
LEMMA LeakInode ==
  ASSUME TypeOK, TypeOK', DiskInv, CallInv, Leakless,
         InodeClear \/ WriteInode \/ WriteFinal
  PROVE  Leakless'
<1>0. /\ call.inum \in Inodes /\ call.bnum \in Blocks /\ call.tgt \in Inodes
      /\ itab \in [Inodes -> InodeRecords]
  BY DEF TypeOK, Calls
<1>1. ibm' = ibm /\ bbm' = bbm /\ blk' = blk /\ call' = call
  BY DEF InodeClear, WriteInode, WriteFinal
<1>2. \A i \in Inodes : IsLive(i)' <=> IsLive(i)
  BY <1>1 DEF IsLive, Link
<1>3. \A b \in Blocks : Listed(b)' <=> Listed(b)
  BY DEF Listed
<1>4. \A b \in Blocks : Listed(b) => b \in bbm /\ ~HeldBlock(b) /\ \A i \in Inodes : itab[i].direct # b
  BY DEF Leakless, KeptInv
<1>5. InodesHeld /\ BlocksHeld
  BY DEF Leakless
<1>6. CASE InodeClear \/ WriteInode
  <2> DEFINE v == itab'[call.inum]
  <2>1. /\ pc = "clear" => pc' = (IF call.op = "mkdir" THEN "balloc" ELSE "winode")
        /\ pc = "winode" => pc' = (IF call.op = "mkdir" THEN "wdir" ELSE "addent")
        /\ pc \in {"clear", "winode"} /\ call.op \in {"mkdir", "create", "copy", "write"}
    BY <1>6 DEF InodeClear, WriteInode, Goto, CallInv, OpInv
  <2>2. \A i \in Inodes : i # call.inum => itab'[i] = itab[i]
    BY <1>0, <1>6 DEF InodeClear, WriteInode
  <2>3. /\ v.indirect = <<>>
        /\ v.direct = 0 \/ (pc = "winode" /\ call.op = "mkdir" /\ v.direct = call.bnum)
    <3>1. CASE InodeClear
      BY <1>0, <3>1 DEF InodeClear, ZeroInode
    <3>2. CASE WriteInode
      <4>1. /\ [ZeroInode EXCEPT !.type = "dir", !.direct = call.bnum].direct = call.bnum
            /\ [ZeroInode EXCEPT !.type = "dir", !.direct = call.bnum].indirect = <<>>
            /\ [ZeroInode EXCEPT !.type = "file"].direct = 0
            /\ [ZeroInode EXCEPT !.type = "file"].indirect = <<>>
        BY DEF ZeroInode
      <4> QED BY <1>0, <3>2, <4>1 DEF WriteInode
    <3> QED BY <1>6, <3>1, <3>2
  <2>4. ~IsLive(call.inum)
    BY <2>1 DEF CallInv, MakeInv, Making
  <2>5. \A i \in Inodes, b \in Blocks : IsLive(i) => (Owns(i, b)' <=> Owns(i, b))
    BY <2>2, <2>4 DEF Owns
  <2>6. \A b \in Blocks : HeldBlock(b)' <=> HeldBlock(b)
    BY <1>1, <2>1 DEF HeldBlock, HasBlock, Filling
  <2>7. \A i \in Inodes : HeldInode(i)' <=> HeldInode(i)
    BY <1>1, <2>1 DEF HeldInode, Making
  <2>8. pc = "winode" /\ call.op = "mkdir" => HeldBlock(call.bnum)
    BY DEF HeldBlock, HasBlock
  <2>9. FreshInv'
    BY <2>1 DEF FreshInv, Filling
  <2>10. ListedInv'
    <3>1. \A k \in DOMAIN v.indirect : FALSE
      BY <2>3
    <3> HIDE DEF v
    <3> QED BY <2>2, <3>1 DEF Leakless, ListedInv, Listed, v
  <2> HIDE DEF HeldBlock, HeldInode, v
  <2>11. InodesHeld' /\ BlocksHeld'
    BY <1>1, <1>2, <1>5, <2>5, <2>6, <2>7, HeldFrame
  <2>12. KeptInv'
    <3> SUFFICES ASSUME NEW b \in Blocks, Listed(b)
                 PROVE  b \in bbm' /\ ~HeldBlock(b)' /\ \A i \in Inodes : itab'[i].direct # b
      BY <1>3 DEF KeptInv
    <3>1. v.direct # b
      BY <1>4, <2>3, <2>8 DEF Listed
    <3> QED BY <1>1, <1>4, <2>2, <2>6, <3>1 DEF v
  <2> QED BY <2>9, <2>10, <2>11, <2>12 DEF Leakless
<1>7. CASE WriteFinal
  <2>1. pc = "wfinal" /\ pc' = "ret"
    BY <1>7 DEF WriteFinal, Done
  <2>2. \A i \in Inodes : i # call.inum => itab'[i] = itab[i]
    BY <1>0, <1>7 DEF WriteFinal
  <2>3. itab'[call.inum].direct = call.bnum /\ itab'[call.inum].indirect = itab[call.inum].indirect
    BY <1>0, <1>7 DEF WriteFinal, InodeRecords
  <2>4. IsLive(call.inum) /\ itab[call.inum].direct = 0 /\ call.bnum # 0
    BY <2>1 DEF CallInv, FillInv, BlockInv, HasBlock, Filling, Leakless, FreshInv
  <2>5. \A i \in Inodes, b \in Blocks : Owns(i, b) => Owns(i, b)'
    <3> SUFFICES ASSUME NEW i \in Inodes, NEW b \in Blocks, Owns(i, b) PROVE Owns(i, b)'
      OBVIOUS
    <3>1. CASE i # call.inum
      BY <2>2, <3>1 DEF Owns
    <3>2. CASE i = call.inum
      BY <2>3, <2>4, <3>2 DEF Owns
    <3> QED BY <3>1, <3>2
  <2>6. \A i \in Inodes, b \in Blocks : i = call.inum /\ b = call.bnum => Owns(i, b)'
    BY <1>1, <2>3, <2>4 DEF Owns
  <2>7. \A b \in Blocks : ~HeldBlock(b)' /\ (HeldBlock(b) <=> b = call.bnum)
    BY <2>1 DEF HeldBlock, HasBlock, Filling
  <2>8. \A i \in Inodes : ~HeldInode(i)
    BY <2>1 DEF HeldInode, Making
  <2>9. FreshInv'
    BY <2>1 DEF FreshInv, Filling
  <2>10. ListedInv'
    BY <2>2, <2>3 DEF Leakless, ListedInv, Listed
  <2> HIDE DEF HeldBlock, HeldInode
  <2>11. InodesHeld' /\ BlocksHeld'
    <3>1. \A i \in Inodes : IsLive(i) \/ HeldInode(i) =>
             IsLive(i)' \/ HeldInode(i)' \/ i \notin ibm'
      BY <1>2, <2>8
    <3>2. \A b \in Blocks :
             HeldBlock(b) \/ (\E i \in Inodes : IsLive(i) /\ Owns(i, b)) =>
               \/ b \notin bbm' \/ HeldBlock(b)' \/ Listed(b)
               \/ \E i \in Inodes : IsLive(i)' /\ Owns(i, b)'
      BY <1>0, <1>2, <2>4, <2>5, <2>6, <2>7
    <3> QED BY <1>1, <1>5, <3>1, <3>2, HeldFrame
  <2>12. KeptInv'
    <3> SUFFICES ASSUME NEW b \in Blocks, Listed(b)
                 PROVE  b \in bbm' /\ ~HeldBlock(b)' /\ \A i \in Inodes : itab'[i].direct # b
      BY <1>3 DEF KeptInv
    <3> QED BY <1>1, <1>4, <2>2, <2>3, <2>7
  <2> QED BY <2>9, <2>10, <2>11, <2>12 DEF Leakless
<1> QED BY <1>6, <1>7

(* The steps that write a block.                                           *)
LEMMA LeakBlock ==
  ASSUME TypeOK, TypeOK', DiskInv, CallInv, Leakless, itab' = itab, ibm' = ibm, bbm' = bbm,
         call' = call, pc' \notin {"bfree", "wdata"},
         pc' = "fill" => itab[call.inum].direct = 0, pc' = "wfinal" => pc = "wdata",
         \A b \in Blocks : HeldBlock(b)' => HeldBlock(b),
         \A i \in Inodes : IsLive(i) \/ HeldInode(i) => IsLive(i)' \/ HeldInode(i)',
         \A b \in Blocks : HeldBlock(b) =>
           HeldBlock(b)' \/ \E i \in Inodes : IsLive(i)' /\ Owns(i, b),
         \A i \in Inodes : IsLive(i) => IsLive(i)'
  PROVE  Leakless'
<1>1. \A b \in Blocks : Listed(b)' <=> Listed(b)
  BY DEF Listed
<1>2. \A b \in Blocks : Listed(b) => b \in bbm /\ ~HeldBlock(b) /\ \A i \in Inodes : itab[i].direct # b
  BY DEF Leakless, KeptInv
<1>3. InodesHeld /\ BlocksHeld
  BY DEF Leakless
<1>4. \A i \in Inodes, b \in Blocks : Owns(i, b)' <=> Owns(i, b)
  BY DEF Owns
<1>5. ListedInv'
  BY DEF Leakless, ListedInv, Listed
<1>6. FreshInv'
  BY DEF Leakless, FreshInv, Filling
<1> HIDE DEF HeldBlock, HeldInode
<1>7. InodesHeld' /\ BlocksHeld'
  BY <1>3, <1>4, HeldFrame
<1>8. KeptInv'
  BY <1>1, <1>2 DEF KeptInv
<1> QED BY <1>5, <1>6, <1>7, <1>8 DEF Leakless

LEMMA LeakData ==
  ASSUME TypeOK, TypeOK', DiskInv, CallInv, Leakless, WriteDirBlock \/ WriteData
  PROVE  Leakless'
<1>0. call.inum \in Inodes /\ call.bnum \in Blocks
  BY DEF TypeOK, Calls
<1>1. ibm' = ibm /\ bbm' = bbm /\ itab' = itab /\ call' = call /\ cwd' = cwd
  BY DEF WriteDirBlock, WriteData
<1>2. \/ pc = "wdir" /\ pc' = "addent" /\ call.op = "mkdir"
      \/ pc = "wdata" /\ pc' = "wfinal"
  BY DEF WriteDirBlock, WriteData, Goto, CallInv, OpInv
<1>3. HasBlock /\ ~Renaming
  BY <1>2 DEF HasBlock, Filling, Renaming
<1>4. call.bnum # 0 /\ \A i \in Inodes : IsLive(i) => ~Owns(i, call.bnum)
  BY <1>3 DEF CallInv, BlockInv
<1>5. PICK v : /\ blk' = [blk EXCEPT ![call.bnum] = v]
               /\ \A s \in Slots : v.ents[s].name \notin Names
  <2>1. \A s \in Slots : NewDirBlock(call.inum, call.par).ents[s].name \notin Names
    BY NameAssumption DEF NewDirBlock, ZeroBlock, NoEntry
  <2>2. \A s \in Slots : DataBlock(call.buf).ents[s].name \notin Names
    BY NameAssumption DEF DataBlock, ZeroBlock, NoEntry
  <2> HIDE DEF NewDirBlock, DataBlock
  <2> QED BY <2>1, <2>2 DEF WriteDirBlock, WriteData
<1>6. \A i \in Inodes : IsLive(i)' <=> IsLive(i)
  BY <1>0, <1>1, <1>3, <1>4, <1>5, FrameBlock
<1>7. \A b \in Blocks : HeldBlock(b)' <=> HeldBlock(b)
  BY <1>1, <1>2 DEF HeldBlock, HasBlock, Filling
<1>8. \A i \in Inodes : HeldInode(i)' <=> HeldInode(i)
  BY <1>1, <1>2 DEF HeldInode, Making
<1> HIDE DEF HeldBlock, HeldInode
<1> QED BY <1>1, <1>2, <1>6, <1>7, <1>8, LeakBlock

LEMMA LeakAdd ==
  ASSUME TypeOK, TypeOK', DiskInv, CallInv, Leakless, AddDirent PROVE Leakless'
<1>0. /\ call.inum \in Inodes /\ call.bnum \in Blocks /\ call.par \in Inodes
      /\ call.par2 \in Inodes /\ call.tgt \in Inodes
  BY DEF TypeOK, Calls
<1>1. /\ pc = "addent" /\ call' = call /\ ibm' = ibm /\ bbm' = bbm
      /\ itab' = itab
      /\ call.op \in {"mkdir", "create", "copy", "write", "rename"}
  BY DEF AddDirent, CallInv, OpInv
<1>2. CASE AddFailed /\ blk' = blk
  <2>1. pc' = CASE call.op = "rename" -> "ret" [] call.op = "mkdir" -> "undoblk" [] OTHER -> "undoino"
    BY <1>2 DEF AddFailed, Goto, Done
  <2>2. \A i \in Inodes : IsLive(i)' <=> IsLive(i)
    BY <1>2 DEF IsLive, Link
  <2>3. \A b \in Blocks : HeldBlock(b)' <=> HeldBlock(b)
    BY <1>1, <2>1 DEF HeldBlock, HasBlock, Filling
  <2>4. \A i \in Inodes : HeldInode(i)' <=> HeldInode(i)
    BY <1>1, <2>1 DEF HeldInode, Making
  <2>5. pc' \in {"ret", "undoblk", "undoino"}
    BY <2>1
  <2> HIDE DEF HeldBlock, HeldInode
  <2> QED BY <1>1, <2>2, <2>3, <2>4, <2>5, LeakBlock
<1>3. CASE ~(AddFailed /\ blk' = blk)
  <2> DEFINE ren == call.op = "rename"
             d == IF ren THEN call.par2 ELSE call.par
             x == IF ren THEN call.tgt ELSE call.inum
             e == [ino |-> x, name |-> Stored(IF ren THEN call.comp2 ELSE call.comp)]
  <2>1. /\ \E u \in Slots : /\ Matches(d, NoName, u)
                            /\ blk' = [blk EXCEPT ![itab[d].direct].ents[u] = e]
        /\ pc' = CASE ren -> "rment" [] call.op \in {"copy", "write"} -> "fill" [] OTHER -> "ret"
    BY <1>3 DEF AddDirent, Goto, Done
  <2>2. d \in Inodes /\ x \in Inodes /\ e.ino = x
    BY <1>0
  <2>3. ~ren => e.name \in Names
    <3>1. ~ren => call.comp \in Names
      BY <1>1 DEF CallInv, PathInv, Making
    <3> QED BY <3>1, StoredName
  <2> HIDE DEF d, e
  <2>4. PICK u \in Slots : /\ Ents(d)[u].name = NoName
                           /\ blk' = [blk EXCEPT ![itab[d].direct].ents[u] = e]
    BY <2>1 DEF Matches, FirstWith
  <2>5. /\ \A b \in Blocks, s \in Slots :
             b # itab[d].direct \/ s # u => blk'[b].ents[s] = blk[b].ents[s]
        /\ blk'[itab[d].direct].ents[u] = e
        /\ itab[d].direct \in Blocks
    <3>1. d \in Inodes
      BY <2>2
    <3>2. itab[d].direct \in Blocks
      BY <3>1, LookupType
    <3> QED BY <3>2, <2>4 DEF TypeOK, BlockContents
  <2>6. \A i \in Inodes : IsLive(i) => IsLive(i)'
    <3>1. ~Link(itab[d].direct, u)
      BY <2>4, NameAssumption DEF Link, Ents
    <3>2. \A b \in Blocks, s \in Slots :
             Link(b, s) => Link(b, s)' /\ blk'[b].ents[s].ino = blk[b].ents[s].ino
      BY <2>5, <3>1 DEF Link
    <3> QED BY <3>2, LinksKept
  <2>7. \A i \in Inodes : ~ren /\ i = call.inum => IsLive(i)'
    BY <2>2, <2>3, <2>5 DEF IsLive, Link
  <2>8. \A i \in Inodes : HeldInode(i) => ~ren /\ i = call.inum
    BY <1>1 DEF HeldInode, Making
  <2>9. \A b \in Blocks : HeldBlock(b) => call.op = "mkdir" /\ b = call.bnum
    BY <1>1 DEF HeldBlock, HasBlock, Filling
  <2>10. \A b \in Blocks : ~HeldBlock(b)'
    BY <2>1 DEF HeldBlock, HasBlock, Filling
  <2>11. call.op = "mkdir" => Owns(call.inum, call.bnum)
    <3>1. CASE call.op = "mkdir"
      <4>1. itab[call.inum] = [ZeroInode EXCEPT !.type = "dir", !.direct = call.bnum]
        BY <1>1, <3>1 DEF CallInv, MakeInv
      <4>2. itab[call.inum].direct = call.bnum
        BY <4>1 DEF ZeroInode
      <4>3. call.bnum # 0
        BY <1>1, <3>1 DEF CallInv, BlockInv, HasBlock
      <4> QED BY <4>2, <4>3 DEF Owns
    <3> QED BY <3>1
  <2>12. pc' = "fill" => itab[call.inum].direct = 0
    <3>1. CASE call.op \in {"copy", "write"}
      <4>1. itab[call.inum] = [ZeroInode EXCEPT !.type = "file"]
        BY <1>1, <3>1 DEF CallInv, MakeInv
      <4> QED BY <4>1 DEF ZeroInode
    <3> QED BY <2>1, <3>1
  <2>13. pc' \notin {"bfree", "wdata", "wfinal"}
    BY <2>1
  <2>14. \A b \in Blocks : HeldBlock(b) => \E i \in Inodes : IsLive(i)' /\ Owns(i, b)
    BY <1>0, <2>7, <2>9, <2>11
  <2> HIDE DEF HeldBlock, HeldInode
  <2> QED BY <1>1, <2>6, <2>7, <2>8, <2>10, <2>12, <2>13, <2>14, LeakBlock
<1> QED BY <1>2, <1>3

LEMMA LeakRemove ==
  ASSUME TypeOK, TypeOK', DiskInv, CallInv, Leakless, RemoveDirent PROVE Leakless'
<1>0. /\ call.par \in Inodes /\ call.tgt \in Inodes
  BY DEF TypeOK, Calls
<1>1. /\ pc = "rment" /\ call' = call /\ ibm' = ibm /\ bbm' = bbm
      /\ itab' = itab /\ cwd' = cwd
      /\ call.op \in {"rmdir", "delete", "rename", "write"}
  BY DEF RemoveDirent, CallInv, OpInv
<1>2. \A b \in Blocks : ~HeldBlock(b)
  BY <1>1 DEF HeldBlock, HasBlock, Filling
<1>3. \A i \in Inodes : ~HeldInode(i)
  BY <1>1 DEF HeldInode, Making
<1>4. CASE ~Found(call.par, call.comp) /\ blk' = blk
  <2>1. pc' \in {"create", "ret"}
    BY <1>4 DEF RemoveDirent, Found, Matches, FirstWith, Goto, Done
  <2>2. \A i \in Inodes : IsLive(i)' <=> IsLive(i)
    BY <1>4 DEF IsLive, Link
  <2>3. \A b \in Blocks : ~HeldBlock(b)'
    BY <2>1 DEF HeldBlock, HasBlock, Filling
  <2> HIDE DEF HeldBlock, HeldInode
  <2> QED BY <1>1, <1>2, <1>3, <2>1, <2>2, <2>3, LeakBlock
<1>5. ASSUME NEW u \in Slots, Matches(call.par, call.comp, u),
             blk' = BlkWithout(call.par, u), Removed
      PROVE  Leakless'
  <2>1. CASE call.op = "rename"
    <3>1. pc' = "ret"
      BY <1>5, <2>1 DEF Removed, Done
    <3>2. \A i \in Inodes : IsLive(i) => IsLive(i)'
      BY <1>1, <1>5, <2>1, RenameRemoveInv
    <3>3. \A b \in Blocks : ~HeldBlock(b)'
      BY <3>1 DEF HeldBlock, HasBlock, Filling
    <3> HIDE DEF HeldBlock, HeldInode
    <3> QED BY <1>1, <1>2, <1>3, <3>1, <3>2, <3>3, LeakBlock
  <2>2. CASE call.op # "rename"
    <3>1. pc' = IF itab[call.tgt].direct # 0 THEN "bfree" ELSE "ifree"
      BY <1>5, <2>2 DEF Removed, Goto
    <3>2. Ents(call.par)[u].ino = call.tgt
      BY <1>1, <1>5, <2>2 DEF CallInv, RemoveInv
    <3>3. /\ \A b \in Blocks, s \in Slots :
               b # itab[call.par].direct \/ s # u => blk'[b].ents[s] = blk[b].ents[s]
          /\ \A b \in Blocks, s \in Slots :
               Link(b, s)' <=> Link(b, s) /\ (b # itab[call.par].direct \/ s # u)
      BY <1>0, <1>5, EntryRemoved
    <3>4. \A i \in Inodes : IsLive(i) => IsLive(i)' \/ i = call.tgt
      BY <3>2, <3>3 DEF IsLive, Ents
    <3>5. \A i \in Inodes : HeldInode(i)' <=> i = call.tgt
      BY <1>1, <3>1 DEF HeldInode, Making
    <3>6. \A b \in Blocks : HeldBlock(b)' <=> pc' = "bfree" /\ b = itab[call.tgt].direct
      BY <1>1, <3>1 DEF HeldBlock, HasBlock, Filling
    <3>7. \A b \in Blocks : Owns(call.tgt, b) => HeldBlock(b)' \/ Listed(b)
      BY <1>0, <3>1, <3>6 DEF Leakless, ListedInv, Owns
    <3>8. /\ \A i \in Inodes, b \in Blocks : Owns(i, b)' <=> Owns(i, b)
          /\ \A b \in Blocks : Listed(b)' <=> Listed(b)
      BY <1>1 DEF Owns, Listed
    <3>9. InodesHeld /\ BlocksHeld
      BY DEF Leakless
    <3>10. \A b \in Blocks : Listed(b) => b \in bbm /\ \A i \in Inodes : itab[i].direct # b
      BY DEF Leakless, KeptInv
    <3>11. ListedInv' /\ FreshInv'
      BY <1>1, <3>1 DEF Leakless, ListedInv, FreshInv, Listed, Filling
    <3> HIDE DEF HeldBlock, HeldInode
    <3>12. \A i \in Inodes : IsLive(i) \/ HeldInode(i) =>
             IsLive(i)' \/ HeldInode(i)' \/ i \notin ibm'
      BY <1>3, <3>4, <3>5
    <3>13. \A b \in Blocks :
             HeldBlock(b) \/ (\E i \in Inodes : IsLive(i) /\ Owns(i, b)) =>
               \/ b \notin bbm' \/ HeldBlock(b)' \/ Listed(b)
               \/ \E i \in Inodes : IsLive(i)' /\ Owns(i, b)'
      BY <1>2, <3>4, <3>7, <3>8
    <3>14. InodesHeld' /\ BlocksHeld'
      BY <1>1, <3>9, <3>12, <3>13, HeldFrame
    <3>15. KeptInv'
      BY <1>0, <1>1, <3>6, <3>8, <3>10 DEF KeptInv
    <3> QED BY <3>11, <3>14, <3>15 DEF Leakless
  <2> QED BY <2>1, <2>2
<1>6. (\E u \in Slots : /\ Matches(call.par, call.comp, u) /\ Removed
                        /\ blk' = BlkWithout(call.par, u))
      \/ (~Found(call.par, call.comp) /\ blk' = blk)
  BY DEF RemoveDirent, BlkWithout, WithoutEntry, Ents
<1> QED BY <1>4, <1>5, <1>6

(* While the power has not failed, what the bitmaps mark as used is        *)
(* exactly what has a name, but for the blocks that the image's file lists *)
(* in its indirect block, which fs_delete never gives back.                *)
THEOREM NothingLeaks == Spec => []NoLeak
<1>0. LeakInv <=> (crashes = 0 => ~torn /\ Leakless)
  BY DEF LeakInv, Leakless
<1>1. Init => LeakInv
  <2> SUFFICES ASSUME Init PROVE ~torn /\ Leakless
    BY <1>0
  <2>1. PICK n \in Names, c \in Chunks : blk = [b \in Blocks |->
            CASE b = 1 -> RootBlock(n)
              [] b = 2 \/ (BigFile /\ b = 3) -> DataBlock(c)
              [] OTHER -> ZeroBlock]
    BY DEF Init
  <2>2. blk[1].ents[3] = [ino |-> 1, name |-> n]
    BY <2>1, Constants DEF RootBlock, ZeroBlock
  <2>3. IsLive(0) /\ IsLive(1)
    BY <2>2, Constants DEF IsLive, Link
  <2>4. /\ itab[0] = [ZeroInode EXCEPT !.type = "dir", !.direct = 1] /\ itab[1] = AddedFile
        /\ \A i \in Inodes : i # 0 /\ i # 1 => itab[i] = ZeroInode
    BY Constants DEF Init
  <2>5. itab[0].direct = 1 /\ itab[0].indirect = <<>>
    BY <2>4 DEF ZeroInode
  <2>6. itab[1].direct = 2 /\ itab[1].indirect = IF BigFile THEN <<4, 3>> ELSE <<>>
    BY <2>4 DEF AddedFile
  <2>7. \A i \in Inodes : i # 0 /\ i # 1 => itab[i].direct = 0 /\ itab[i].indirect = <<>>
    BY <2>4 DEF ZeroInode
  <2>8. pc = "idle" /\ ~torn /\ ibm = {0, 1} /\ bbm = IF BigFile THEN 0 .. 4 ELSE 0 .. 2
    BY DEF Init
  <2>9. InodesHeld
    BY <2>3, <2>8 DEF InodesHeld
  <2>10. \A b \in Blocks : ~HeldBlock(b)
    BY <2>8 DEF HeldBlock, HasBlock, Filling
  <2>11. BlocksHeld
    <3>1. Owns(0, 1) /\ Owns(1, 2)
      BY <2>5, <2>6 DEF Owns
    <3>2. \A b \in bbm : b = 0 \/ b = 1 \/ b = 2 \/ (BigFile /\ b \in {3, 4})
      BY <2>8
    <3> QED BY <2>3, <3>1, <3>2, Constants DEF BlocksHeld, Listed
  <2>12. KeptInv
    BY <2>5, <2>6, <2>7, <2>8, <2>10 DEF KeptInv, Listed
  <2>13. ListedInv
    BY <2>5, <2>6, <2>7 DEF ListedInv, Listed
  <2>14. FreshInv
    BY <2>8 DEF FreshInv, Filling
  <2> QED BY <2>8, <2>9, <2>11, <2>12, <2>13, <2>14 DEF Leakless
<1>2. IndInv /\ IndInv' /\ LeakInv /\ [Next]_vars => LeakInv'
  <2> SUFFICES ASSUME IndInv, IndInv', LeakInv, [Next]_vars, crashes' = 0
               PROVE  ~torn' /\ Leakless'
    BY <1>0 DEF LeakInv, Leakless
  <2>1. TypeOK /\ TypeOK'
    BY DEF IndInv
  <2>2. crashes \in Nat
    BY <2>1, SizeAssumption DEF TypeOK
  <2>3. CASE Step
    <3>1. crashes = 0 /\ torn' = torn
      BY <2>3 DEF Step, CreateNode, InodeClear, MkdirBlock, WriteInode, WriteDirBlock,
              AddDirent, RemoveDirent, FreeBlock, FreeInode, UndoBlock, UndoInode,
              FillBlock, WriteData, WriteFinal, Return
    <3>2. ~torn /\ Leakless /\ DiskInv /\ CallInv
      BY <1>0, <3>1 DEF IndInv
    <3> QED BY <2>1, <2>3, <3>1, <3>2, LeakBitmap, LeakInode, LeakData, LeakAdd, LeakRemove DEF Step
  <2>4. CASE Request
    <3>1. crashes = 0 /\ torn' = torn /\ UNCHANGED disk
      BY <2>4, RequestStarts DEF Starts, FsCd
    <3>2. ~torn /\ Leakless
      BY <1>0, <3>1
    <3>3. pc = "idle" /\ (pc' \in {"create", "rment", "ret", "idle"}
                          \/ (pc' = "addent" /\ call'.op = "rename"))
      BY <2>4, RequestStarts DEF Starts, FsCd, Request
    <3>4. /\ \A b \in Blocks : ~HeldBlock(b) /\ ~HeldBlock(b)'
          /\ \A i \in Inodes : ~HeldInode(i)
      BY <3>3 DEF HeldBlock, HeldInode, HasBlock, Filling, Making
    <3>5. /\ \A i \in Inodes : IsLive(i)' <=> IsLive(i)
          /\ \A i \in Inodes, b \in Blocks : Owns(i, b)' <=> Owns(i, b)
      BY <3>1, SameLookups DEF disk
    <3>6. ListedInv' /\ FreshInv'
      BY <3>1, <3>2, <3>3 DEF disk, Leakless, ListedInv, FreshInv, Listed, Filling
    <3>7. \A b \in Blocks : Listed(b)' <=> Listed(b)
      BY DEF Listed
    <3>8. InodesHeld /\ BlocksHeld /\ KeptInv
      BY <3>2 DEF Leakless
    <3> HIDE DEF HeldBlock, HeldInode
    <3>9. KeptInv'
      BY <3>1, <3>4, <3>7, <3>8 DEF disk, KeptInv
    <3>10. ibm' = ibm /\ bbm' = bbm
      BY <3>1 DEF disk
    <3>11. InodesHeld' /\ BlocksHeld'
      BY <3>4, <3>5, <3>8, <3>10, HeldFrame
    <3> QED BY <3>1, <3>2, <3>6, <3>9, <3>11 DEF Leakless
  <2>5. CASE Crash
    BY <2>2, <2>5 DEF Crash
  <2>6. CASE UNCHANGED vars
    <3>1. UNCHANGED <<ibm, bbm, itab, blk, pc, call, crashes, torn>>
      BY <2>6 DEF vars
    <3>2. ~torn /\ Leakless
      BY <1>0, <3>1
    <3> QED BY <3>1, <3>2
            DEF Leakless, InodesHeld, BlocksHeld, KeptInv, ListedInv, FreshInv, HeldBlock,
                HeldInode, HasBlock, Filling, Making, Listed, IsLive, Link, Owns
  <2> QED BY <2>3, <2>4, <2>5, <2>6 DEF Next
<1>3. IndInv /\ LeakInv => NoLeak
  <2> SUFFICES ASSUME IndInv, LeakInv, crashes = 0, pc = "idle"
               PROVE  /\ ibm = Live
                      /\ bbm = {0} \cup (UNION {Owned(i) : i \in Live})
                                   \cup (IF BigFile THEN {3, 4} ELSE {})
    BY DEF NoLeak
  <2>1. TypeOK /\ DiskInv /\ Leakless
    BY <1>0 DEF IndInv
  <2>2. /\ \A i \in Inodes : ~HeldInode(i)
        /\ \A b \in Blocks : ~HeldBlock(b)
    BY DEF HeldInode, HeldBlock, Making, HasBlock, Filling
  <2>3. \A i \in Inodes : i \in ibm <=> IsLive(i)
    BY <2>1, <2>2 DEF Leakless, InodesHeld, DiskInv, UsedInv
  <2>4. ibm = Live
    BY <2>1, <2>3, LiveIs, LiveType DEF TypeOK
  <2> DEFINE K == IF BigFile THEN {3, 4} ELSE {}
             U == UNION {Owned(i) : i \in Live}
  <2>5. \A b \in bbm : b = 0 \/ b \in U \/ b \in K
    <3> SUFFICES ASSUME NEW b \in bbm, b # 0, b \notin K PROVE b \in U
      OBVIOUS
    <3>1. b \in Blocks /\ ~Listed(b)
      BY <2>1 DEF TypeOK, Listed
    <3>2. PICK i \in Inodes : IsLive(i) /\ Owns(i, b)
      BY <2>1, <2>2, <3>1 DEF Leakless, BlocksHeld
    <3>3. b \in Owned(i)
      BY <3>2 DEF Owned, Owns
    <3>4. i \in Live
      BY <2>1, <3>2, LiveIs
    <3> QED BY <3>3, <3>4
  <2>6. \A b \in U : b \in bbm
    <3> SUFFICES ASSUME NEW i \in Live, NEW b \in Owned(i) PROVE b \in bbm
      OBVIOUS
    <3>1. i \in Inodes /\ IsLive(i)
      BY <2>1, LiveIs, LiveType
    <3>2. b \in Blocks /\ Owns(i, b)
      BY <2>1, <3>1, OwnedIs
    <3> QED BY <2>1, <3>1, <3>2 DEF DiskInv, UsedInv
  <2>7. 0 \in bbm /\ \A b \in K : b \in bbm
    BY <2>1, Constants DEF DiskInv, RootInv, Leakless, KeptInv, Listed
  <2> HIDE DEF U, K
  <2>8. bbm = {0} \cup U \cup K
    BY <2>5, <2>6, <2>7
  <2> QED BY <2>4, <2>8 DEF U, K
<1> QED BY <1>1, <1>2, <1>3, Inductive, PTL DEF Spec

-----------------------------------------------------------------------------
(* What fs_write_file and fs_copy leave, when every name fits in an entry. *)

LEMMA ResolvesName ==
  ASSUME NEW n \in Names, NEW p, NEW i
  PROVE  Resolves(p, n, i) <=> \E s \in Slots : Matches(p, n, s) /\ Ents(p)[s].ino = i
BY NameAssumption DEF Resolves

LEMMA AbsentIsUnresolved ==
  ASSUME NEW n \in Names, NEW p, NEW i, ~Found(p, n) PROVE ~Resolves(p, n, i)
BY ResolvesName DEF Found, Matches, FirstWith

LEMMA EmptyCat ==
  ASSUME NEW i \in Inodes, itab[i] = [ZeroInode EXCEPT !.type = "file"]
  PROVE  FsCat(i) = <<>>
<1>1. itab[i].size = 0
  BY DEF ZeroInode
<1> QED BY <1>1 DEF FsCat

(* No directory holds a name twice.                                        *)
LEMMA UniqueSame == ASSUME blk' = blk, UniqueNames PROVE UniqueNames'
BY DEF UniqueNames, Link

LEMMA UniqueBlock ==
  ASSUME TypeOK, UniqueNames, NEW k \in Blocks, NEW v, blk' = [blk EXCEPT ![k] = v],
         \A s \in Slots : v.ents[s].name \notin Names
  PROVE  UniqueNames'
<1>1. blk'[k] = v /\ \A b \in Blocks : b # k => blk'[b] = blk[b]
  BY DEF TypeOK
<1> QED BY <1>1 DEF UniqueNames, Link

LEMMA UniqueAdd ==
  ASSUME TypeOK, UniqueNames, NEW d \in Inodes, NEW u \in Slots, NEW x, NEW n \in Names,
         blk' = [blk EXCEPT ![itab[d].direct].ents[u] = [ino |-> x, name |-> n]],
         \A s \in Slots : Ents(d)[s].name # n
  PROVE  UniqueNames'
<1> DEFINE k == itab[d].direct
<1>1. k \in Blocks
  BY LookupType
<1>2. /\ \A b \in Blocks, s \in Slots : b # k \/ s # u => blk'[b].ents[s] = blk[b].ents[s]
      /\ blk'[k].ents[u] = [ino |-> x, name |-> n]
  <2> DEFINE e == [ino |-> x, name |-> n]
  <2>1. blk' = [blk EXCEPT ![itab[d].direct].ents[u] = e]
    OBVIOUS
  <2> HIDE DEF e
  <2>2. /\ \A b \in Blocks, s \in Slots : b # k \/ s # u => blk'[b].ents[s] = blk[b].ents[s]
        /\ blk'[k].ents[u] = e
    BY <1>1, <2>1 DEF TypeOK, BlockContents
  <2> QED BY <2>2 DEF e
<1>3. blk'[k].ents[u].name = n
  BY <1>2
<1>4. \A s \in Slots : blk[k].ents[s].name # n
  BY DEF Ents
<1> HIDE DEF k
<1>5. \A s \in Slots : blk'[k].ents[s].name = n <=> s = u
  BY <1>1, <1>2, <1>3, <1>4
<1>6. UniqueNames'
  <2> SUFFICES ASSUME NEW b \in Blocks, NEW s \in Slots, NEW t \in Slots,
                      blk'[b].ents[s].name \in Names,
                      blk'[b].ents[s].name = blk'[b].ents[t].name
               PROVE  s = t
    BY DEF UniqueNames, Link
  <2>1. CASE b = k /\ (s = u \/ t = u)
    BY <1>3, <1>5, <2>1
  <2>2. CASE ~(b = k /\ (s = u \/ t = u))
    BY <1>2, <2>2 DEF UniqueNames, Link
  <2> QED BY <2>1, <2>2
<1> QED BY <1>6

LEMMA UniqueRemove ==
  ASSUME TypeOK, UniqueNames, NEW d \in Inodes, NEW u \in Slots, blk' = BlkWithout(d, u)
  PROVE  UniqueNames'
<1>1. /\ \A b \in Blocks, s \in Slots :
           b # itab[d].direct \/ s # u => blk'[b].ents[s] = blk[b].ents[s]
      /\ \A b \in Blocks, s \in Slots :
           Link(b, s)' <=> Link(b, s) /\ (b # itab[d].direct \/ s # u)
  BY EntryRemoved
<1> SUFFICES ASSUME NEW b \in Blocks, NEW s \in Slots, NEW t \in Slots, Link(b, s)',
                    blk'[b].ents[s].name = blk'[b].ents[t].name
             PROVE  s = t
  BY DEF UniqueNames
<1>2. Link(b, t)'
  BY DEF Link
<1> QED BY <1>1, <1>2 DEF UniqueNames

(* A slot with the name is the slot that a search finds.                   *)
LEMMA UniqueFound ==
  ASSUME TypeOK, UniqueNames, NEW d \in Inodes, IsDir(d), NEW n \in Names,
         NEW s \in Slots, Ents(d)[s].name = n
  PROVE  Matches(d, n, s)
<1>1. itab[d].direct \in Blocks
  BY LookupType
<1>2. \A t \in Slots : Ents(d)[t].name = n => t = s
  BY <1>1 DEF UniqueNames, Link, Ents
<1>3. s \in Int
  BY SizeAssumption DEF Slots
<1> QED BY <1>2, <1>3 DEF Matches, FirstWith

(* The steps at which nothing is left to say of the call.                  *)
LEMMA OutcomeQuiet ==
  ASSUME UniqueNames', ~Making', pc' \notin {"create", "bfree", "ifree", "fill", "wdata", "wfinal"},
         ~(pc' = "ret" /\ call'.op \in {"write", "copy"})
  PROVE  OutcomeInv' /\ WriteOutcome'
BY DEF OutcomeInv, AbsentInv, TargetInv, SourceInv, DataInv, WriteOutcome, Filling

LEMMA OutcomeMake ==
  ASSUME UniqueNames', pc' \in {"clear", "balloc", "winode", "wdir", "addent", "undoblk", "undoino"},
         call'.op = "write" => Absent', call'.op = "copy" => call'.sblk \in bbm'
  PROVE  OutcomeInv' /\ WriteOutcome'
BY DEF OutcomeInv, AbsentInv, TargetInv, SourceInv, DataInv, WriteOutcome, Filling

LEMMA OutcomeFails ==
  ASSUME UniqueNames', pc' = "ret", ret' = "fail",
         call'.op = "write" /\ call'.comp \in Names =>
           \A i \in Inodes : ~(Resolves(call.par, call.comp, i) /\ IsFile(i))'
  PROVE  OutcomeInv' /\ WriteOutcome'
BY DEF OutcomeInv, AbsentInv, TargetInv, SourceInv, DataInv, WriteOutcome, Filling, Making

LEMMA OutcomeBitmap ==
  ASSUME TypeOK, DiskInv, CallInv, OutcomeInv,
         \/ CreateNode \/ MkdirBlock \/ FreeBlock \/ FreeInode \/ UndoBlock
         \/ UndoInode \/ Return
  PROVE  OutcomeInv' /\ WriteOutcome'
<1>0. call \in Calls /\ call.par \in Inodes /\ call.comp \in Comps
  BY DEF TypeOK, Calls
<1>1. itab' = itab /\ blk' = blk
  BY DEF CreateNode, MkdirBlock, FreeBlock, FreeInode, UndoBlock, UndoInode, Return, disk
<1>2. UniqueNames'
  BY <1>1, UniqueSame DEF OutcomeInv
<1>3. ASSUME call'.par = call.par, call'.comp = call.comp, Absent PROVE Absent'
  BY <1>1, <1>3 DEF Absent, Found, IsDir, Ents
<1>4. ASSUME call'.par = call.par, call'.comp = call.comp, call.comp \in Names, Absent
      PROVE  \A i \in Inodes : ~(Resolves(call.par, call.comp, i) /\ IsFile(i))'
  <2>1. \A i \in Inodes : ~Resolves(call.par, call.comp, i)
    BY <1>4, AbsentIsUnresolved DEF Absent
  <2> QED BY <1>1, <1>4, <2>1 DEF Resolves, Matches, FirstWith, IsDir, Ents
<1>5. CASE CreateNode
  <2>1. pc = "create" /\ bbm' = bbm /\ call.op \in {"mkdir", "create", "copy", "write"}
    BY <1>5 DEF CreateNode, CallInv, OpInv
  <2>2. /\ call.op = "copy" => call.sblk \in bbm
        /\ call.op = "write" /\ call.comp \in Names => \A i \in Inodes :
             ~(Resolves(call.par, call.comp, i) /\ IsFile(i))
    BY <2>1 DEF OutcomeInv, AbsentInv, SourceInv
  <2>3. CASE pc' = "clear"
    <3>1. PICK i \in Inodes : call' = [call EXCEPT !.inum = i]
      BY <1>5, <2>3 DEF CreateNode, Done
    <3>2. /\ call'.par = call.par /\ call'.comp = call.comp /\ call'.op = call.op
          /\ call'.sblk = call.sblk
      BY <1>0, <3>1 DEF Calls
    <3>3. Absent
      BY <1>5, <2>3 DEF CreateNode, Done, MayCreate, Absent
    <3> QED BY <1>2, <1>3, <2>1, <2>2, <2>3, <3>2, <3>3, OutcomeMake
  <2>4. CASE pc' # "clear"
    <3>1. pc' = "ret" /\ ret' = "fail" /\ call' = call
      BY <1>5, <2>4 DEF CreateNode, Goto, Done
    <3>2. call.op = "write" /\ call.comp \in Names =>
             \A i \in Inodes : ~(Resolves(call.par, call.comp, i) /\ IsFile(i))'
      BY <1>1, <2>2, <3>1 DEF Resolves, Matches, FirstWith, IsDir, IsFile, Ents
    <3> QED BY <1>2, <3>1, <3>2, OutcomeFails
  <2> QED BY <2>3, <2>4
<1>6. CASE MkdirBlock \/ UndoBlock
  <2>1. call.op = "mkdir" /\ call'.op = call.op /\ pc' \in {"winode", "undoino"}
    BY <1>0, <1>6 DEF MkdirBlock, UndoBlock, CallInv, OpInv, Goto, Calls
  <2> QED BY <1>2, <2>1, OutcomeMake
<1>7. CASE FreeBlock
  <2>1. pc = "bfree" /\ pc' = "ifree" /\ call' = call /\ call.op # "copy"
    BY <1>7 DEF FreeBlock, Goto, CallInv, OpInv
  <2>2. call.op = "write" /\ call.comp \in Names => Absent'
    BY <1>3, <2>1 DEF OutcomeInv, AbsentInv
  <2> QED BY <1>2, <2>1, <2>2
      DEF OutcomeInv, AbsentInv, TargetInv, SourceInv, DataInv, WriteOutcome, Filling
<1>8. CASE FreeInode
  <2>1. /\ pc = "ifree" /\ call' = call /\ call.op \in {"rmdir", "delete", "write"}
        /\ pc' = IF call.op = "write" THEN "create" ELSE "ret"
    BY <1>8 DEF FreeInode, Goto, Done, CallInv, OpInv
  <2>2. call.op = "write" /\ call.comp \in Names =>
           \A i \in Inodes : ~(Resolves(call.par, call.comp, i) /\ IsFile(i))'
    BY <1>4, <2>1 DEF OutcomeInv, AbsentInv
  <2> QED BY <1>2, <2>1, <2>2
      DEF OutcomeInv, AbsentInv, TargetInv, SourceInv, DataInv, WriteOutcome, Filling, Making
<1>9. CASE UndoInode
  <2>1. /\ pc = "undoino" /\ call' = call /\ pc' = "ret" /\ ret' = "fail" /\ call.op # "rename"
    BY <1>9 DEF UndoInode, Done, CallInv, OpInv
  <2>2. call.op = "write" /\ call.comp \in Names =>
           \A i \in Inodes : ~(Resolves(call.par, call.comp, i) /\ IsFile(i))'
    BY <1>4, <2>1 DEF OutcomeInv, AbsentInv, Making
  <2> QED BY <1>2, <2>1, <2>2, OutcomeFails
<1>10. CASE Return
  <2>1. pc' = "idle"
    BY <1>10 DEF Return
  <2> QED BY <1>2, <2>1, OutcomeQuiet DEF Making
<1> QED BY <1>5, <1>6, <1>7, <1>8, <1>9, <1>10

LEMMA OutcomeInode ==
  ASSUME TypeOK, TypeOK', DiskInv, CallInv, OutcomeInv, InodeClear \/ WriteInode
  PROVE  OutcomeInv' /\ WriteOutcome'
<1>0. call.inum \in Inodes /\ call.par \in Inodes /\ itab \in [Inodes -> InodeRecords]
  BY DEF TypeOK, Calls
<1>1. ibm' = ibm /\ bbm' = bbm /\ blk' = blk /\ call' = call
  BY DEF InodeClear, WriteInode
<1>2. UniqueNames'
  BY <1>1, UniqueSame DEF OutcomeInv
<1>3. /\ pc \in {"clear", "winode"} /\ call.op \in {"mkdir", "create", "copy", "write"}
      /\ pc' \in {"balloc", "winode", "wdir", "addent"}
  BY DEF InodeClear, WriteInode, Goto, CallInv, OpInv
<1>4. \A i \in Inodes : i # call.inum => itab'[i] = itab[i]
  BY <1>0 DEF InodeClear, WriteInode
<1>5. IsLive(call.par) /\ ~IsLive(call.inum) /\ call.comp \in Names
  BY <1>3 DEF CallInv, MakeInv, PathInv, InPath, Making
<1>6. itab'[call.par] = itab[call.par]
  BY <1>0, <1>4, <1>5
<1>7. call.op = "write" => Absent
  BY <1>3, <1>5 DEF OutcomeInv, AbsentInv, Making
<1>8. call.op = "write" => Absent'
  BY <1>1, <1>6, <1>7 DEF Absent, Found, IsDir, Ents
<1>9. call.op = "copy" => call.sblk \in bbm
  BY <1>3 DEF OutcomeInv, SourceInv, Making
<1> QED BY <1>1, <1>2, <1>3, <1>8, <1>9, OutcomeMake

LEMMA OutcomeAdd ==
  ASSUME NamesFit, TypeOK, DiskInv, CallInv, OutcomeInv, AddDirent
  PROVE  OutcomeInv' /\ WriteOutcome'
<1>0. /\ call.inum \in Inodes /\ call.par \in Inodes /\ call.par2 \in Inodes
      /\ call.comp2 \in Comps
  BY DEF TypeOK, Calls
<1>1. /\ pc = "addent" /\ bbm' = bbm /\ itab' = itab /\ call' = call
      /\ call.op \in {"mkdir", "create", "copy", "write", "rename"}
  BY DEF AddDirent, CallInv, OpInv
<1>2. call.op = "copy" => call.sblk \in bbm
  BY <1>1 DEF OutcomeInv, SourceInv, Making
<1>3. \A n \in Names : Stored(n) = n
  BY DEF NamesFit, Stored
<1>4. CASE AddFailed /\ blk' = blk
  <2>1. UniqueNames'
    BY <1>4, UniqueSame DEF OutcomeInv
  <2>2. CASE call.op = "rename"
    <3>1. pc' = "ret"
      BY <1>4, <2>2 DEF AddFailed, Done
    <3> QED BY <1>1, <2>1, <2>2, <3>1, OutcomeQuiet DEF Making
  <2>3. CASE call.op # "rename"
    <3>1. pc' \in {"undoblk", "undoino"}
      BY <1>4, <2>3 DEF AddFailed, Goto
    <3>2. call.op = "write" => Absent
      BY <1>1, <2>3 DEF CallInv, PathInv, OutcomeInv, AbsentInv, Making
    <3>3. call.op = "write" => Absent'
      BY <1>1, <1>4, <3>2 DEF Absent, Found, IsDir, Ents
    <3> QED BY <1>1, <1>2, <2>1, <3>1, <3>3, OutcomeMake
  <2> QED BY <2>2, <2>3
<1>5. CASE call.op = "rename" /\ ~(AddFailed /\ blk' = blk)
  <2>1. pc' = "rment"
    BY <1>5 DEF AddDirent, Goto
  <2>2. PICK u \in Slots :
          /\ Matches(call.par2, NoName, u)
          /\ blk' = [blk EXCEPT ![itab[call.par2].direct].ents[u] =
                       [ino |-> call.tgt, name |-> Stored(call.comp2)]]
    BY <1>5 DEF AddDirent
  <2>3. IsLive(call.par2) /\ ~Found(call.par2, call.comp2) /\ IsDir(call.par2)
    BY <1>1, <1>5, <2>2 DEF CallInv, PathInv, RenameInv, Matches
  <2>4. call.comp2 \in Names
    BY <1>0, <2>3, AbsentIsProper
  <2>5. \A s \in Slots : Ents(call.par2)[s].name # call.comp2
    BY <2>3 DEF Found
  <2>6. blk' = [blk EXCEPT ![itab[call.par2].direct].ents[u] =
                  [ino |-> call.tgt, name |-> call.comp2]]
    BY <1>3, <2>2, <2>4
  <2>7. UniqueNames'
    BY <1>0, <2>4, <2>5, <2>6, UniqueAdd DEF OutcomeInv
  <2> QED BY <1>1, <1>5, <2>1, <2>7, OutcomeQuiet DEF Making
<1>6. CASE call.op # "rename" /\ ~(AddFailed /\ blk' = blk)
  <2>1. pc' = IF call.op \in {"copy", "write"} THEN "fill" ELSE "ret"
    BY <1>6 DEF AddDirent, Goto, Done
  <2>2. PICK u \in Slots :
          /\ Matches(call.par, NoName, u)
          /\ blk' = [blk EXCEPT ![itab[call.par].direct].ents[u] =
                       [ino |-> call.inum, name |-> Stored(call.comp)]]
    BY <1>6 DEF AddDirent
  <2>3. /\ call.comp \in Names /\ IsDir(call.par)
        /\ \A s \in Slots : Ents(call.par)[s].name # call.comp
    BY <1>1, <1>6 DEF CallInv, PathInv, MakeInv, Making
  <2>4. blk' = [blk EXCEPT ![itab[call.par].direct].ents[u] =
                  [ino |-> call.inum, name |-> call.comp]]
    BY <1>3, <2>2, <2>3
  <2>5. /\ UniqueNames'
        /\ \A s \in Slots : blk'[itab[call.par].direct].ents[s].name = call.comp <=> s = u
        /\ blk'[itab[call.par].direct].ents[u].ino = call.inum
    <3>1. UniqueNames
      BY DEF OutcomeInv
    <3>2. UniqueNames'
      BY <1>0, <2>3, <2>4, <3>1, UniqueAdd
    <3> DEFINE k == itab[call.par].direct
               e == [ino |-> call.inum, name |-> call.comp]
    <3>3. k \in Blocks /\ e.name = call.comp /\ e.ino = call.inum
      BY <1>0, LookupType
    <3>4. \A s \in Slots : blk[k].ents[s].name # call.comp
      BY <2>3 DEF Ents
    <3>5. blk' = [blk EXCEPT ![k].ents[u] = e]
      BY <2>4
    <3> HIDE DEF k, e
    <3>6. blk'[k].ents[u] = e /\ \A s \in Slots : s # u => blk'[k].ents[s] = blk[k].ents[s]
      BY <3>3, <3>5 DEF TypeOK, BlockContents
    <3>7. /\ \A s \in Slots : blk'[k].ents[s].name = call.comp <=> s = u
          /\ blk'[k].ents[u].ino = call.inum
      BY <3>3, <3>4, <3>6
    <3> QED BY <3>2, <3>7 DEF k
  <2>6. CASE call.op \in {"mkdir", "create"}
    BY <1>1, <2>1, <2>5, <2>6, OutcomeQuiet DEF Making
  <2>7. CASE call.op \in {"copy", "write"}
    <3>1. itab[call.inum] = [ZeroInode EXCEPT !.type = "file"]
      BY <1>1, <2>7 DEF CallInv, MakeInv
    <3>2. u \in Int /\ \A s \in Slots : s \in Int
      BY SizeAssumption DEF Slots
    <3>3. Matches(call.par, call.comp, u)' /\ Ents(call.par)'[u].ino = call.inum
      BY <1>1, <2>3, <2>5, <3>2 DEF Matches, FirstWith, IsDir, Ents
    <3>4. Resolves(call.par, call.comp, call.inum)'
      BY <1>1, <2>3, <3>3, NameAssumption DEF Resolves
    <3> QED BY <1>1, <1>2, <2>1, <2>3, <2>5, <2>7, <3>1, <3>4
            DEF OutcomeInv, AbsentInv, TargetInv, SourceInv, DataInv, WriteOutcome, Filling, Making
  <2> QED BY <1>1, <1>6, <2>6, <2>7
<1> QED BY <1>4, <1>5, <1>6

LEMMA OutcomeRemove ==
  ASSUME TypeOK, DiskInv, CallInv, OutcomeInv, RemoveDirent
  PROVE  OutcomeInv' /\ WriteOutcome'
<1>0. call.par \in Inodes /\ call.comp \in Comps
  BY DEF TypeOK, Calls
<1>1. /\ pc = "rment" /\ itab' = itab /\ call' = call
      /\ call.op \in {"rmdir", "delete", "rename", "write"}
  BY DEF RemoveDirent, CallInv, OpInv
<1>2. CASE ~Found(call.par, call.comp) /\ blk' = blk
  <2>1. pc' = IF call.op = "write" THEN "create" ELSE "ret"
    BY <1>2 DEF RemoveDirent, Found, Matches, FirstWith, Goto, Done
  <2>2. UniqueNames'
    BY <1>2, UniqueSame DEF OutcomeInv
  <2>3. ~Found(call.par, call.comp)'
    BY <1>1, <1>2 DEF Found, IsDir, Ents
  <2>4. call.comp \in Names => \A i \in Inodes : ~Resolves(call.par, call.comp, i)'
    BY <1>1, <2>3, NameAssumption DEF Resolves, Found, Matches, FirstWith
  <2> QED BY <1>1, <2>1, <2>2, <2>4
      DEF OutcomeInv, AbsentInv, TargetInv, SourceInv, DataInv, WriteOutcome, Filling, Making
<1>3. ASSUME NEW u \in Slots, Matches(call.par, call.comp, u), Removed,
             blk' = BlkWithout(call.par, u)
      PROVE  OutcomeInv' /\ WriteOutcome'
  <2>1. UniqueNames'
    BY <1>0, <1>3, UniqueRemove DEF OutcomeInv
  <2>2. CASE call.op = "rename"
    <3>1. pc' = "ret"
      BY <1>3, <2>2 DEF Removed, Done
    <3> QED BY <1>1, <2>1, <2>2, <3>1, OutcomeQuiet DEF Making
  <2>3. CASE call.op # "rename"
    <3>1. pc' \in {"bfree", "ifree"}
      BY <1>3, <2>3 DEF Removed, Goto
    <3>2. IsDir(call.par) /\ Ents(call.par)[u].name = call.comp /\ call.comp \in Names
      BY <1>1, <1>3, <2>3 DEF Matches, FirstWith, CallInv, RemoveInv
    <3>3. itab[call.par].direct \in Blocks
      BY <1>0, LookupType
    <3>4. \A s \in Slots : s # u => Ents(call.par)[s].name # call.comp
      BY <3>2, <3>3 DEF OutcomeInv, UniqueNames, Link, Ents
    <3>5. \A b \in Blocks, s \in Slots :
             /\ b # itab[call.par].direct \/ s # u => blk'[b].ents[s] = blk[b].ents[s]
             /\ Link(b, s)' <=> Link(b, s) /\ (b # itab[call.par].direct \/ s # u)
      BY <1>0, <1>3, EntryRemoved
    <3>6. \A s \in Slots : Ents(call.par)'[s].name # call.comp
      BY <1>1, <3>2, <3>3, <3>4, <3>5 DEF Ents, Link
    <3>7. Absent'
      BY <1>1, <3>2, <3>6 DEF Absent, Found, IsDir
    <3> QED BY <1>1, <2>1, <2>3, <3>1, <3>7
            DEF OutcomeInv, AbsentInv, TargetInv, SourceInv, DataInv, WriteOutcome, Filling, Making
  <2> QED BY <2>2, <2>3
<1>4. (\E u \in Slots : /\ Matches(call.par, call.comp, u) /\ Removed
                        /\ blk' = BlkWithout(call.par, u))
      \/ (~Found(call.par, call.comp) /\ blk' = blk)
  BY DEF RemoveDirent, BlkWithout, WithoutEntry, Ents
<1> QED BY <1>2, <1>3, <1>4

LEMMA OutcomeFill ==
  ASSUME TypeOK, DiskInv, CallInv, OutcomeInv, FillBlock
  PROVE  OutcomeInv' /\ WriteOutcome'
<1>0. /\ call \in Calls /\ call.par \in Inodes /\ call.inum \in Inodes /\ call.bnum \in Blocks
  BY DEF TypeOK, Calls
<1>1. /\ pc = "fill" /\ itab' = itab /\ blk' = blk /\ call.op \in {"copy", "write"}
  BY DEF FillBlock, CallInv, OpInv
<1>2. UniqueNames'
  BY <1>1, UniqueSame DEF OutcomeInv
<1>3. /\ call.comp \in Names /\ itab[call.inum] = [ZeroInode EXCEPT !.type = "file"]
      /\ Resolves(call.par, call.comp, call.inum)
      /\ call.op = "copy" => call.sblk \in bbm
  BY <1>1 DEF OutcomeInv, TargetInv, SourceInv
<1>4. \A i \in Inodes : Resolves(call.par, call.comp, i) => i = call.inum
  <2>1. \A s \in Slots : Ents(call.par)[s].name = call.comp => Ents(call.par)[s].ino = call.inum
    BY <1>1 DEF CallInv, FillInv
  <2> QED BY <1>3, <2>1, ResolvesName DEF Matches, FirstWith
<1>6. FsCat(call.inum) = <<>>
  BY <1>0, <1>3, EmptyCat
<1>7. \A i : FsCat(i)' = FsCat(i)
  BY <1>1 DEF FsCat
<1>8. CASE pc' = "ret" /\ call' = call
  <2>1. ret' = "ok" => call.size = 0
    BY <1>8 DEF FillBlock, Done, Goto
  <2>2. call'.par = call.par /\ call'.comp = call.comp
    BY <1>8
  <2>3. WriteOutcome'
    <3>0. \A i \in Inodes : Resolves(call.par, call.comp, i)' <=> Resolves(call.par, call.comp, i)
      BY <1>1, <1>8 DEF Resolves, Matches, FirstWith, IsDir, Ents
    <3>1. \E i \in Inodes : Resolves(call.par, call.comp, i)' /\ FsCat(i)' = <<>>
      BY <1>0, <1>3, <1>6, <1>7, <3>0
    <3>2. \A i \in Inodes : Resolves(call.par, call.comp, i)' => FsCat(i)' = <<>>
      BY <1>4, <1>6, <1>7, <3>0
    <3> QED BY <1>8, <2>1, <3>1, <3>2 DEF WriteOutcome
  <2> QED BY <1>2, <1>8, <2>3
      DEF OutcomeInv, AbsentInv, TargetInv, SourceInv, DataInv, Filling, Making
<1>9. CASE pc' = "wdata"
  <2>1. PICK i \in Inodes, x \in Blocks :
           /\ Resolves(call.par, call.comp, i) /\ x \notin bbm
           /\ call' = [call EXCEPT !.inum = i, !.bnum = x,
                         !.buf = IF call.op = "copy" THEN blk[call.sblk].data ELSE @]
    BY <1>9 DEF FillBlock, Done, LowestFreeBlock
  <2>2. /\ call'.inum = i /\ call'.bnum = x /\ call'.par = call.par /\ call'.comp = call.comp
        /\ call'.op = call.op /\ call'.sblk = call.sblk /\ call'.size = call.size
        /\ call.op = "copy" => call'.buf = blk[call.sblk].data
    BY <1>0, <2>1 DEF Calls
  <2>3. i = call.inum
    BY <1>4, <2>1
  <2>4. call.size # 0
    BY <1>9 DEF FillBlock, Done
  <2>5. Resolves(call.par, call.comp, call.inum)'
    BY <1>1, <1>3, <2>2, <2>3 DEF Resolves, Matches, FirstWith, IsDir, Ents
  <2>6. TargetInv'
    BY <1>1, <1>3, <2>2, <2>3, <2>5 DEF TargetInv
  <2>7. SourceInv'
    BY <1>1, <1>3, <1>9, <2>1, <2>2 DEF SourceInv, Filling, Making
  <2>8. DataInv'
    BY <1>9, <2>2, <2>4 DEF DataInv
  <2>9. AbsentInv' /\ WriteOutcome'
    BY <1>9 DEF AbsentInv, WriteOutcome, Making
  <2> QED BY <1>2, <2>6, <2>7, <2>8, <2>9 DEF OutcomeInv
<1>10. (pc' = "ret" /\ call' = call) \/ pc' = "wdata"
  BY DEF FillBlock, Done, Goto
<1> QED BY <1>8, <1>9, <1>10

LEMMA OutcomeBlock ==
  ASSUME TypeOK, DiskInv, CallInv, OutcomeInv, WriteDirBlock \/ WriteData
  PROVE  OutcomeInv' /\ WriteOutcome'
<1>0. /\ call.inum \in Inodes /\ call.bnum \in Blocks /\ call.par \in Inodes
      /\ call.sblk \in Blocks
  BY DEF TypeOK, Calls
<1>1. itab' = itab /\ call' = call /\ bbm' = bbm
  BY DEF WriteDirBlock, WriteData
<1>2. \/ pc = "wdir" /\ pc' = "addent" /\ call.op = "mkdir"
      \/ pc = "wdata" /\ pc' = "wfinal" /\ call.op \in {"copy", "write"}
  BY DEF WriteDirBlock, WriteData, Goto, CallInv, OpInv
<1>3. PICK v : /\ blk' = [blk EXCEPT ![call.bnum] = v]
               /\ \A s \in Slots : v.ents[s].name \notin Names
               /\ pc = "wdata" => v.data = call.buf
  <2>1. \A s \in Slots : NewDirBlock(call.inum, call.par).ents[s].name \notin Names
    BY NameAssumption DEF NewDirBlock, ZeroBlock, NoEntry
  <2>2. /\ \A s \in Slots : DataBlock(call.buf).ents[s].name \notin Names
        /\ DataBlock(call.buf).data = call.buf
    BY NameAssumption DEF DataBlock, ZeroBlock, NoEntry
  <2> HIDE DEF NewDirBlock, DataBlock
  <2> QED BY <2>1, <2>2 DEF WriteDirBlock, WriteData
<1>4. UniqueNames'
  BY <1>0, <1>3, UniqueBlock DEF OutcomeInv
<1>5. CASE pc = "wdir"
  BY <1>1, <1>2, <1>4, <1>5, OutcomeMake
<1>6. CASE pc = "wdata"
  <2>1. blk'[call.bnum] = v /\ \A b \in Blocks : b # call.bnum => blk'[b] = blk[b]
    BY <1>0, <1>3 DEF TypeOK
  <2>2. HasBlock /\ Filling
    BY <1>6 DEF HasBlock, Filling
  <2>3. \A s \in Slots : ~Link(call.bnum, s)
    <3>1. call.bnum # 0 /\ \A i \in Inodes : IsLive(i) => ~Owns(i, call.bnum)
      BY <2>2 DEF CallInv, BlockInv
    <3> QED BY <1>0, <3>1, NoLinkIn
  <2>4. /\ call.comp \in Names /\ itab[call.inum] = [ZeroInode EXCEPT !.type = "file"]
        /\ Resolves(call.par, call.comp, call.inum) /\ call.size # 0
        /\ call.op = "copy" => call.sblk # call.bnum /\ call.buf = blk[call.sblk].data
    BY <2>2 DEF OutcomeInv, TargetInv, SourceInv, DataInv
  <2>5. PICK s \in Slots : Matches(call.par, call.comp, s) /\ Ents(call.par)[s].ino = call.inum
    BY <2>4, NameAssumption DEF Resolves
  <2>6. itab[call.par].direct \in Blocks /\ itab[call.par].direct # call.bnum
    BY <1>0, <2>3, <2>4, <2>5, LookupType DEF Matches, FirstWith, Link, Ents
  <2>7. Ents(call.par)' = Ents(call.par) /\ (IsDir(call.par)' <=> IsDir(call.par))
    BY <1>1, <2>1, <2>6 DEF Ents, IsDir
  <2>8. Resolves(call.par, call.comp, call.inum)'
    BY <1>1, <2>4, <2>5, <2>7, NameAssumption DEF Resolves, Matches
  <2>9. TargetInv'
    BY <1>1, <2>4, <2>8 DEF TargetInv
  <2>10. SourceInv'
    BY <1>0, <1>1, <1>2, <1>6, <2>1, <2>4 DEF SourceInv, Making
  <2>11. DataInv'
    BY <1>1, <1>3, <1>6, <2>1, <2>4 DEF DataInv
  <2>12. AbsentInv' /\ WriteOutcome'
    BY <1>2, <1>6 DEF AbsentInv, WriteOutcome, Making
  <2> QED BY <1>4, <2>9, <2>10, <2>11, <2>12 DEF OutcomeInv
<1> QED BY <1>2, <1>5, <1>6

LEMMA OutcomeFinal ==
  ASSUME TypeOK, DiskInv, CallInv, OutcomeInv, WriteFinal
  PROVE  OutcomeInv' /\ WriteOutcome'
<1>0. /\ call.inum \in Inodes /\ call.bnum \in Blocks /\ call.par \in Inodes
      /\ call.size \in 0 .. MaxSize /\ itab \in [Inodes -> InodeRecords]
  BY DEF TypeOK, Calls
<1>1. /\ pc = "wfinal" /\ pc' = "ret" /\ ret' = "ok" /\ call' = call /\ blk' = blk
      /\ itab' = [itab EXCEPT ![call.inum].direct = call.bnum, ![call.inum].size = call.size]
  BY DEF WriteFinal, Done
<1>2. UniqueNames'
  BY <1>1, UniqueSame DEF OutcomeInv
<1>3. HasBlock /\ Filling
  BY <1>1 DEF HasBlock, Filling
<1>4. /\ call.comp \in Names /\ itab[call.inum] = [ZeroInode EXCEPT !.type = "file"]
      /\ Resolves(call.par, call.comp, call.inum) /\ call.size # 0
      /\ call.op = "copy" => call.buf = blk[call.sblk].data
      /\ blk[call.bnum].data = call.buf
  BY <1>1, <1>3 DEF OutcomeInv, TargetInv, SourceInv, DataInv
<1>5. call.bnum # 0
  BY <1>3 DEF CallInv, BlockInv
<1>6. itab[call.inum].type = "file" /\ itab[call.inum].indirect = <<>>
  BY <1>4 DEF ZeroInode
<1>7. /\ itab'[call.inum].direct = call.bnum /\ itab'[call.inum].size = call.size
      /\ itab'[call.inum].indirect = <<>>
  BY <1>0, <1>1, <1>6 DEF InodeRecords
<1>8. Resolves(call.par, call.comp, call.inum)'
  <2>1. PICK s \in Slots : Matches(call.par, call.comp, s) /\ Ents(call.par)[s].ino = call.inum
    BY <1>4, NameAssumption DEF Resolves
  <2>2. call.par # call.inum
    BY <1>6, <2>1 DEF Matches, IsDir
  <2>3. itab'[call.par] = itab[call.par]
    BY <1>0, <1>1, <2>2
  <2>4. Matches(call.par, call.comp, s)' /\ Ents(call.par)'[s].ino = call.inum
    BY <1>1, <2>1, <2>3 DEF Matches, FirstWith, IsDir, Ents
  <2> QED BY <1>1, <1>4, <2>4, NameAssumption DEF Resolves
<1>9. FsCat(call.inum)' = <<call.buf>>
  <2>1. call.bnum > 0 /\ call.size \in Nat
    BY <1>0, <1>5, SizeAssumption DEF Blocks
  <2>2. (IF 0 < call.size - 1 THEN 0 ELSE call.size - 1) = 0
    BY <1>4, <2>1
  <2> DEFINE rest(t) == [k \in 1 .. 0 |-> blk[t[k]].data]
  <2>3. \A t : rest(t) = <<>>
    OBVIOUS
  <2> HIDE DEF rest
  <2>4. FsCat(call.inum)' = <<blk[call.bnum].data>> \o rest(<<>>)
    BY <1>1, <1>4, <1>7, <2>1, <2>2 DEF FsCat, rest
  <2>5. <<blk[call.bnum].data>> \o <<>> = <<blk[call.bnum].data>>
    OBVIOUS
  <2> QED BY <1>4, <2>3, <2>4, <2>5
<1>10. WriteOutcome'
  <2>1. \E i \in Inodes : Resolves(call.par, call.comp, i)' /\ FsCat(i)' = <<call.buf>>
    BY <1>0, <1>1, <1>8, <1>9
  <2> QED BY <1>1, <1>4, <2>1 DEF WriteOutcome
<1> QED BY <1>1, <1>2, <1>10
    DEF OutcomeInv, AbsentInv, TargetInv, SourceInv, DataInv, Filling, Making

LEMMA OutcomeRequest ==
  ASSUME TypeOK, TypeOK', DiskInv, OutcomeInv, Request
  PROVE  OutcomeInv' /\ WriteOutcome'
<1>1. itab' = itab /\ blk' = blk /\ bbm' = bbm
  BY RequestStarts DEF Starts, FsCd, disk
<1>2. UniqueNames'
  BY <1>1, UniqueSame DEF OutcomeInv
<1>3. ASSUME call'.op \notin {"write", "copy"}, pc' \notin {"fill", "wdata", "wfinal"}
      PROVE  OutcomeInv' /\ WriteOutcome'
  BY <1>2, <1>3 DEF OutcomeInv, AbsentInv, TargetInv, SourceInv, DataInv, WriteOutcome, Filling
<1>4. ASSUME NEW o, o # "write", Reject(o) PROVE OutcomeInv' /\ WriteOutcome'
  <2>1. pc' = "ret" /\ ret' = "fail" /\ call' = [NoCall EXCEPT !.op = o]
    BY <1>4 DEF Reject, Begin
  <2>2. call'.op = o
    BY <2>1 DEF NoCall
  <2> QED BY <1>2, <1>4, <2>1, <2>2, OutcomeFails
<1>5. \A o, p, n : Path(o, p, n).op = o /\ Path(o, p, n).par = p /\ Path(o, p, n).comp = n
  BY DEF Path, NoCall
<1>6. ASSUME NEW p, NEW n, FsMkdir(p, n) \/ FsCreate(p, n)
      PROVE  OutcomeInv' /\ WriteOutcome'
  <2>1. pc' = "create" /\ \E o \in {"mkdir", "create"} : call' = Path(o, p, n)
    BY <1>6 DEF FsMkdir, FsCreate, Enter, Begin
  <2> QED BY <1>3, <1>5, <2>1
<1>7. ASSUME NEW p, NEW n, FsDelete(p, n) \/ FsRmdir(p, n)
      PROVE  OutcomeInv' /\ WriteOutcome'
  <2>1. CASE Reject("delete") \/ Reject("rmdir")
    BY <1>4, <2>1
  <2>2. CASE ~(Reject("delete") \/ Reject("rmdir"))
    <3>1. pc' = "rment" /\ \E o \in {"delete", "rmdir"}, i \in Inodes :
                             call' = [Path(o, p, n) EXCEPT !.tgt = i]
      BY <1>7, <2>2 DEF FsDelete, FsRmdir, Enter, Begin
    <3>2. call'.op \in {"delete", "rmdir"}
      BY <3>1 DEF Path, NoCall
    <3> QED BY <1>3, <3>1, <3>2
  <2> QED BY <2>1, <2>2
<1>8. ASSUME NEW p, NEW n, NEW p2, NEW n2, FsRename(p, n, p2, n2)
      PROVE  OutcomeInv' /\ WriteOutcome'
  <2>1. CASE Reject("rename")
    BY <1>4, <2>1
  <2>2. CASE ~Reject("rename")
    <3>1. pc' = "addent" /\ \E i \in Inodes :
            call' = [[Path("rename", p, n) EXCEPT !.par2 = p2, !.comp2 = n2] EXCEPT !.tgt = i]
      BY <1>8, <2>2 DEF FsRename, RenameFrom, Enter, Begin
    <3>2. call'.op = "rename"
      BY <3>1 DEF Path, NoCall
    <3> QED BY <1>3, <3>1, <3>2
  <2> QED BY <2>1, <2>2
<1>9. ASSUME NEW p \in Live, NEW n \in Comps, NEW p2, NEW n2, FsCopy(p, n, p2, n2)
      PROVE  OutcomeInv' /\ WriteOutcome'
  <2>1. CASE Reject("copy")
    BY <1>4, <2>1
  <2>2. CASE ~Reject("copy")
    <3>1. PICK i \in Inodes : /\ Resolves(p, n, i) /\ IsFile(i) /\ pc' = "create"
                              /\ call' = [Path("copy", p2, n2) EXCEPT !.size = itab[i].size,
                                                                      !.sblk = itab[i].direct]
      BY <1>9, <2>2 DEF FsCopy, Enter, Begin
    <3>2. call'.op = "copy" /\ call'.sblk = itab[i].direct
      BY <3>1 DEF Path, NoCall
    <3>3. p \in Inodes /\ IsLive(p)
      BY LiveType, LiveIs
    <3>4. itab[i].direct \in Blocks /\ itab[p].direct \in Blocks
      BY <3>3, LookupType
    <3>5. IsLive(i)
      <4>1. CASE n = Dot \/ (n = DotDot /\ p = 0)
        BY <3>1, <3>3, <4>1 DEF Resolves
      <4>2. CASE ~(n = Dot \/ (n = DotDot /\ p = 0))
        <5>1. PICK s \in Slots : Matches(p, n, s) /\ Ents(p)[s].ino = i
          BY <3>1, <4>2 DEF Resolves
        <5>2. n \in Names
          BY <3>1, <3>3, <5>1, FilePath
        <5> QED BY <3>4, <5>1, <5>2 DEF IsLive, Link, Ents, Matches, FirstWith
      <4> QED BY <4>1, <4>2
    <3>6. itab[i].direct \in bbm
      <4>1. CASE itab[i].direct = 0
        BY <4>1 DEF DiskInv, RootInv
      <4>2. CASE itab[i].direct # 0
        BY <3>4, <3>5, <4>2 DEF DiskInv, UsedInv, Owns
      <4> QED BY <4>1, <4>2
    <3> QED BY <1>1, <1>2, <3>1, <3>2, <3>6
        DEF OutcomeInv, AbsentInv, TargetInv, SourceInv, DataInv, WriteOutcome, Filling, Making
  <2> QED BY <2>1, <2>2
<1>10. ASSUME NEW p, NEW n, NEW d, NEW k, FsWriteFile(p, n, d, k)
       PROVE  OutcomeInv' /\ WriteOutcome'
  <2> DEFINE c == [Path("write", p, n) EXCEPT !.buf = IF k = 0 THEN NoChunk ELSE d, !.size = k]
  <2>1. c.op = "write" /\ c.par = p /\ c.comp = n
    BY DEF Path, NoCall
  <2>2. CASE \E i \in Inodes : Enter([c EXCEPT !.tgt = i], "rment")
    <3>1. pc' = "rment" /\ \E i \in Inodes : call' = [c EXCEPT !.tgt = i]
      BY <2>2 DEF Enter, Begin
    <3>2. call'.op = "write"
      BY <3>1 DEF Path, NoCall
    <3> QED BY <1>2, <3>1, <3>2, OutcomeQuiet DEF Making
  <2>3. CASE /\ ~\E i \in Inodes : Resolves(p, n, i) /\ IsFile(i)
             /\ Enter(c, "create")
    <3>1. pc' = "create" /\ call' = c
      BY <2>3 DEF Enter, Begin
    <3> HIDE DEF c
    <3>2. call'.op = "write" /\ call'.par = p /\ call'.comp = n
      BY <2>1, <3>1
    <3>3. \A i \in Inodes : ~(Resolves(call.par, call.comp, i) /\ IsFile(i))'
      BY <1>1, <2>3, <3>2 DEF Resolves, Matches, FirstWith, IsDir, IsFile, Ents
    <3> QED BY <1>2, <3>1, <3>2, <3>3
        DEF OutcomeInv, AbsentInv, TargetInv, SourceInv, DataInv, WriteOutcome, Filling, Making
  <2> QED BY <1>10, <2>2, <2>3 DEF FsWriteFile
<1>11. ASSUME NEW i, FsCd(i) PROVE OutcomeInv' /\ WriteOutcome'
  <2>1. pc' = "idle"
    BY <1>11 DEF FsCd
  <2> QED BY <1>2, <2>1, OutcomeQuiet DEF Making
<1> QED BY <1>6, <1>7, <1>8, <1>9, <1>10, <1>11, Zenon DEF Request

LEMMA OutcomesKept == ASSUME NamesFit PROVE Spec => [](torn \/ (OutcomeInv /\ WriteOutcome))
<1> DEFINE Inv == torn \/ (OutcomeInv /\ WriteOutcome)
<1>1. Init => Inv
  <2> SUFFICES ASSUME Init PROVE OutcomeInv /\ WriteOutcome
    OBVIOUS
  <2>1. pc = "idle" /\ call.op = "none"
    BY DEF Init, NoCall
  <2>2. PICK n \in Names, c \in Chunks : blk = [b \in Blocks |->
            CASE b = 1 -> RootBlock(n)
              [] b = 2 \/ (BigFile /\ b = 3) -> DataBlock(c)
              [] OTHER -> ZeroBlock]
    BY DEF Init
  <2>3. \A s \in Slots : /\ RootBlock(n).ents[s].name \in Names => s = 3
                         /\ DataBlock(c).ents[s].name \notin Names
                         /\ ZeroBlock.ents[s].name \notin Names
    BY NameAssumption DEF RootBlock, DataBlock, ZeroBlock, NoEntry
  <2> HIDE DEF RootBlock, DataBlock, ZeroBlock
  <2>4. \A b \in Blocks, s \in Slots : Link(b, s) => b = 1 /\ s = 3
    <3> SUFFICES ASSUME NEW b \in Blocks, NEW s \in Slots, Link(b, s) PROVE b = 1 /\ s = 3
      OBVIOUS
    <3>1. (blk[b] = RootBlock(n) /\ b = 1) \/ blk[b] = DataBlock(c) \/ blk[b] = ZeroBlock
      BY <2>2
    <3> QED BY <2>3, <3>1 DEF Link
  <2>5. UniqueNames
    BY <2>4 DEF UniqueNames, Link
  <2> QED BY <2>1, <2>5
      DEF OutcomeInv, AbsentInv, TargetInv, SourceInv, DataInv, WriteOutcome, Filling, Making
<1>2. IndInv /\ IndInv' /\ Inv /\ [Next]_vars => Inv'
  <2> SUFFICES ASSUME IndInv, IndInv', Inv, [Next]_vars, ~torn
               PROVE  torn' \/ (OutcomeInv' /\ WriteOutcome')
    BY TornStays DEF IndInv
  <2>1. TypeOK /\ TypeOK' /\ DiskInv /\ CallInv /\ OutcomeInv /\ WriteOutcome
    BY DEF IndInv
  <2>2. CASE Step
    BY <2>1, <2>2, OutcomeBitmap, OutcomeInode, OutcomeAdd, OutcomeRemove, OutcomeFill,
       OutcomeBlock, OutcomeFinal DEF Step
  <2>3. CASE Request
    BY <2>1, <2>3, OutcomeRequest
  <2>4. CASE Crash
    <3>1. pc' = "idle" /\ blk' = blk
      BY <2>4 DEF Crash, disk
    <3>2. UniqueNames'
      BY <2>1, <3>1, UniqueSame DEF OutcomeInv
    <3> QED BY <3>1, <3>2, OutcomeQuiet DEF Making
  <2>5. CASE UNCHANGED vars
    <3>1. UNCHANGED <<ibm, bbm, itab, blk, pc, call, ret, torn>>
      BY <2>5 DEF vars
    <3>2. UniqueNames'
      BY <2>1, <3>1, UniqueSame DEF OutcomeInv
    <3>3. \A i \in Inodes : Resolves(call.par, call.comp, i)' <=> Resolves(call.par, call.comp, i)
      BY <3>1 DEF Resolves, Matches, FirstWith, IsDir, Ents
    <3>4. \A i \in Inodes : FsCat(i)' = FsCat(i) /\ (IsFile(i)' <=> IsFile(i))
      BY <3>1 DEF FsCat, IsFile
    <3>5. Absent' <=> Absent
      BY <3>1 DEF Absent, Found, IsDir, Ents
    <3>6. AbsentInv'
      BY <2>1, <3>1, <3>3, <3>4, <3>5 DEF OutcomeInv, AbsentInv, Making
    <3>7. TargetInv'
      <4>1. Resolves(call.par, call.comp, call.inum)' <=> Resolves(call.par, call.comp, call.inum)
        BY <3>1 DEF Resolves, Matches, FirstWith, IsDir, Ents
      <4> QED BY <2>1, <3>1, <4>1 DEF OutcomeInv, TargetInv, Filling
    <3>8. SourceInv' /\ DataInv'
      BY <2>1, <3>1 DEF OutcomeInv, SourceInv, DataInv, Filling, Making
    <3>9. WriteOutcome'
      BY <2>1, <3>1, <3>3, <3>4 DEF WriteOutcome
    <3> QED BY <3>2, <3>6, <3>7, <3>8, <3>9 DEF OutcomeInv
  <2> QED BY <2>2, <2>3, <2>4, <2>5 DEF Next
<1>3. Spec => []Inv
  <2> HIDE DEF Inv
  <2> QED BY <1>1, <1>2, Inductive, PTL DEF Spec
<1> QED BY <1>3

LEMMA OutcomesSound == ASSUME NamesFit PROVE Spec => [](torn \/ OutcomeInv)
<1>1. torn \/ (OutcomeInv /\ WriteOutcome) => torn \/ OutcomeInv
  OBVIOUS
<1> QED BY <1>1, OutcomesKept, PTL

(* When every name fits in the 28 bytes of a directory entry: a            *)
(* fs_write_file or fs_copy that succeeds leaves a file whose contents are *)
(* the first block of the data or of the source, and a fs_write_file that  *)
(* fails never leaves the old contents behind the name.  (Without the      *)
(* hypothesis a rename to a longer name can make a directory hold the same *)
(* name twice, and a write then finds the other file.)                     *)
THEOREM WritesAsAsked == ASSUME NamesFit PROVE Spec => []WriteOutcome
<1>1. torn \/ (OutcomeInv /\ WriteOutcome) => WriteOutcome
  BY DEF WriteOutcome
<1> QED BY <1>1, OutcomesKept, PTL

-----------------------------------------------------------------------------
(* Induction and recursion over the naturals.                              *)

(* A nonempty set of naturals has a least element.                         *)
LEMMA MinExists ==
  ASSUME NEW T, T \subseteq Nat, T # {}
  PROVE  \E x \in T : \A y \in T : x <= y
<1>1. PICK R : R = OpToRel(<, Nat)
  OBVIOUS
<1>2. IsWellFoundedOn(R, Nat)
  BY <1>1, NatLessThanWellFounded
<1>3. PICK x \in T : \A y \in T : ~(<<y, x>> \in R)
  BY <1>2, WFMin
<1>4. \A y \in T : y < x => <<y, x>> \in R
  BY <1>1 DEF OpToRel
<1>5. \A y \in T : ~(y < x)
  BY <1>3, <1>4
<1>6. \A y \in Nat, z \in Nat : ~(y < z) => z <= y
  OBVIOUS
<1> QED BY <1>5, <1>6

(* Induction, with a set in the place of a predicate.                      *)
LEMMA Induction ==
  ASSUME NEW T, 0 \in T, \A n \in Nat : n \in T => n + 1 \in T
  PROVE  Nat \subseteq T
<1> SUFFICES ASSUME Nat \ T # {} PROVE FALSE
  OBVIOUS
<1>1. PICK x \in Nat \ T : \A y \in Nat \ T : x <= y
  BY MinExists
<1>2. x # 0 /\ x - 1 \in Nat
  BY <1>1
<1>3. x - 1 \in T
  BY <1>1, <1>2
<1> QED BY <1>1, <1>2, <1>3

(* A function defined from its value at the argument before exists.        *)
Exists(X, base, N, h) ==
  \E g \in [0 .. N -> X] : g[0] = base /\ \A n \in 1 .. N : g[n] = h[n][g[n - 1]]
LEMMA Recursion ==
  ASSUME NEW X, NEW base \in X, NEW N \in Nat, NEW h \in [Nat -> [X -> X]]
  PROVE  Exists(X, base, N, h)
<1> DEFINE Is(g, M) == g[0] = base /\ \A n \in 1 .. M : g[n] = h[n][g[n - 1]]
           T == {M \in Nat : \E g \in [0 .. M -> X] : Is(g, M)}
<1>1. 0 \in T
  <2> DEFINE g == [n \in 0 .. 0 |-> base]
  <2>1. g \in [0 .. 0 -> X] /\ Is(g, 0)
    OBVIOUS
  <2> QED BY <2>1
<1>2. ASSUME NEW M \in Nat, M \in T PROVE M + 1 \in T
  <2>1. PICK g \in [0 .. M -> X] : Is(g, M)
    BY <1>2
  <2> DEFINE k == [n \in 0 .. M + 1 |-> IF n = M + 1 THEN h[n][g[M]] ELSE g[n]]
  <2>2. k \in [0 .. M + 1 -> X]
    OBVIOUS
  <2>3. k[0] = base /\ \A n \in 1 .. M : k[n] = h[n][k[n - 1]]
    BY <2>1
  <2>4. k[M + 1] = h[M + 1][k[M]]
    OBVIOUS
  <2>5. Is(k, M + 1)
    <3> HIDE DEF k
    <3> QED BY <2>3, <2>4
  <2>6. M + 1 \in Nat
    OBVIOUS
  <2> QED
    <3> HIDE DEF k, Is
    <3> QED BY <2>2, <2>5, <2>6
<1>3. Nat \subseteq T
  <2> HIDE DEF T
  <2> QED BY <1>1, <1>2, Induction
<1> QED BY <1>3 DEF Exists

-----------------------------------------------------------------------------
(* The names form a tree.                                                  *)

(* The node x moved behind all the others.                                 *)
IsLast(q, r, x) ==
  /\ q \in [Inodes -> Inodes]
  /\ \A i, j \in Inodes : q[i] = q[j] => i = j
  /\ \A i \in Inodes : i # x => q[i] < q[x]
  /\ \A i, j \in Inodes : i # x /\ j # x /\ r[i] < r[j] => q[i] < q[j]
LEMMA MovedLast ==
  ASSUME NEW r \in [Inodes -> Inodes], \A i, j \in Inodes : r[i] = r[j] => i = j, NEW x \in Inodes
  PROVE  \E q : IsLast(q, r, x)
<1>0. NInodes \in Nat /\ NInodes >= 2 /\ Inodes = 0 .. NInodes - 1
  BY SizeAssumption DEF Inodes
<1> DEFINE q == [i \in Inodes |-> IF i = x THEN NInodes - 1 ELSE IF r[i] > r[x] THEN r[i] - 1 ELSE r[i]]
<1>1. \A i \in Inodes : r[i] \in Nat /\ r[i] <= NInodes - 1
  BY <1>0
<1>2. ASSUME NEW i \in Inodes, i # x
      PROVE  /\ r[i] # r[x] /\ q[i] \in Nat /\ q[i] < NInodes - 1
             /\ q[i] = IF r[i] > r[x] THEN r[i] - 1 ELSE r[i]
  <2>1. r[i] # r[x]
    BY <1>2
  <2> QED BY <1>0, <1>1, <1>2, <2>1
<1>3. q[x] = NInodes - 1 /\ q[x] \in Inodes
  BY <1>0
<1>4. q \in [Inodes -> Inodes]
  <2>1. \A i \in Inodes : q[i] \in Inodes
    BY <1>0, <1>2, <1>3
  <2> QED BY <2>1
<1>5. ASSUME NEW i \in Inodes, NEW j \in Inodes, i # x, j # x, r[i] < r[j] PROVE q[i] < q[j]
  <2> HIDE DEF q
  <2> QED BY <1>1, <1>2, <1>5
<1>6. ASSUME NEW i \in Inodes, NEW j \in Inodes, q[i] = q[j] PROVE i = j
  <2>1. CASE i = x \/ j = x
    <3> HIDE DEF q
    <3> QED BY <1>0, <1>2, <1>3, <1>6, <2>1
  <2>2. CASE i # x /\ j # x
    <3>1. ~(r[i] < r[j]) /\ ~(r[j] < r[i])
      <4>1. q[i] \in Nat /\ q[j] \in Nat
        BY <1>2, <2>2
      <4> HIDE DEF q
      <4> QED BY <1>5, <1>6, <2>2, <4>1
    <3>2. r[i] = r[j]
      BY <1>1, <3>1
    <3> QED BY <3>2
  <2> QED BY <2>1, <2>2
<1>7. \A i \in Inodes : i # x => q[i] < q[x]
  BY <1>2, <1>3
<1>8. IsLast(q, r, x)
  <2> HIDE DEF q
  <2> QED BY <1>4, <1>5, <1>6, <1>7 DEF IsLast
<1> QED BY <1>8

(* A step after which a directory is above what it was above before.       *)
LEMMA TreeShrinks ==
  ASSUME \A d, i \in Inodes : Above(d, i)' => Above(d, i),
         NEW r \in [Inodes -> Inodes], Ranked(r)
  PROVE  TreeInv'
<1>1. Ranked(r)'
  BY DEF Ranked
<1> QED BY <1>1 DEF TreeInv

LEMMA TreeFrame ==
  ASSUME TypeOK, TypeOK',
         \A b \in Blocks, s \in Slots :
           Link(b, s)' => Link(b, s) /\ blk'[b].ents[s].ino = blk[b].ents[s].ino,
         \A i \in Inodes : IsLive(i) /\ IsDir(i)' => IsDir(i) /\ itab'[i].direct = itab[i].direct,
         ~torn, TreeInv
  PROVE  TreeInv'
<1>1. \A i \in Inodes : IsLive(i)' => IsLive(i)
  BY DEF IsLive
<1>2. ASSUME NEW d \in Inodes, NEW i \in Inodes, Above(d, i)' PROVE Above(d, i)
  <2>1. PICK b \in Blocks, s \in Slots : itab'[d].direct = b /\ Link(b, s)' /\ blk'[b].ents[s].ino = i
    BY <1>2 DEF Above
  <2>2. IsLive(d)' /\ IsDir(d)'
    BY <1>2 DEF Above
  <2>3. IsLive(d) /\ IsDir(d) /\ itab[d].direct = b
    BY <1>1, <2>1, <2>2
  <2>4. Link(b, s) /\ blk[b].ents[s].ino = i
    BY <2>1
  <2> QED BY <2>3, <2>4 DEF Above
<1>3. PICK r \in [Inodes -> Inodes] : Ranked(r)
  BY DEF TreeInv
<1> QED BY <1>2, <1>3, TreeShrinks

(* One more node below a directory: a node with nothing below it can go    *)
(* behind all the others.                                                  *)
LEMMA TreeGrows ==
  ASSUME ~torn, TreeInv, NEW e \in Inodes, NEW x \in Inodes,
         \A d, i \in Inodes : Above(d, i)' => Above(d, i) \/ (d = e /\ i = x),
         Above(e, x) \/ \A i \in Inodes : ~Above(x, i)'
  PROVE  TreeInv'
<1>1. PICK r \in [Inodes -> Inodes] : Ranked(r)
  BY DEF TreeInv
<1>2. CASE Above(e, x)
  BY <1>1, <1>2, TreeShrinks
<1>3. CASE \A i \in Inodes : ~Above(x, i)'
  <2>1. PICK q : IsLast(q, r, x)
    BY <1>1, MovedLast DEF Ranked
  <2>2. ASSUME NEW d \in Inodes, NEW i \in Inodes, Above(d, i)' PROVE q[d] < q[i]
    <3>1. d # x
      BY <1>3, <2>2
    <3>2. CASE i = x
      BY <2>1, <3>1, <3>2 DEF IsLast
    <3>3. CASE i # x
      <4>1. Above(d, i)
        BY <2>2, <3>3
      <4>2. r[d] < r[i]
        BY <1>1, <4>1 DEF Ranked
      <4> QED BY <2>1, <3>1, <3>3, <4>2 DEF IsLast
    <3> QED BY <3>2, <3>3
  <2>3. q \in [Inodes -> Inodes] /\ \A i, j \in Inodes : q[i] = q[j] => i = j
    BY <2>1 DEF IsLast
  <2>4. Ranked(q)'
    BY <2>2, <2>3 DEF Ranked
  <2> QED BY <2>3, <2>4 DEF TreeInv
<1> QED BY <1>2, <1>3

(* tinyfs_add_dirent: the entry u of the directory e now names x.          *)
LEMMA TreeAdd ==
  ASSUME TypeOK, TypeOK', DiskInv, ~torn, TreeInv,
         NEW e \in Inodes, IsLive(e), IsDir(e), NEW u \in Slots, NEW nm, NEW x \in Inodes,
         blk' = BlkWith(e, u, x, nm), itab' = itab,
         \/ IsLive(x) /\ (~IsDir(x) \/ Above(e, x))
         \/ ~IsLive(x) /\ (~IsDir(x) \/ (/\ itab[x].direct # itab[e].direct
                                         /\ \A s \in Slots : ~Link(itab[x].direct, s)))
  PROVE  TreeInv'
<1>1. PICK B \in Blocks : B = itab[e].direct
  BY LookupType
<1>2. /\ \A b \in Blocks, s \in Slots : b # B \/ s # u => blk'[b].ents[s] = blk[b].ents[s]
      /\ blk'[B].ents[u].ino = x
  BY <1>1 DEF BlkWith, TypeOK, BlockContents
<1>3. \A b \in Blocks, s \in Slots :
        (b # B \/ s # u) /\ Link(b, s)' => Link(b, s) /\ blk'[b].ents[s].ino = blk[b].ents[s].ino
  BY <1>2 DEF Link
<1>4. ASSUME NEW i \in Inodes, IsLive(i)', i # x PROVE IsLive(i)
  <2>1. CASE i = 0
    BY <2>1 DEF IsLive
  <2>2. CASE i # 0
    <3>1. PICK b \in Blocks, s \in Slots : Link(b, s)' /\ blk'[b].ents[s].ino = i
      BY <1>4, <2>2 DEF IsLive
    <3>2. b # B \/ s # u
      BY <1>2, <1>4, <3>1
    <3> QED BY <1>3, <3>1, <3>2 DEF IsLive
  <2> QED BY <2>1, <2>2
<1>5. itab[e].direct # 0 /\ B # 0
  BY <1>1 DEF DiskInv, DotsInv
<1>6. ASSUME NEW i \in Inodes, ~IsLive(x), Above(x, i)' PROVE FALSE
  <2>1. IsDir(x) /\ \E b \in Blocks, s \in Slots : itab[x].direct = b /\ Link(b, s)'
    BY <1>6 DEF Above, IsDir
  <2>2. PICK b \in Blocks, s \in Slots : itab[x].direct = b /\ Link(b, s)'
    BY <2>1
  <2>3. b # B /\ ~Link(b, s)
    BY <1>1, <1>6, <2>1, <2>2
  <2> QED BY <1>3, <2>2, <2>3
<1>7. ASSUME NEW d \in Inodes, NEW i \in Inodes, Above(d, i)' PROVE Above(d, i) \/ (d = e /\ i = x)
  <2>1. IsLive(d)' /\ IsDir(d)
    BY <1>7 DEF Above, IsDir
  <2>2. PICK b \in Blocks, s \in Slots : itab[d].direct = b /\ Link(b, s)' /\ blk'[b].ents[s].ino = i
    BY <1>7 DEF Above
  <2>3. IsLive(d)
    BY <1>4, <1>6, <1>7, <2>1
  <2>4. CASE b # B \/ s # u
    BY <1>3, <2>1, <2>2, <2>3, <2>4 DEF Above
  <2>5. CASE b = B /\ s = u
    <3>1. Owns(d, B) /\ Owns(e, B)
      BY <1>1, <1>5, <2>2, <2>5 DEF Owns
    <3>2. d = e
      BY <2>3, <3>1 DEF DiskInv, DisjointInv
    <3> QED BY <1>2, <2>2, <2>5, <3>2
  <2> QED BY <2>4, <2>5
<1>8. Above(e, x) \/ \A i \in Inodes : ~Above(x, i)'
  <2>1. CASE ~IsDir(x)
    BY <2>1 DEF Above, IsDir
  <2>2. CASE ~IsLive(x)
    BY <1>6, <2>2
  <2> QED BY <2>1, <2>2
<1> QED BY <1>7, <1>8, TreeGrows

LEMMA TreeAddDirent ==
  ASSUME TypeOK, TypeOK', DiskInv, CallInv, ~torn, TreeInv, AddDirent, blk' # blk
  PROVE  TreeInv'
<1>1. pc = "addent" /\ itab' = itab /\ call.op \in {"mkdir", "create", "copy", "write", "rename"}
  BY DEF AddDirent, CallInv, OpInv
<1>2. CASE call.op = "rename"
  <2>1. PICK u \in Slots :
          /\ Matches(call.par2, NoName, u)
          /\ blk' = [blk EXCEPT ![itab[call.par2].direct].ents[u] =
                       [ino |-> call.tgt, name |-> Stored(call.comp2)]]
    BY <1>2 DEF AddDirent
  <2>2. PICK e \in Inodes, x \in Inodes, p \in Inodes : e = call.par2 /\ x = call.tgt /\ p = call.par
    BY DEF TypeOK, Calls
  <2>3. blk' = BlkWith(e, u, x, Stored(call.comp2))
    BY <2>1, <2>2 DEF BlkWith
  <2>4. IsLive(e) /\ IsDir(e)
    BY <1>1, <1>2, <2>1, <2>2 DEF CallInv, PathInv, Matches
  <2>5. PICK s \in Slots : Matches(p, call.comp, s) /\ Ents(p)[s].ino = x
    BY <1>1, <1>2, <2>2 DEF CallInv, RenameInv
  <2>6. call.comp \in Names /\ (IsDir(x) => e = p)
    BY <1>1, <1>2, <2>2 DEF CallInv, RenameInv
  <2>7. PICK b \in Blocks : b = itab[p].direct
    BY LookupType
  <2>8. Link(b, s) /\ blk[b].ents[s].ino = x
    BY <2>5, <2>6, <2>7 DEF Matches, FirstWith, Ents, Link
  <2>9. IsLive(x) /\ (IsDir(x) => Above(e, x))
    BY <2>4, <2>6, <2>7, <2>8 DEF IsLive, Above
  <2> QED BY <1>1, <2>3, <2>4, <2>9, TreeAdd
<1>3. CASE call.op # "rename"
  <2>1. PICK u \in Slots :
          /\ Matches(call.par, NoName, u)
          /\ blk' = [blk EXCEPT ![itab[call.par].direct].ents[u] =
                       [ino |-> call.inum, name |-> Stored(call.comp)]]
    BY <1>3 DEF AddDirent
  <2>2. PICK e \in Inodes, x \in Inodes : e = call.par /\ x = call.inum
    BY DEF TypeOK, Calls
  <2>3. blk' = BlkWith(e, u, x, Stored(call.comp))
    BY <2>1, <2>2 DEF BlkWith
  <2>4. Making
    BY <1>1, <1>3 DEF Making
  <2>5. IsLive(e) /\ IsDir(e) /\ ~IsLive(x)
    BY <2>2, <2>4 DEF CallInv, PathInv, InPath, MakeInv
  <2>6. CASE call.op # "mkdir"
    <3>1. itab[x] = [ZeroInode EXCEPT !.type = "file"]
      BY <1>1, <1>3, <2>2, <2>6 DEF CallInv, MakeInv
    <3>2. ~IsDir(x)
      BY <3>1 DEF ZeroInode, IsDir
    <3> QED BY <1>1, <2>3, <2>5, <3>2, TreeAdd
  <2>7. CASE call.op = "mkdir"
    <3>1. /\ itab[x] = [ZeroInode EXCEPT !.type = "dir", !.direct = call.bnum]
          /\ blk[call.bnum] = NewDirBlock(x, e)
      BY <1>1, <2>2, <2>7 DEF CallInv, MakeInv
    <3>2. call.bnum # 0 /\ \A i \in Inodes : IsLive(i) => ~Owns(i, call.bnum)
      BY <1>1, <2>7 DEF CallInv, BlockInv, HasBlock
    <3>3. itab[x].direct = call.bnum
      BY <3>1 DEF ZeroInode
    <3>4. itab[x].direct # itab[e].direct
      BY <2>5, <3>2, <3>3 DEF Owns
    <3>5. \A s \in Slots : NewDirBlock(x, e).ents[s].name \notin Names
      BY NameAssumption, Constants DEF NewDirBlock, ZeroBlock, NoEntry, Slots
    <3>6. \A s \in Slots : ~Link(itab[x].direct, s)
      BY <3>1, <3>3, <3>5 DEF Link
    <3> QED BY <1>1, <2>3, <2>5, <3>4, <3>6, TreeAdd
  <2> QED BY <2>6, <2>7
<1> QED BY <1>2, <1>3

(* The other steps.                                                        *)
LEMMA TreeStep ==
  ASSUME TypeOK, TypeOK', DiskInv, CallInv, ~torn, TreeInv, Step
  PROVE  TreeInv'
<1> DEFINE SameLinks == \A b \in Blocks, s \in Slots :
                          Link(b, s)' => Link(b, s) /\ blk'[b].ents[s].ino = blk[b].ents[s].ino
           SameNodes == \A i \in Inodes : IsLive(i) /\ IsDir(i)' => IsDir(i) /\ itab'[i].direct = itab[i].direct
<1>1. blk' = blk => SameLinks
  BY DEF Link
<1>2. itab' = itab => SameNodes
  BY DEF IsDir
<1>3. SameLinks /\ SameNodes => TreeInv'
  BY TreeFrame
<1>4. CASE WriteDirBlock \/ WriteData
  <2>1. PICK v \in {NewDirBlock(call.inum, call.par), DataBlock(call.buf)} : blk' = [blk EXCEPT ![call.bnum] = v]
    BY <1>4 DEF WriteDirBlock, WriteData
  <2>2. \A s \in Slots : v.ents[s].name \notin Names
    <3>1. \A s \in Slots : NewDirBlock(call.inum, call.par).ents[s].name \notin Names
      BY NameAssumption, Constants DEF NewDirBlock, ZeroBlock, NoEntry, Slots
    <3>2. \A s \in Slots : DataBlock(call.buf).ents[s].name \notin Names
      BY NameAssumption DEF DataBlock, ZeroBlock, NoEntry
    <3> QED BY <2>1, <3>1, <3>2
  <2>3. \A b \in Blocks : blk'[b] = IF b = call.bnum THEN v ELSE blk[b]
    BY <2>1 DEF TypeOK
  <2>4. SameLinks
    BY <2>2, <2>3 DEF Link
  <2>5. itab' = itab
    BY <1>4 DEF WriteDirBlock, WriteData
  <2> QED BY <1>2, <1>3, <2>4, <2>5
<1>5. CASE AddDirent
  <2>1. CASE blk' = blk
    <3>1. itab' = itab
      BY <1>5 DEF AddDirent
    <3> QED BY <1>1, <1>2, <1>3, <2>1, <3>1
  <2> QED BY <1>5, <2>1, TreeAddDirent
<1>6. CASE RemoveDirent
  <2>1. itab' = itab
    BY <1>6 DEF RemoveDirent
  <2>2. CASE blk' = blk
    BY <1>1, <1>2, <1>3, <2>1, <2>2
  <2>3. CASE blk' # blk
    <3>1. PICK u \in Slots : blk' = BlkWithout(call.par, u)
      BY <1>6, <2>3 DEF RemoveDirent, WithoutEntry, BlkWithout
    <3>2. call.par \in Inodes
      BY DEF TypeOK, Calls
    <3>3. /\ \A b \in Blocks, s \in Slots :
               b # itab[call.par].direct \/ s # u => blk'[b].ents[s] = blk[b].ents[s]
          /\ \A b \in Blocks, s \in Slots :
               Link(b, s)' <=> Link(b, s) /\ (b # itab[call.par].direct \/ s # u)
      BY <3>1, <3>2, EntryRemoved
    <3>4. SameLinks
      BY <3>3
    <3> QED BY <1>2, <1>3, <2>1, <3>4
  <2> QED BY <2>2, <2>3
<1>7. CASE InodeClear \/ WriteInode
  <2>1. blk' = blk /\ call.inum \in Inodes
    BY <1>7 DEF InodeClear, WriteInode, TypeOK, Calls
  <2>2. PICK v : itab' = [itab EXCEPT ![call.inum] = v]
    BY <1>7 DEF InodeClear, WriteInode
  <2>3. ~IsLive(call.inum)
    <3>1. Making
      BY <1>7 DEF InodeClear, WriteInode, Making, CallInv, OpInv
    <3> QED BY <3>1 DEF CallInv, MakeInv
  <2>4. \A i \in Inodes : i # call.inum => itab'[i] = itab[i]
    BY <2>2 DEF TypeOK
  <2>5. SameNodes
    BY <2>3, <2>4 DEF IsDir
  <2> QED BY <1>1, <1>3, <2>1, <2>5
<1>8. CASE WriteFinal
  <2>1. blk' = blk /\ call.inum \in Inodes /\ pc = "wfinal"
        /\ itab' = [itab EXCEPT ![call.inum].direct = call.bnum, ![call.inum].size = call.size]
    BY <1>8 DEF WriteFinal, TypeOK, Calls
  <2>2. IsFile(call.inum)
    BY <2>1 DEF CallInv, FillInv, Filling
  <2>3. \A i \in Inodes : i # call.inum => itab'[i] = itab[i]
    BY <2>1 DEF TypeOK
  <2>4. itab'[call.inum].type = "file"
    BY <2>1, <2>2 DEF IsFile, TypeOK, InodeRecords
  <2>5. SameNodes
    BY <2>3, <2>4 DEF IsDir
  <2> QED BY <1>1, <1>3, <2>1, <2>5
<1>9. CASE \/ CreateNode \/ MkdirBlock \/ FreeBlock \/ FreeInode \/ UndoBlock \/ UndoInode
           \/ FillBlock \/ Return
  <2>1. blk' = blk /\ itab' = itab
    BY <1>9 DEF CreateNode, MkdirBlock, FreeBlock, FreeInode, UndoBlock, UndoInode, FillBlock, Return, disk
  <2> QED BY <1>1, <1>2, <1>3, <2>1
<1> HIDE DEF SameLinks, SameNodes
<1> QED BY <1>4, <1>5, <1>6, <1>7, <1>8, <1>9 DEF Step

(* In the image the root is above the one file.                            *)
LEMMA TreeInit == ASSUME Init, TypeOK PROVE TreeInv
<1>0. Inodes = 0 .. NInodes - 1 /\ NInodes \in Nat
  BY SizeAssumption DEF Inodes
<1>1. PICK n \in Names, c \in Chunks : blk = [b \in Blocks |->
          CASE b = 1 -> RootBlock(n)
            [] b = 2 \/ (BigFile /\ b = 3) -> DataBlock(c)
            [] OTHER -> ZeroBlock]
  BY DEF Init
<1>2. \A s \in Slots : /\ RootBlock(n).ents[s].name \in Names => RootBlock(n).ents[s].ino = 1
                       /\ DataBlock(c).ents[s].name \notin Names
                       /\ ZeroBlock.ents[s].name \notin Names
  BY NameAssumption DEF RootBlock, DataBlock, ZeroBlock, NoEntry
<1>3. \A b \in Blocks, s \in Slots : Link(b, s) => blk[b].ents[s].ino = 1
  <2> SUFFICES ASSUME NEW b \in Blocks, NEW s \in Slots, Link(b, s) PROVE blk[b].ents[s].ino = 1
    OBVIOUS
  <2> HIDE DEF RootBlock, DataBlock, ZeroBlock
  <2>1. blk[b] = RootBlock(n) \/ blk[b] = DataBlock(c) \/ blk[b] = ZeroBlock
    BY <1>1
  <2> QED BY <1>2, <2>1 DEF Link
<1>4. \A i \in Inodes : IsDir(i) => i = 0
  BY DEF Init, IsDir, AddedFile, ZeroInode
<1>5. \A d, i \in Inodes : Above(d, i) => d = 0 /\ i = 1
  BY <1>3, <1>4 DEF Above
<1> DEFINE r == [i \in Inodes |-> i]
<1>6. r \in [Inodes -> Inodes] /\ \A i, j \in Inodes : r[i] = r[j] => i = j
  OBVIOUS
<1>7. \A d, i \in Inodes : Above(d, i) => r[d] < r[i]
  BY <1>5
<1>8. Ranked(r)
  <2> HIDE DEF r
  <2> QED BY <1>6, <1>7 DEF Ranked
<1> QED BY <1>6, <1>8 DEF TreeInv

LEMMA TreeKept == Spec => []TreeInv
<1>1. Init /\ IndInv => TreeInv
  BY TreeInit DEF IndInv
<1>2. IndInv /\ IndInv' /\ TreeInv /\ [Next]_vars => TreeInv'
  <2> SUFFICES ASSUME IndInv, IndInv', TreeInv, [Next]_vars, ~torn PROVE TreeInv'
    BY TornStays DEF IndInv, TreeInv
  <2>1. TypeOK /\ TypeOK' /\ DiskInv /\ CallInv
    BY DEF IndInv
  <2>2. CASE Step
    BY <2>1, <2>2, TreeStep
  <2>3. CASE UNCHANGED <<itab, blk>>
    <3>1. \A b \in Blocks, s \in Slots :
            Link(b, s)' => Link(b, s) /\ blk'[b].ents[s].ino = blk[b].ents[s].ino
      BY <2>3 DEF Link
    <3>2. \A i \in Inodes : IsLive(i) /\ IsDir(i)' => IsDir(i) /\ itab'[i].direct = itab[i].direct
      BY <2>3 DEF IsDir
    <3> QED BY <2>1, <3>1, <3>2, TreeFrame
  <2>4. Request \/ Crash \/ UNCHANGED vars => UNCHANGED <<itab, blk>>
    <3>1. Request => UNCHANGED <<itab, blk>>
      BY RequestBegins DEF Begin, FsCd, disk
    <3>2. Crash \/ UNCHANGED vars => UNCHANGED <<itab, blk>>
      BY DEF Crash, disk, vars
    <3> QED BY <3>1, <3>2
  <2> QED BY <2>2, <2>3, <2>4 DEF Next
<1> QED BY <1>1, <1>2, Inductive, PTL DEF Spec

(* What a path of at most n components reaches.                            *)
OneMore(X) == X \cup UNION {Entries(d) : d \in {e \in X : IsDir(e)}}
ReachSteps(g) ==
  /\ g \in [0 .. NInodes -> SUBSET Inodes] /\ g[0] = {0}
  /\ \A n \in 1 .. NInodes : g[n] = OneMore(g[n - 1])
LEMMA ReachableIs ==
  ASSUME TypeOK
  PROVE  \E g : ReachSteps(g) /\ Reachable = g[NInodes]
<1> DEFINE h == [n \in Nat |-> [X \in SUBSET Inodes |-> OneMore(X)]]
           D(g) == [n \in 0 .. NInodes |-> IF n = 0 THEN {0} ELSE OneMore(g[n - 1])]
<1>0. NInodes \in Nat /\ {0} \in SUBSET Inodes
  BY SizeAssumption, Constants
<1>1. ASSUME NEW X \in SUBSET Inodes PROVE OneMore(X) \in SUBSET Inodes
  <2>1. \A d : Entries(d) \subseteq Inodes
    BY LinkIs DEF Entries
  <2> QED BY <2>1 DEF OneMore
<1>2. h \in [Nat -> [SUBSET Inodes -> SUBSET Inodes]]
  BY <1>1
<1>3. PICK g \in [0 .. NInodes -> SUBSET Inodes] :
        g[0] = {0} /\ \A n \in 1 .. NInodes : g[n] = h[n][g[n - 1]]
  <2>1. Exists(SUBSET Inodes, {0}, NInodes, h)
    <3> HIDE DEF h
    <3> QED BY <1>0, <1>2, Recursion, Zenon
  <2> QED BY <2>1 DEF Exists
<1>4. \A n \in 1 .. NInodes : g[n] = OneMore(g[n - 1])
  <2> TAKE n \in 1 .. NInodes
  <2>1. n \in Nat /\ n - 1 \in 0 .. NInodes
    BY <1>0
  <2>2. g[n - 1] \in SUBSET Inodes
    BY <2>1
  <2>3. h[n][g[n - 1]] = OneMore(g[n - 1])
    BY <2>1, <2>2
  <2> QED BY <1>3, <2>3
<1>5. g = D(g)
  <2>1. \A n \in 0 .. NInodes : g[n] = D(g)[n]
    <3> HIDE DEF h
    <3>1. \A n \in 0 .. NInodes : n = 0 \/ n \in 1 .. NInodes
      BY <1>0
    <3> QED BY <1>3, <1>4, <3>1
  <2>2. g = [n \in 0 .. NInodes |-> g[n]] /\ D(g) = [n \in 0 .. NInodes |-> D(g)[n]]
    OBVIOUS
  <2> HIDE DEF h, D
  <2> QED BY <2>1, <2>2
<1>6. PICK k : k = CHOOSE fn : fn = D(fn)
  OBVIOUS
<1>7. k = D(k)
  <2> HIDE DEF h, D
  <2> QED BY <1>5, <1>6
<1>8. Reachable = k[NInodes]
  BY <1>6 DEF Reachable, OneMore
<1>9. k[0] = {0} /\ \A n \in 1 .. NInodes : k[n] = OneMore(k[n - 1])
  <2>1. \A n \in 0 .. NInodes : D(k)[n] = IF n = 0 THEN {0} ELSE OneMore(k[n - 1])
    OBVIOUS
  <2>2. k[0] = D(k)[0] /\ \A n \in 1 .. NInodes : k[n] = D(k)[n]
    <3> HIDE DEF D
    <3> QED BY <1>7
  <2>3. 0 \in 0 .. NInodes /\ \A n \in 1 .. NInodes : n \in 0 .. NInodes /\ n # 0
    BY <1>0
  <2> HIDE DEF D
  <2> QED BY <2>1, <2>2, <2>3
<1>10. k \in [0 .. NInodes -> SUBSET Inodes]
  <2> DEFINE S == {n \in Nat : n <= NInodes => k[n] \in SUBSET Inodes}
  <2>1. 0 \in S
    BY <1>0, <1>9
  <2>2. ASSUME NEW n \in Nat, n \in S PROVE n + 1 \in S
    <3> SUFFICES ASSUME n + 1 <= NInodes PROVE k[n + 1] \in SUBSET Inodes
      OBVIOUS
    <3>1. k[n] \in SUBSET Inodes /\ n + 1 \in 1 .. NInodes /\ (n + 1) - 1 = n
      BY <2>2, <1>0
    <3>2. k[n + 1] = OneMore(k[n])
      BY <1>9, <3>1
    <3> QED BY <3>1, <3>2, <1>1
  <2>3. Nat \subseteq S
    <3> HIDE DEF S
    <3> QED BY <2>1, <2>2, Induction
  <2>4. k = [n \in 0 .. NInodes |-> k[n]]
    <3>1. D(k) = [n \in 0 .. NInodes |-> D(k)[n]]
      OBVIOUS
    <3> HIDE DEF D
    <3> QED BY <1>7, <3>1
  <2>5. \A n \in 0 .. NInodes : k[n] \in SUBSET Inodes
    <3>1. \A n \in 0 .. NInodes : n \in Nat /\ n <= NInodes
      BY <1>0
    <3> QED BY <2>3, <3>1
  <2> HIDE DEF S
  <2>6. [n \in 0 .. NInodes |-> k[n]] \in [0 .. NInodes -> SUBSET Inodes]
    BY <2>5
  <2> QED BY <2>4, <2>6
<1> QED BY <1>8, <1>9, <1>10 DEF ReachSteps

(* A node of rank n is reached by a path of at most n components.          *)
LEMMA AllReachable ==
  ASSUME TypeOK, DiskInv, NEW r \in [Inodes -> Inodes], Ranked(r)
  PROVE  Linked \subseteq Reachable
<1>0. NInodes \in Nat /\ Inodes = 0 .. NInodes - 1 /\ 0 \in Inodes
  BY SizeAssumption, Constants DEF Inodes
<1>1. PICK g : ReachSteps(g) /\ Reachable = g[NInodes]
  BY ReachableIs
<1>2. g[0] = {0} /\ \A n \in 1 .. NInodes : g[n] = OneMore(g[n - 1])
  BY <1>1 DEF ReachSteps
<1>3. ASSUME NEW i \in Inodes, IsLive(i), i # 0
      PROVE  \E d \in Inodes : IsLive(d) /\ IsDir(d) /\ r[d] < r[i] /\ i \in Entries(d)
  <2>1. PICK b \in Blocks, s \in Slots : Link(b, s) /\ blk[b].ents[s].ino = i
    BY <1>3 DEF IsLive
  <2>2. PICK d \in Inodes : IsLive(d) /\ IsDir(d) /\ itab[d].direct = b
    BY <2>1 DEF DiskInv, LinkInv
  <2>3. Above(d, i)
    BY <2>1, <2>2 DEF Above
  <2>4. r[d] < r[i]
    BY <2>3 DEF Ranked
  <2>5. <<b, s>> \in Links /\ <<b, s>>[1] = b /\ LinkIno(<<b, s>>) = i
    BY <2>1 DEF Links, LinksIn, Link, LinkIno
  <2>6. i \in Entries(d)
    BY <2>2, <2>5 DEF Entries
  <2> QED BY <2>2, <2>4, <2>6
<1> DEFINE P(n) == \A i \in Inodes : IsLive(i) /\ r[i] <= n => i \in g[n]
           S == {n \in Nat : n <= NInodes => P(n)}
<1>4. 0 \in S
  <2> SUFFICES ASSUME NEW i \in Inodes, IsLive(i), r[i] <= 0 PROVE i \in g[0]
    OBVIOUS
  <2>1. i = 0
    <3> SUFFICES ASSUME i # 0 PROVE FALSE
      OBVIOUS
    <3>1. PICK d \in Inodes : r[d] < r[i]
      BY <1>3
    <3>2. r[d] \in Nat /\ r[i] \in Nat
      BY <1>0
    <3> QED BY <3>1, <3>2
  <2> QED BY <1>2, <2>1
<1>5. ASSUME NEW n \in Nat, n \in S PROVE n + 1 \in S
  <2> SUFFICES ASSUME n + 1 <= NInodes, NEW i \in Inodes, IsLive(i), r[i] <= n + 1 PROVE i \in g[n + 1]
    OBVIOUS
  <2>1. P(n) /\ n + 1 \in 1 .. NInodes /\ (n + 1) - 1 = n
    BY <1>0, <1>5
  <2>2. g[n + 1] = OneMore(g[n])
    BY <1>2, <2>1
  <2>3. CASE i = 0
    <3>1. r[0] \in Nat /\ (r[0] <= n \/ r[0] = n + 1)
      BY <1>0, <2>3
    <3>2. 0 \in g[n]
      <4> DEFINE Q == {m \in Nat : m <= NInodes => 0 \in g[m]}
      <4>1. 0 \in Q
        BY <1>2
      <4>2. ASSUME NEW m \in Nat, m \in Q PROVE m + 1 \in Q
        <5> SUFFICES ASSUME m + 1 <= NInodes PROVE 0 \in g[m + 1]
          OBVIOUS
        <5>1. 0 \in g[m] /\ m + 1 \in 1 .. NInodes /\ (m + 1) - 1 = m
          BY <1>0, <4>2
        <5>2. g[m + 1] = OneMore(g[m])
          BY <1>2, <5>1
        <5> QED BY <5>1, <5>2 DEF OneMore
      <4>3. Nat \subseteq Q
        <5> HIDE DEF Q
        <5> QED BY <4>1, <4>2, Induction
      <4>4. n \in Q /\ n <= NInodes
        BY <1>0, <2>1, <4>3
      <4> QED BY <4>4
    <3> QED BY <2>2, <2>3, <3>2 DEF OneMore
  <2>4. CASE i # 0
    <3>1. PICK d \in Inodes : IsLive(d) /\ IsDir(d) /\ r[d] < r[i] /\ i \in Entries(d)
      BY <1>3, <2>4
    <3>2. r[d] \in Nat /\ r[i] \in Nat /\ r[d] <= n
      BY <1>0, <3>1
    <3>3. d \in g[n]
      BY <2>1, <3>1, <3>2
    <3> QED BY <2>2, <3>1, <3>3 DEF OneMore
  <2> QED BY <2>3, <2>4
<1>6. Nat \subseteq S
  <2> HIDE DEF S
  <2> QED BY <1>4, <1>5, Induction
<1>7. P(NInodes)
  BY <1>0, <1>6
<1> SUFFICES ASSUME NEW l \in Links PROVE LinkIno(l) \in Reachable
  BY DEF Linked
<1>8. LinkIno(l) \in Inodes /\ IsLive(LinkIno(l))
  BY LinkIs
<1>9. r[LinkIno(l)] <= NInodes
  BY <1>0, <1>8
<1> QED BY <1>1, <1>7, <1>8, <1>9

(* Every file and directory that has a name can be reached from the root,  *)
(* whatever the names: no sequence of calls whose callers keep to          *)
(* RmdirAllowed and RenameAllowed, and no power failure that does not cut  *)
(* a rename in two, makes a cycle or cuts off a part of the tree.          *)
THEOREM NothingCutOff == Spec => [](torn \/ Linked \subseteq Reachable)
<1>1. IndInv /\ TreeInv => torn \/ Linked \subseteq Reachable
  BY AllReachable DEF IndInv, TreeInv
<1> QED BY <1>1, Inductive, TreeKept, PTL

(* The names form a tree, for callers that keep to RmdirAllowed and        *)
(* RenameAllowed, which vfs.c does not enforce: that, and no directory     *)
(* holds the same name twice if every name fits in the 28 bytes of an      *)
(* entry.                                                                  *)
THEOREM TreeStays == ASSUME NamesFit PROVE Spec => []NamesFormTree
<1>1. (torn \/ Linked \subseteq Reachable) /\ (torn \/ OutcomeInv) => NamesFormTree
  <2> SUFFICES ASSUME ~torn, Linked \subseteq Reachable, OutcomeInv PROVE NamesFormTree
    BY DEF NamesFormTree
  <2>1. ASSUME NEW k \in Links, NEW l \in Links, k[1] = l[1],
               blk[k[1]].ents[k[2]].name = blk[l[1]].ents[l[2]].name
        PROVE  k = l
    <3>1. PICK b \in Blocks, s \in Slots : k = <<b, s>> /\ Link(b, s)
      BY DEF Links, LinksIn, Link
    <3>2. PICK c \in Blocks, t \in Slots : l = <<c, t>> /\ Link(c, t)
      BY DEF Links, LinksIn, Link
    <3>3. b = c /\ blk[b].ents[s].name = blk[b].ents[t].name
      BY <2>1, <3>1, <3>2
    <3>4. s = t
      BY <3>1, <3>3 DEF OutcomeInv, UniqueNames
    <3> QED BY <3>1, <3>2, <3>3, <3>4
  <2> QED BY <2>1 DEF NamesFormTree
<1> QED BY <1>1, NothingCutOff, OutcomesSound, PTL

=============================================================================
