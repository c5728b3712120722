------------------------------ MODULE TinyFSInd ------------------------------
(***************************************************************************)
(* The inductive invariant of TinyFS: what the safety invariants leave     *)
(* unsaid, which is what each step of a running call knows about the       *)
(* inode and the block it has allocated, is freeing or is about to link.   *)
(* The sets of TinyFS are spelled out as predicates on entries and inodes. *)
(***************************************************************************)
EXTENDS TinyFS

Link(b, s) == blk[b].ents[s].name \in Names
IsLive(i)  == i = 0 \/ \E b \in Blocks, s \in Slots :
                         Link(b, s) /\ blk[b].ents[s].ino = i
Owns(i, b) == \/ b # 0 /\ itab[i].direct = b
              \/ \E k \in DOMAIN itab[i].indirect : itab[i].indirect[k] = b

Renaming == pc = "rment" /\ call.op = "rename"

(* The root and the metadata.                                              *)
RootInv == /\ 0 \in ibm /\ 0 \in bbm
           /\ IsDir(0) /\ Ents(0)[2].ino = 0

UsedInv == \A i \in Inodes : IsLive(i) =>
             /\ i \in ibm /\ itab[i].type # "none"
             /\ \A b \in Blocks : Owns(i, b) => b \in bbm

LinkInv == \A b \in Blocks, s \in Slots : Link(b, s) =>
             /\ blk[b].ents[s].ino # 0
             /\ \E d \in Inodes : IsLive(d) /\ IsDir(d) /\ itab[d].direct = b

SingleInv == \A b, c \in Blocks, s, t \in Slots :
               Link(b, s) /\ Link(c, t)
                 /\ blk[b].ents[s].ino = blk[c].ents[t].ino
               => \/ b = c /\ s = t
                  \/ Renaming /\ call.tgt = blk[b].ents[s].ino

DisjointInv == \A i, j \in Inodes, b \in Blocks :
                 IsLive(i) /\ IsLive(j) /\ Owns(i, b) /\ Owns(j, b) => i = j

DotsInv == \A d \in Inodes : IsLive(d) /\ IsDir(d) =>
             /\ itab[d].direct # 0
             /\ blk[itab[d].direct].data = NoChunk
             /\ Ents(d)[1] = [ino |-> d, name |-> Dot]
             /\ Ents(d)[2].name = DotDot

ParentInv == \A b \in Blocks, s \in Slots :
               Link(b, s) /\ IsDir(blk[b].ents[s].ino) =>
                 LET p == Ents(blk[b].ents[s].ino)[2].ino
                 IN  IsLive(p) /\ IsDir(p) /\ itab[p].direct = b

CwdInv == IsLive(cwd) /\ IsDir(cwd)

DiskInv == /\ RootInv /\ UsedInv /\ LinkInv /\ SingleInv
           /\ DisjointInv /\ DotsInv /\ ParentInv /\ CwdInv

-----------------------------------------------------------------------------
(* What the running call knows.                                            *)

Making == /\ pc \in {"clear", "balloc", "winode", "wdir", "addent", "undoblk",
                     "undoino"}
          /\ call.op # "rename"
Filling == pc \in {"wdata", "wfinal"}

OpInv == /\ pc \in {"balloc", "wdir", "undoblk"} => call.op = "mkdir"
         /\ pc \in {"create", "clear", "winode", "undoino"} =>
              call.op \in {"mkdir", "create", "copy", "write"}
         /\ pc \in {"fill", "wdata", "wfinal"} => call.op \in {"copy", "write"}
         /\ pc = "rment" => call.op \in {"rmdir", "delete", "rename", "write"}
         /\ pc \in {"bfree", "ifree"} => call.op \in {"rmdir", "delete", "write"}
         /\ pc = "addent" =>
              call.op \in {"mkdir", "create", "copy", "write", "rename"}

(* The directories the call works in still have a name.                    *)
InPath == \/ pc \in {"create", "addent", "rment", "fill"}
          \/ Making
          \/ pc \in {"bfree", "ifree"} /\ call.op = "write"

PathInv == /\ InPath => IsLive(call.par)
           /\ pc = "addent" /\ call.op = "rename" => IsLive(call.par2)
           /\ Making \/ pc = "fill" => IsDir(call.par) /\ call.comp \in Names

(* The inode being made is marked, has no name, and the name is not taken. *)
MakeInv ==
  /\ Making =>
       /\ call.inum \in ibm /\ ~IsLive(call.inum)
       /\ pc # "undoblk" /\ pc # "undoino" =>
            \A s \in Slots : Ents(call.par)[s].name # call.comp
  /\ pc = "addent" /\ call.op \in {"create", "copy", "write"} =>
       itab[call.inum] = [ZeroInode EXCEPT !.type = "file"]
  /\ pc \in {"wdir", "addent", "undoblk"} /\ call.op = "mkdir" =>
       itab[call.inum] = [ZeroInode EXCEPT !.type = "dir", !.direct = call.bnum]
  /\ pc = "addent" /\ call.op = "mkdir" =>
       blk[call.bnum] = NewDirBlock(call.inum, call.par)

(* The block being filled is marked and belongs to no one yet.             *)
HasBlock == \/ Filling
            \/ /\ pc \in {"winode", "wdir", "addent", "undoblk"}
               /\ call.op = "mkdir"

BlockInv == HasBlock =>
              /\ call.bnum # 0 /\ call.bnum \in bbm
              /\ \A i \in Inodes : IsLive(i) => ~Owns(i, call.bnum)

FillInv ==
  /\ pc = "fill" =>
       /\ IsLive(call.inum) /\ IsFile(call.inum)
       /\ \A s \in Slots : Ents(call.par)[s].name = call.comp =>
            Ents(call.par)[s].ino = call.inum
  /\ Filling => IsLive(call.inum) /\ IsFile(call.inum)

(* The name about to be removed is the name of the target.                 *)
RemoveInv ==
  /\ pc = "rment" /\ call.op # "rename" =>
       /\ \A s \in Slots : Matches(call.par, call.comp, s) =>
            call.comp \in Names /\ Ents(call.par)[s].ino = call.tgt
       /\ call.op = "rmdir" =>
            IsDir(call.tgt) /\ EmptyDir(call.tgt) /\ cwd # call.tgt
       /\ call.op # "rmdir" => IsFile(call.tgt)
  /\ pc \in {"bfree", "ifree"} => ~IsLive(call.tgt)
  /\ pc = "bfree" =>
       /\ itab[call.tgt].direct # 0
       /\ \A i \in Inodes : IsLive(i) => ~Owns(i, itab[call.tgt].direct)

(* The node being renamed has its old name, and after the first half of    *)
(* the rename exactly one more.                                            *)
RenameInv ==
  pc \in {"addent", "rment"} /\ call.op = "rename" =>
    /\ call.comp \in Names
    /\ \E s \in Slots : /\ Matches(call.par, call.comp, s)
                        /\ Ents(call.par)[s].ino = call.tgt
    /\ pc = "addent" =>
         /\ ~Found(call.par2, call.comp2)
         /\ IsDir(call.tgt) => call.par2 = call.par
    /\ pc = "rment" =>
         \E b, c \in Blocks, s, t \in Slots :
           /\ Link(b, s) /\ Link(c, t) /\ (b # c \/ s # t)
           /\ blk[b].ents[s].ino = call.tgt /\ blk[c].ents[t].ino = call.tgt
           /\ \A e \in Blocks, u \in Slots :
                Link(e, u) /\ blk[e].ents[u].ino = call.tgt =>
                  (e = b /\ u = s) \/ (e = c /\ u = t)

CallInv == /\ OpInv /\ PathInv /\ MakeInv /\ BlockInv /\ FillInv
           /\ RemoveInv /\ RenameInv

(* The inductive invariant: it holds of every step of every call and       *)
(* through every power failure that does not cut a rename in two.          *)
IndInv == TypeOK /\ (torn \/ (DiskInv /\ CallInv))

-----------------------------------------------------------------------------
(* What the other properties of the calls rest on.                         *)

(* The names on the disk are the ones there were when the call began.      *)
SameNames == \A b \in Blocks, s \in Slots :
               /\ Link(b, s) <=> old.blk[b].ents[s].name \in Names
               /\ Link(b, s) => blk[b].ents[s].ino = old.blk[b].ents[s].ino

(* What a call that can still fail has taken, beyond what was in use when  *)
(* it began.                                                               *)
Untouched == \/ pc = "create"
             \/ pc = "rment" /\ call.op # "rename"
             \/ pc = "addent" /\ call.op = "rename"
             \/ pc = "ret" /\ ret = "fail"

CleanInv ==
  call.op \in {"mkdir", "rmdir", "create", "delete", "rename"} =>
    /\ Untouched => ibm = old.ibm /\ bbm = old.bbm /\ SameNames
    /\ Making =>
         /\ call.inum \notin old.ibm /\ ibm = old.ibm \cup {call.inum}
         /\ IF HasBlock
              THEN call.bnum \notin old.bbm /\ bbm = old.bbm \cup {call.bnum}
              ELSE bbm = old.bbm
         /\ SameNames

(* While the power does not fail: what is marked used has a name or is in  *)
(* the hands of the running call, or is one of the blocks of the image's   *)
(* file that no call gives back.                                           *)
Listed(b) == BigFile /\ b \in {3, 4}

HeldInode(i) == \/ Making /\ i = call.inum
                \/ pc \in {"bfree", "ifree"} /\ i = call.tgt
HeldBlock(b) == \/ HasBlock /\ b = call.bnum
                \/ pc = "bfree" /\ b = itab[call.tgt].direct

InodesHeld == \A i \in Inodes : i \in ibm => IsLive(i) \/ HeldInode(i)
BlocksHeld == \A b \in Blocks : b \in bbm =>
                \/ b = 0 \/ Listed(b) \/ HeldBlock(b)
                \/ \E i \in Inodes : IsLive(i) /\ Owns(i, b)
KeptInv    == \A b \in Blocks : Listed(b) =>
                /\ b \in bbm /\ ~HeldBlock(b)
                /\ \A i \in Inodes : itab[i].direct # b
ListedInv  == \A i \in Inodes : \A k \in DOMAIN itab[i].indirect :
                Listed(itab[i].indirect[k])
FreshInv   == pc = "fill" \/ Filling => itab[call.inum].direct = 0

LeakInv == crashes = 0 =>
             /\ ~torn
             /\ InodesHeld /\ BlocksHeld /\ KeptInv /\ ListedInv /\ FreshInv

(* When every name fits in a directory entry, no directory holds a name    *)
(* twice; fs_write_file and fs_copy then know what the name they write     *)
(* leads to, and fs_copy that the block it reads is not handed out.        *)
NamesFit == \A n \in Names : Clip[n] = n

UniqueNames == \A b \in Blocks, s, t \in Slots :
                 Link(b, s) /\ blk[b].ents[s].name = blk[b].ents[t].name => s = t

Absent == IsDir(call.par) /\ ~Found(call.par, call.comp)

AbsentInv == call.op = "write" /\ call.comp \in Names =>
               /\ pc = "create" => \A i \in Inodes :
                    ~(Resolves(call.par, call.comp, i) /\ IsFile(i))
               /\ pc \in {"bfree", "ifree"} \/ Making => Absent
TargetInv == pc = "fill" \/ Filling =>
               /\ call.comp \in Names
               /\ itab[call.inum] = [ZeroInode EXCEPT !.type = "file"]
               /\ Resolves(call.par, call.comp, call.inum)
SourceInv == call.op = "copy" =>
               /\ pc = "create" \/ Making \/ pc = "fill" => call.sblk \in bbm
               /\ Filling => call.sblk # call.bnum /\ call.buf = blk[call.sblk].data
DataInv   == /\ Filling => call.size # 0
             /\ pc = "wfinal" => blk[call.bnum].data = call.buf

OutcomeInv == UniqueNames /\ AbsentInv /\ TargetInv /\ SourceInv /\ DataInv

-----------------------------------------------------------------------------
(* The tree: the nodes can be ranked so that a directory comes before all  *)
(* that is in it.  No two nodes have the same rank, so that the node that  *)
(* gets a new name can be moved behind all the others.                     *)
Above(d, i) == /\ IsLive(d) /\ IsDir(d)
               /\ \E b \in Blocks, s \in Slots :
                    itab[d].direct = b /\ Link(b, s) /\ blk[b].ents[s].ino = i
Ranked(r) == /\ r \in [Inodes -> Inodes]
             /\ \A i, j \in Inodes : r[i] = r[j] => i = j
             /\ \A d, i \in Inodes : Above(d, i) => r[d] < r[i]
TreeInv == torn \/ \E r \in [Inodes -> Inodes] : Ranked(r)

=============================================================================
