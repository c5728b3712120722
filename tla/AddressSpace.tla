----------------------------- MODULE AddressSpace -----------------------------
(***************************************************************************)
(* User memory: the page allocator, page tables, copy-on-write and demand  *)
(* paging of kernel/memory.c, page_fault_handler of kernel/idt.c, the      *)
(* program loader of kernel/elf.c, and exec, fork and sbrk.                *)
(*                                                                         *)
(* All user memory lies in one 2 MB entry of the boot page directory,      *)
(* which maps it one to one.  The first page that the loader maps splits   *)
(* that entry into a page table that still maps everything one to one;     *)
(* the loader then replaces the entries of the file's pages and removes    *)
(* those of the stack region.  A physical page is a page of the allocator  *)
(* or, in such an entry that was left alone, the page behind its own       *)
(* address, which every program shares and no reference count knows of.    *)
(*                                                                         *)
(* The processor keeps translations until invlpg or a load of CR3, and in  *)
(* the kernel it writes to read-only pages too (CR0.WP is not set).        *)
(***************************************************************************)
EXTENDS Integers, FiniteSets

CONSTANTS NPages,     \* pages of the allocator
          TablePages, \* pages that paging_create takes
          FilePages, BssPages,  \* of every program
          StackPage,  \* below 0x500000: where the stack of a program is
          RegionPage, \* from 0x500000 on: demand paged
          HeapPages,  \* from 0x510000 on: for sbrk; numbers in a row
          MaxRegions, \* MAX_VM_REGIONS
          MaxTasks    \* address spaces that fork makes, with the first

(* The parts of the address space are disjoint, and the first program fits.*)
ASSUME SpaceAssumption ==
  /\ NPages \in Nat /\ TablePages \in Nat /\ MaxRegions \in Nat
  /\ MaxTasks \in Nat \ {0} /\ FilePages # {}
  /\ \A S \in {FilePages, BssPages, HeapPages} : IsFiniteSet(S) /\ S \subseteq Nat
  /\ StackPage \in Nat /\ RegionPage \in Nat \ {StackPage}
  /\ RegionPage \notin FilePages \cup BssPages \cup HeapPages
  /\ FilePages \cap (BssPages \cup HeapPages) = {}
  /\ TablePages + Cardinality(FilePages) + 1 <= NPages

Virt     == FilePages \cup BssPages \cup {StackPage, RegionPage} \cup HeapPages
Tasks    == 0 .. MaxTasks - 1
Frames   == 1..NPages                  \* the pages of the allocator
Own(v)   == NPages + 1 + v             \* the page behind the address v itself
Phys     == Frames \cup {Own(v) : v \in Virt}
Entries  == [phys : Phys \cup {0}, rw : BOOLEAN, cow : BOOLEAN]
Absent   == [phys |-> 0, rw |-> FALSE, cow |-> FALSE]
Page(p)  == [phys |-> p, rw |-> TRUE, cow |-> FALSE]
Present(e) == e.phys # 0
Values   == {"zero", "file", "new"}    \* what a page holds

VARIABLES bump,     \* page_alloc_cur, as the number of pages given out
          ref,      \* page_refcounts
          pt,       \* the page table of each task
          regions,  \* vm_regions: the pages in them
          brk,      \* heap_break, in half pages above 0x510000
          live, cur,
          tlb,      \* translations that the processor keeps and pt no longer has
          mem,      \* what a physical page holds
          cpu,      \* "ok", "halt" after a fault, or "spin": the same fault again
          img,      \* history: what each task has written or was started with
          bypass,   \* history: a write went past the write protection
          lost      \* history: tasks whose regions were forgotten

kernel == <<bump, ref, pt, regions, brk>>
hist   == <<img, bypass, lost>>
vars   == <<kernel, live, cur, tlb, mem, cpu, hist>>

(* The types of the page tables, the reference counts and the regions; exec   *)
(* never leaves more regions than the task's table holds (elf.c).            *)
TypeOK ==
  /\ bump \in 0..NPages /\ ref \in [Frames -> Nat]
  /\ pt \in [Tasks -> [Virt -> Entries]]
  /\ regions \in [Tasks -> SUBSET Virt] /\ \A t \in Tasks : Cardinality(regions[t]) <= MaxRegions
  /\ brk \in 0 .. 2 * Cardinality(HeapPages) /\ live \subseteq Tasks /\ cur \in live
  /\ tlb \in [Virt -> Entries]
  /\ cpu \in {"ok", "halt", "spin"} /\ bypass \in BOOLEAN /\ lost \subseteq Tasks
  /\ mem \in [Phys -> Values] /\ img \in [Tasks -> [Virt -> Values]]

NoTlb == [v \in Virt |-> Absent]

(* page_ref_inc and page_ref_dec leave a page alone that is not the        *)
(* allocator's; page_ref_get says 0 for it.                                *)
RefGet(p) == IF p \in Frames THEN ref[p] ELSE 0

-----------------------------------------------------------------------------
(* elf_load_into_address_space.  The file's pages come from the allocator; *)
(* one page becomes the page table.  A page of bss is only noted as a      *)
(* region, its entry stays; the table of regions may be full.              *)
LoadPages == Cardinality(FilePages) + 1
Nth(S, v) == Cardinality({u \in S : u <= v})
Loaded(base) ==
  [v \in Virt |-> CASE v \in FilePages -> Page(base + Nth(FilePages, v))
                    [] v = RegionPage  -> Absent
                    [] OTHER           -> Page(Own(v))]
LoadedRegions ==
  LET bss == {v \in BssPages : Nth(BssPages, v) <= MaxRegions}
  IN  bss \cup (IF Cardinality(bss) < MaxRegions THEN {RegionPage} ELSE {})
(* What the program may rely on: its file, zeros, and any old stack.       *)
Fresh == [v \in Virt |-> CASE v \in FilePages -> "file"
                           [] v \in BssPages \cup {RegionPage} -> "zero"
                           [] OTHER -> mem[Own(v)]]
LoadedMem(base) == [p \in Phys |-> IF p \in {base + Nth(FilePages, v) : v \in FilePages}
                                   THEN "file" ELSE mem[p]]

(* The boot: load_userspace for the first task; RAM is zero.               *)
Init ==
  /\ bump = TablePages + LoadPages /\ ref = [p \in Frames |-> 0] /\ brk = 0
  /\ pt = [t \in Tasks |-> IF t = 0 THEN Loaded(TablePages) ELSE NoTlb]
  /\ regions = [t \in Tasks |-> IF t = 0 THEN LoadedRegions ELSE {}]
  /\ live = {0} /\ cur = 0 /\ tlb = NoTlb /\ cpu = "ok" /\ bypass = FALSE
  /\ mem = [p \in Phys |-> IF p \in {TablePages + Nth(FilePages, v) : v \in FilePages}
                           THEN "file" ELSE "zero"]
  /\ img = [t \in Tasks |-> [v \in Virt |-> IF v \in FilePages THEN "file" ELSE "zero"]]
  /\ lost = IF RegionPage \in LoadedRegions THEN {} ELSE {0}

(* SYS_EXEC, also to go back to the shell.  Nothing is ever given back, so *)
(* a call that runs out of pages leaves none; it has then forgotten the    *)
(* regions of the caller, who goes on.                                     *)
Exec ==
  /\ cpu = "ok"
  /\ LET base == bump + TablePages IN
       IF base > NPages THEN bump' = NPages /\ UNCHANGED <<ref, pt, regions, tlb, mem, hist>>
       ELSE IF base + LoadPages > NPages
       THEN /\ bump' = NPages /\ regions' = [regions EXCEPT ![cur] = {}]
            /\ lost' = lost \cup {cur} /\ UNCHANGED <<ref, pt, tlb, mem, img, bypass>>
       ELSE /\ bump' = base + LoadPages /\ pt' = [pt EXCEPT ![cur] = Loaded(base)]
            /\ regions' = [regions EXCEPT ![cur] = LoadedRegions]
            /\ mem' = LoadedMem(base) /\ img' = [img EXCEPT ![cur] = Fresh] /\ tlb' = NoTlb
            /\ lost' = IF RegionPage \in LoadedRegions THEN lost \ {cur} ELSE lost \cup {cur}
            /\ UNCHANGED <<ref, bypass>>
  /\ UNCHANGED <<brk, live, cur, cpu>>
(* No such file, or no program: only the new tables are lost.              *)
ExecBad ==
  /\ cpu = "ok" /\ bump < NPages
  /\ bump' = IF bump + TablePages > NPages THEN NPages ELSE bump + TablePages
  /\ UNCHANGED <<ref, pt, regions, brk, live, cur, tlb, mem, cpu, hist>>

(* sys_fork: paging_create and paging_cow_clone_user, which marks what is  *)
(* present in both tables and does not tell the processor, which may have  *)
(* kept any translation of the parent.                                     *)
Cow(e) == IF Present(e) THEN [e EXCEPT !.rw = FALSE, !.cow = TRUE] ELSE e
(* a mutant: one reference for the two entries.                            *)
RefsOfOne(t) == [p \in Frames |-> ref[p] + Cardinality({v \in Virt : pt[t][v].phys = p})]
RefsOfTwo(t) == [p \in Frames |-> ref[p] + 2 * Cardinality({v \in Virt : pt[t][v].phys = p})]
Fork ==
  /\ cpu = "ok"
  /\ \E c \in Tasks \ live :
       IF bump + TablePages + 1 > NPages
       THEN bump' = NPages /\ UNCHANGED <<ref, pt, regions, live, tlb, hist>>
       ELSE /\ bump' = bump + TablePages + 1 /\ live' = live \cup {c}
            /\ pt' = [pt EXCEPT ![cur] = [v \in Virt |-> Cow(pt[cur][v])],
                                ![c] = [v \in Virt |-> IF Present(pt[cur][v])
                                          THEN [phys |-> pt[cur][v].phys, rw |-> FALSE, cow |-> TRUE]
                                          ELSE Absent]]
            /\ ref' = RefsOfTwo(cur)
            /\ regions' = [regions EXCEPT ![c] = regions[cur]]
            /\ img' = [img EXCEPT ![c] = img[cur]]
            /\ lost' = IF cur \in lost THEN lost \cup {c} ELSE lost
            /\ UNCHANGED bypass
            /\ \E kept \in SUBSET {v \in Virt : pt[cur][v].rw} :
                 tlb' = [v \in Virt |-> IF v \in kept THEN pt[cur][v] ELSE tlb[v]]
  /\ UNCHANGED <<brk, cur, mem, cpu>>

(* SYS_SBRK, by n half pages.  One break serves all programs, and exec     *)
(* does not reset it.                                                      *)
Up(n)     == (n + 1) \div 2
HeapPage(i) == CHOOSE v \in HeapPages : Nth(HeapPages, v) = i
Sbrk(n) ==
  /\ cpu = "ok" /\ n # 0
  /\ LET new == IF brk + n < 0 THEN 0 ELSE brk + n
         first == Up(brk) + 1
         last == Up(new)   \* the pages that become part of the heap
         done == {i \in first..last : i <= Cardinality(HeapPages) /\ bump + (i - first) < NPages}
     IN /\ bump' = bump + Cardinality(done)
        /\ pt' = [pt EXCEPT ![cur] = [v \in Virt |->
                    IF v \in HeapPages /\ Nth(HeapPages, v) \in done
                    THEN Page(bump + 1 + (Nth(HeapPages, v) - first)) ELSE @[v]]]
        /\ tlb' = [v \in Virt |-> IF v \in HeapPages /\ Nth(HeapPages, v) \in done THEN Absent ELSE tlb[v]]
        /\ mem' = [p \in Phys |-> IF p \in bump + 1 .. bump + Cardinality(done) THEN "zero" ELSE mem[p]]
        /\ img' = [img EXCEPT ![cur] = [v \in Virt |->
                    IF v \in HeapPages /\ Nth(HeapPages, v) \in done THEN "zero" ELSE @[v]]]
        /\ brk' = IF n < 0 \/ done = first..last THEN new ELSE brk
  /\ UNCHANGED <<ref, regions, live, cur, cpu, bypass, lost>>

-----------------------------------------------------------------------------
(* An access by the running task.  A kept translation is used as it is.    *)
Entry(v)    == IF Present(tlb[v]) THEN tlb[v] ELSE pt[cur][v]
Store(v, e) ==
  /\ mem' = [mem EXCEPT ![e.phys] = "new"] /\ img' = [img EXCEPT ![cur][v] = "new"]
  /\ bypass' = (bypass \/ pt[cur][v].cow)
Write(v) ==
  /\ cpu = "ok" /\ Present(Entry(v)) /\ Entry(v).rw
  /\ Store(v, Entry(v))
  /\ UNCHANGED <<kernel, live, cur, tlb, cpu, lost>>
(* A system call stores a result in the task's memory.                     *)
KernelWrite(v) ==
  /\ cpu = "ok" /\ Present(Entry(v)) /\ ~Entry(v).rw /\ Store(v, Entry(v))
  /\ UNCHANGED <<kernel, live, cur, tlb, cpu, lost>>

(* page_fault_handler, for a write to what is not writable, or any access  *)
(* to what is absent: paging_handle_cow_fault first.                       *)
MustCopy(p) == RefGet(p) > 1
Resolved(v, p) == pt' = [pt EXCEPT ![cur][v] = Page(p)] /\ tlb' = [tlb EXCEPT ![v] = Absent]
DecRef(p) == ref' = IF p \in Frames /\ ref[p] > 0 THEN [ref EXCEPT ![p] = @ - 1] ELSE ref
(* a mutant: the new page is not filled.                                   *)
CowCopyBlank(v) ==
  LET p == pt[cur][v].phys IN
    /\ pt[cur][v].cow /\ MustCopy(p) /\ bump < NPages /\ bump' = bump + 1
    /\ Resolved(v, bump + 1) /\ DecRef(p) /\ UNCHANGED <<mem, cpu>>
CowCopy(v) ==
  LET p == pt[cur][v].phys IN
    /\ pt[cur][v].cow /\ MustCopy(p) /\ bump < NPages /\ bump' = bump + 1
    /\ mem' = [mem EXCEPT ![bump + 1] = mem[p]]
    /\ Resolved(v, bump + 1) /\ DecRef(p) /\ UNCHANGED cpu
CowKeep(v) ==
  LET p == pt[cur][v].phys IN
    /\ pt[cur][v].cow /\ ~MustCopy(p) /\ Resolved(v, p) /\ DecRef(p)
    /\ UNCHANGED <<bump, mem, cpu>>
(* paging_handle_demand_fault, when that has failed.  A present page of a  *)
(* region counts as resolved, and the access faults again.                 *)
CowIgnored(v) == TRUE                  \* a mutant: it is asked in any case
NotCow(v) == pt[cur][v].cow => MustCopy(pt[cur][v].phys) /\ bump = NPages
Demand(v) ==
  /\ NotCow(v) /\ v \in regions[cur] /\ ~Present(pt[cur][v]) /\ bump < NPages
  /\ bump' = bump + 1 /\ mem' = [mem EXCEPT ![bump + 1] = "zero"]
  /\ Resolved(v, bump + 1) /\ UNCHANGED <<ref, cpu>>
Unresolved(v) ==
  /\ NotCow(v) /\ ~(v \in regions[cur] /\ ~Present(pt[cur][v]) /\ bump < NPages)
  /\ cpu' = IF v \in regions[cur] /\ Present(pt[cur][v]) THEN "spin" ELSE "halt"
  /\ UNCHANGED <<bump, ref, pt, tlb, mem>>
Fault(v) ==
  /\ cpu = "ok" /\ ~(Present(Entry(v)) /\ Entry(v).rw)
  /\ CowCopy(v) \/ CowKeep(v) \/ Demand(v) \/ Unresolved(v)
  /\ UNCHANGED <<regions, brk, live, cur, hist>>

(* A task switch loads CR3; the processor may also drop a translation.     *)
Switch(t) == /\ cpu = "ok" /\ t \in live \ {cur} /\ cur' = t /\ tlb' = NoTlb
             /\ UNCHANGED <<kernel, live, mem, cpu, hist>>
Evict(v)  == /\ cpu = "ok" /\ Present(tlb[v]) /\ tlb' = [tlb EXCEPT ![v] = Absent]
             /\ UNCHANGED <<kernel, live, cur, mem, cpu, hist>>

Next == \/ Exec \/ ExecBad \/ Fork \/ \E n \in {-2, -1, 1, 3} : Sbrk(n)
        \/ \E v \in Virt : Write(v) \/ KernelWrite(v) \/ Fault(v) \/ Evict(v)
        \/ \E t \in Tasks : Switch(t)
Spec == Init /\ [][Next]_vars

(* For TLC: once a write has gone past the protection, no property looks   *)
(* at what the pages hold, beyond its type, and no step ever does.         *)
UntilBypassed == <<kernel, live, cur, tlb, cpu, lost,
                   IF bypass THEN <<>> ELSE <<mem, img>> >>

-----------------------------------------------------------------------------
(* Entries t, v of the live tasks that map page p copy-on-write.           *)
CowMaps(p) == {m \in live \X Virt : pt[m[1]][m[2]].phys = p /\ pt[m[1]][m[2]].cow}

(* The references of a page cover the entries that share it: the handler   *)
(* of a write never takes a page for its own that another still reads.     *)
RefsCover == \A p \in Frames : Cardinality(CowMaps(p)) <= ref[p]

(* A page of the allocator that two entries map is writable in neither.    *)
SharedIsReadOnly ==
  \A t, u \in live, v, w \in Virt :
    /\ pt[t][v].phys \in Frames /\ pt[u][w].phys = pt[t][v].phys
    /\ <<t, v>> # <<u, w>>
    => ~pt[t][v].rw

(* An entry is writable or copy-on-write, maps what was given out, and is  *)
(* absent only where the loader left the page to demand paging.            *)
EntriesSound ==
  \A t \in live, v \in Virt :
    /\ pt[t][v].phys \in Frames => pt[t][v].phys <= bump
    /\ Present(pt[t][v]) => pt[t][v].cow = ~pt[t][v].rw
    /\ ~Present(pt[t][v]) => v = RegionPage /\ ~pt[t][v].cow /\ (bypass \/ img[t][v] = "zero")

(* A translation that the processor keeps is of the page the table maps.   *)
TlbSound == \A v \in Virt : Present(tlb[v]) => tlb[v].rw /\ tlb[v].phys = pt[cur][v].phys

(* The demand paged region is known, or forgotten and recorded as such.    *)
RegionsKept == \A t \in live : RegionPage \in regions[t] \/ t \in lost

(* The state is well-typed, and the sharing of pages is sound: the         *)
(* inductive invariant of memory.c.                                        *)
SharingInv == /\ TypeOK /\ RefsCover /\ SharedIsReadOnly
              /\ EntriesSound /\ TlbSound /\ RegionsKept

(* In the pages that come from the allocator every task finds what it      *)
(* wrote or was started with, whatever the others do, as long as no write  *)
(* has gone past the write protection.                                     *)
PrivateUnlessBypassed ==
  ~bypass => \A t \in live, v \in Virt :
    pt[t][v].phys \in Frames => mem[pt[t][v].phys] = img[t][v]

(* A page fault of a program in its own memory stops the machine only when *)
(* the allocator is empty or the regions of the task were lost.            *)
FaultsResolved == cpu # "ok" => bump = NPages \/ cur \in lost

(* A program finds zeros in its bss, which the loader leaves to demand     *)
(* paging (memory.h:59, elf.c:70), until it writes to it.                  *)
BssStartsZero ==
  \A t \in live, v \in BssPages :
    Present(pt[t][v]) /\ img[t][v] = "zero" => mem[pt[t][v].phys] = "zero"
=============================================================================
