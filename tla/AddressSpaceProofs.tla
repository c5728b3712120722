-------------------------- MODULE AddressSpaceProofs --------------------------
(***************************************************************************)
(* For every number of pages, tasks and regions and every layout of a      *)
(* program: the sharing that fork sets up is sound, each task finds its    *)
(* own memory as long as no write goes past the write protection, and a    *)
(* page fault stops the machine only for want of pages or regions.         *)
(***************************************************************************)
EXTENDS AddressSpace, FiniteSetTheorems, TLAPS

-----------------------------------------------------------------------------
(* The operators of the model.                                             *)

LEMMA Layout ==
  /\ IsFiniteSet(Virt) /\ Virt \subseteq Nat /\ RegionPage \in Virt
  /\ FilePages \subseteq Virt /\ BssPages \subseteq Virt /\ HeapPages \subseteq Virt
  /\ IsFiniteSet(Tasks)
  /\ \A v \in Virt : Own(v) \in Phys /\ Own(v) \notin Frames /\ Own(v) # 0
  /\ \A p \in Frames : p \in Phys /\ p # 0 /\ p \in Nat
  /\ Frames \subseteq Phys /\ 0 \notin Frames
<1>1. IsFiniteSet(FilePages) /\ IsFiniteSet(BssPages) /\ IsFiniteSet(HeapPages)
  BY SpaceAssumption
<1>2. IsFiniteSet({StackPage, RegionPage})
  <2>1. {StackPage, RegionPage} = {StackPage} \cup {RegionPage}
    OBVIOUS
  <2>2. IsFiniteSet({StackPage})
    BY FS_Singleton
  <2> QED BY <2>1, <2>2, FS_AddElement
<1>3. IsFiniteSet(Virt)
  <2>1. IsFiniteSet(FilePages \cup BssPages)
    BY <1>1, FS_Union
  <2>2. IsFiniteSet((FilePages \cup BssPages) \cup {StackPage, RegionPage})
    BY <1>2, <2>1, FS_Union
  <2> QED BY <1>1, <2>2, FS_Union DEF Virt
<1>4. Virt \subseteq Nat
  BY SpaceAssumption DEF Virt
<1>5. \A v \in Virt : Own(v) \in Phys /\ Own(v) \notin Frames /\ Own(v) # 0
  BY <1>4, SpaceAssumption DEF Own, Phys, Frames
<1>6. IsFiniteSet(Tasks)
  BY FS_Interval, SpaceAssumption DEF Tasks
<1>7. /\ \A p \in Frames : p \in Phys /\ p # 0 /\ p \in Nat
      /\ Frames \subseteq Phys /\ 0 \notin Frames
  BY SpaceAssumption DEF Frames, Phys
<1> QED BY <1>3, <1>4, <1>5, <1>6, <1>7 DEF Virt

(* Nth numbers the elements of a set, from 1 on.                           *)
LEMMA NthCounts ==
  ASSUME NEW S, IsFiniteSet(S), S \subseteq Nat
  PROVE  /\ Cardinality(S) \in Nat
         /\ \A v \in S : Nth(S, v) \in 1 .. Cardinality(S)
         /\ \A v, w \in S : Nth(S, v) = Nth(S, w) => v = w
<1> DEFINE below(v) == {u \in S : u <= v}
<1>1. \A v \in S : IsFiniteSet(below(v)) /\ Cardinality(below(v)) <= Cardinality(S)
                   /\ Cardinality(below(v)) \in Nat
  <2>1. \A v \in S : below(v) \in SUBSET S
    OBVIOUS
  <2> HIDE DEF below
  <2> QED BY <2>1, FS_Subset, FS_CardinalityType
<1>2. Cardinality(S) \in Nat
  BY FS_CardinalityType
<1>3. \A v \in S : Cardinality(below(v)) # 0
  <2>1. \A v \in S : v \in below(v)
    OBVIOUS
  <2> HIDE DEF below
  <2> QED BY <1>1, <2>1, FS_EmptySet
<1>4. ASSUME NEW v \in S, NEW w \in S, v < w
      PROVE  Cardinality(below(v)) # Cardinality(below(w))
  <2>0. v \in Nat /\ w \in Nat /\ \A u \in S : u \in Nat
    OBVIOUS
  <2>1. \A u \in S : u <= v => u <= w
    BY <1>4, <2>0
  <2>2. w <= w /\ ~(w <= v)
    BY <1>4, <2>0
  <2>3. below(v) \in SUBSET below(w) /\ w \in below(w) /\ w \notin below(v)
    BY <2>1, <2>2
  <2> HIDE DEF below
  <2> QED BY <1>1, <2>3, FS_Subset
<1>5. \A v \in S : Nth(S, v) = Cardinality(below(v))
  BY DEF Nth
<1>6. ASSUME NEW v \in S, NEW w \in S, Nth(S, v) = Nth(S, w) PROVE v = w
  <2> HIDE DEF below
  <2>1. ~(v < w) /\ ~(w < v)
    BY <1>4, <1>5, <1>6
  <2> QED BY <2>1
<1> HIDE DEF below
<1> QED BY <1>1, <1>2, <1>3, <1>5, <1>6

LEMMA Fields ==
  /\ Absent \in Entries /\ Absent.phys = 0 /\ Absent.rw = FALSE /\ Absent.cow = FALSE
  /\ \A p : Page(p).phys = p /\ Page(p).rw = TRUE /\ Page(p).cow = FALSE
  /\ \A p \in Phys : Page(p) \in Entries
  /\ NoTlb \in [Virt -> Entries] /\ \A v \in Virt : NoTlb[v] = Absent
BY DEF Absent, Page, Entries, NoTlb

(* The page table of a new program.                                        *)
LEMMA LoadedTable ==
  ASSUME NEW base \in Nat, base + LoadPages <= NPages
  PROVE  /\ Loaded(base) \in [Virt -> Entries]
         /\ \A v \in FilePages : /\ Loaded(base)[v] = Page(base + Nth(FilePages, v))
                                 /\ base + Nth(FilePages, v) \in Frames
                                 /\ base < base + Nth(FilePages, v)
                                 /\ base + Nth(FilePages, v) <= base + LoadPages
         /\ Loaded(base)[RegionPage] = Absent
         /\ \A v \in Virt \ (FilePages \cup {RegionPage}) : Loaded(base)[v] = Page(Own(v))
         /\ \A v, w \in FilePages :
              base + Nth(FilePages, v) = base + Nth(FilePages, w) => v = w
<1>1. /\ Cardinality(FilePages) \in Nat
      /\ \A v \in FilePages : Nth(FilePages, v) \in 1 .. Cardinality(FilePages)
      /\ \A v, w \in FilePages : Nth(FilePages, v) = Nth(FilePages, w) => v = w
  BY NthCounts, SpaceAssumption
<1>2. \A v \in FilePages : /\ base + Nth(FilePages, v) \in Frames
                           /\ base < base + Nth(FilePages, v)
                           /\ base + Nth(FilePages, v) <= base + LoadPages
  BY <1>1, SpaceAssumption DEF LoadPages, Frames
<1>3. RegionPage \notin FilePages /\ RegionPage \in Virt /\ FilePages \subseteq Virt
  BY Layout, SpaceAssumption
<1>4. /\ \A v \in FilePages : Loaded(base)[v] = Page(base + Nth(FilePages, v))
      /\ Loaded(base)[RegionPage] = Absent
      /\ \A v \in Virt \ (FilePages \cup {RegionPage}) : Loaded(base)[v] = Page(Own(v))
  BY <1>3 DEF Loaded
<1>5. \A v \in Virt : Loaded(base)[v] \in Entries
  BY <1>2, <1>4, Fields, Layout
<1>6. Loaded(base) \in [Virt -> Entries]
  BY <1>5 DEF Loaded
<1> QED BY <1>1, <1>2, <1>4, <1>6

LEMMA LoadedRegionsFit ==
  LoadedRegions \in SUBSET Virt /\ Cardinality(LoadedRegions) <= MaxRegions
<1> DEFINE bss == {v \in BssPages : Nth(BssPages, v) <= MaxRegions}
<1>1. /\ \A v \in BssPages : Nth(BssPages, v) \in 1 .. Cardinality(BssPages)
      /\ \A v, w \in BssPages : Nth(BssPages, v) = Nth(BssPages, w) => v = w
      /\ Cardinality(BssPages) \in Nat
  BY NthCounts, SpaceAssumption
<1>2. IsFiniteSet(bss) /\ Cardinality(bss) <= MaxRegions /\ Cardinality(bss) \in Nat
  <2> DEFINE f == [v \in bss |-> Nth(BssPages, v)]
  <2>1. f \in Injection(bss, 1 .. MaxRegions)
    <3>1. \A v \in bss : Nth(BssPages, v) \in 1 .. MaxRegions
      BY <1>1, SpaceAssumption
    <3>2. f \in [bss -> 1 .. MaxRegions] /\ \A v \in bss : f[v] = Nth(BssPages, v)
      BY <3>1
    <3>3. \A v, w \in bss : f[v] = f[w] => v = w
      BY <1>1, <3>2
    <3> HIDE DEF f
    <3> QED BY <3>2, <3>3 DEF Injection, IsInjective
  <2>2. IsFiniteSet(1 .. MaxRegions) /\ Cardinality(1 .. MaxRegions) = MaxRegions
    <3>1. 1 \in Int /\ MaxRegions \in Int /\ MaxRegions >= 0
      BY SpaceAssumption
    <3>2. /\ IsFiniteSet(1 .. MaxRegions)
          /\ Cardinality(1 .. MaxRegions) = IF 1 > MaxRegions THEN 0 ELSE MaxRegions - 1 + 1
      BY <3>1, FS_Interval
    <3> QED BY <3>1, <3>2
  <2> HIDE DEF f, bss
  <2> QED BY <2>1, <2>2, FS_Injection, FS_CardinalityType
<1>3. LoadedRegions = bss \cup (IF Cardinality(bss) < MaxRegions THEN {RegionPage} ELSE {})
  BY DEF LoadedRegions
<1>4. LoadedRegions \in SUBSET Virt
  BY <1>3, Layout
<1> HIDE DEF bss
<1>5. CASE Cardinality(bss) < MaxRegions
  <2>1. LoadedRegions = bss \cup {RegionPage}
    BY <1>3, <1>5
  <2>2. Cardinality(bss \cup {RegionPage}) \in {Cardinality(bss), Cardinality(bss) + 1}
    BY <1>2, FS_AddElement
  <2> QED BY <1>2, <1>4, <1>5, <2>1, <2>2, SpaceAssumption
<1>6. CASE ~(Cardinality(bss) < MaxRegions)
  <2>1. LoadedRegions = bss
    BY <1>3, <1>6
  <2> QED BY <1>2, <1>4, <2>1
<1> QED BY <1>4, <1>5, <1>6

-----------------------------------------------------------------------------
(* What the steps preserve.                                                *)
Inv == SharingInv /\ PrivateUnlessBypassed /\ FaultsResolved

LEMMA CowMapsFinite ==
  ASSUME TypeOK, NEW p PROVE IsFiniteSet(CowMaps(p)) /\ Cardinality(CowMaps(p)) \in Nat
<1>1. IsFiniteSet(live)
  BY Layout, FS_Subset DEF TypeOK
<1>2. IsFiniteSet(live \X Virt)
  BY <1>1, Layout, FS_Product
<1>3. CowMaps(p) \in SUBSET (live \X Virt)
  BY DEF CowMaps
<1> QED BY <1>2, <1>3, FS_Subset, FS_CardinalityType

(* An entry of the current task that is given a page nobody maps yet.      *)
FreshEntry(e, x) ==
  /\ Present(e) /\ e.rw = TRUE /\ e.cow = FALSE
  /\ e.phys \in Frames => bump < e.phys /\ e.phys <= bump' /\ (bypass \/ mem'[e.phys] = x)

(* Pages that are mapped afresh disturb nobody.                            *)
LEMMA Remap ==
  ASSUME Inv, NEW tab \in [Virt -> Entries],
         pt' = [pt EXCEPT ![cur] = tab], live' = live, cur' = cur, bypass' = bypass,
         bump <= bump', bump' \in 0 .. NPages,
         \A p \in Frames : p <= bump => mem'[p] = mem[p],
         \A t \in live : t # cur => img'[t] = img[t],
         \A v \in Virt : \/ tab[v] = pt[cur][v] /\ img'[cur][v] = img[cur][v]
                         \/ FreshEntry(tab[v], img'[cur][v])
                         \/ v = RegionPage /\ tab[v] = Absent /\ img'[cur][v] = "zero",
         \A v, w \in Virt :
           tab[v].phys \in Frames /\ tab[v].phys = tab[w].phys /\ bump < tab[v].phys => v = w
  PROVE  /\ pt' \in [Tasks -> [Virt -> Entries]]
         /\ SharedIsReadOnly' /\ EntriesSound' /\ PrivateUnlessBypassed'
         /\ \A p \in Frames : CowMaps(p)' \subseteq CowMaps(p)
<1>1. /\ cur \in Tasks /\ cur \in live /\ live \subseteq Tasks /\ bump \in Nat /\ NPages \in Nat
      /\ pt \in [Tasks -> [Virt -> Entries]]
  BY SpaceAssumption DEF Inv, SharingInv, TypeOK
<1>2. /\ pt' \in [Tasks -> [Virt -> Entries]] /\ pt'[cur] = tab
      /\ \A t \in live : t # cur => pt'[t] = pt[t]
  BY <1>1
<1>3. \A p \in Frames : p \in Nat /\ p # 0
  BY Layout
<1>4. ASSUME NEW t \in live, NEW v \in Virt
      PROVE  \/ pt'[t][v] = pt[t][v] /\ img'[t][v] = img[t][v]
             \/ t = cur /\ FreshEntry(pt'[t][v], img'[t][v])
             \/ v = RegionPage /\ pt'[t][v] = Absent /\ img'[t][v] = "zero"
  BY <1>2
<1>5. ASSUME NEW t \in live, NEW v \in Virt, pt'[t][v].phys \in Frames
      PROVE  \/ pt'[t][v] = pt[t][v] /\ img'[t][v] = img[t][v] /\ pt[t][v].phys <= bump
             \/ t = cur /\ FreshEntry(pt'[t][v], img'[t][v]) /\ bump < pt'[t][v].phys
  <2>1. CASE pt'[t][v] = pt[t][v] /\ img'[t][v] = img[t][v]
    <3>1. pt[t][v].phys \in Frames => pt[t][v].phys <= bump
      BY DEF Inv, SharingInv, EntriesSound
    <3> QED BY <1>5, <2>1, <3>1
  <2>2. CASE t = cur /\ FreshEntry(pt'[t][v], img'[t][v])
    BY <1>5, <2>2 DEF FreshEntry
  <2>3. pt'[t][v] # Absent
    BY <1>5, Layout, Fields
  <2> QED BY <1>4, <2>1, <2>2, <2>3
<1>6. EntriesSound'
  <2> SUFFICES ASSUME NEW t \in live, NEW v \in Virt
               PROVE  /\ pt'[t][v].phys \in Frames => pt'[t][v].phys <= bump'
                      /\ Present(pt'[t][v]) => pt'[t][v].cow = ~pt'[t][v].rw
                      /\ ~Present(pt'[t][v]) => /\ v = RegionPage /\ ~pt'[t][v].cow
                                                /\ bypass' \/ img'[t][v] = "zero"
    BY DEF EntriesSound, Present
  <2>1. CASE pt'[t][v] = pt[t][v] /\ img'[t][v] = img[t][v]
    BY <1>1, <1>3, <2>1 DEF Inv, SharingInv, EntriesSound
  <2>2. CASE FreshEntry(pt'[t][v], img'[t][v])
    BY <2>2 DEF FreshEntry
  <2>3. CASE v = RegionPage /\ pt'[t][v] = Absent /\ img'[t][v] = "zero"
    BY <2>3, Fields, Layout DEF Present
  <2> QED BY <1>4, <2>1, <2>2, <2>3
<1>7. SharedIsReadOnly'
  <2> SUFFICES ASSUME NEW t \in live, NEW u \in live, NEW v \in Virt, NEW w \in Virt,
                      pt'[t][v].phys \in Frames, pt'[u][w].phys = pt'[t][v].phys,
                      <<t, v>> # <<u, w>>
               PROVE  ~pt'[t][v].rw
    BY DEF SharedIsReadOnly
  <2>1. pt'[t][v].phys \in Nat /\ pt'[u][w].phys \in Frames
    BY <1>3
  <2>2. CASE bump < pt'[t][v].phys
    <3>1. t = cur /\ u = cur
      BY <1>1, <1>5, <2>1, <2>2
    <3> QED BY <1>2, <2>2, <3>1
  <2>3. CASE ~(bump < pt'[t][v].phys)
    <3>1. pt'[t][v] = pt[t][v] /\ pt'[u][w] = pt[u][w]
      BY <1>5, <2>1, <2>3
    <3> QED BY <3>1 DEF Inv, SharingInv, SharedIsReadOnly
  <2> QED BY <2>2, <2>3
<1>8. PrivateUnlessBypassed'
  <2> SUFFICES ASSUME ~bypass, NEW t \in live, NEW v \in Virt, pt'[t][v].phys \in Frames
               PROVE  mem'[pt'[t][v].phys] = img'[t][v]
    BY DEF PrivateUnlessBypassed
  <2>1. CASE pt'[t][v] = pt[t][v] /\ img'[t][v] = img[t][v] /\ pt[t][v].phys <= bump
    <3>1. mem[pt[t][v].phys] = img[t][v]
      BY <2>1 DEF Inv, PrivateUnlessBypassed
    <3> QED BY <2>1, <3>1
  <2>2. CASE FreshEntry(pt'[t][v], img'[t][v])
    BY <2>2 DEF FreshEntry
  <2> QED BY <1>5, <2>1, <2>2
<1>9. ASSUME NEW p \in Frames, NEW m \in live \X Virt,
             pt'[m[1]][m[2]].phys = p, pt'[m[1]][m[2]].cow
      PROVE  pt[m[1]][m[2]].phys = p /\ pt[m[1]][m[2]].cow
  <2>1. PICK t \in live, v \in Virt : m[1] = t /\ m[2] = v
    OBVIOUS
  <2>2. pt'[t][v].phys \in Frames /\ pt'[t][v].cow # FALSE
    BY <1>9, <2>1
  <2>3. ~FreshEntry(pt'[t][v], img'[t][v])
    BY <2>2 DEF FreshEntry
  <2>4. pt'[t][v] = pt[t][v]
    BY <1>5, <2>2, <2>3
  <2> QED BY <1>9, <2>1, <2>4
<1>10. \A p \in Frames : CowMaps(p)' \subseteq CowMaps(p)
  BY <1>9 DEF CowMaps
<1> QED BY <1>2, <1>6, <1>7, <1>8, <1>10

(* With the same reference counts, fewer sharers are still covered.        *)
LEMMA FewerCovered ==
  ASSUME Inv, ref' = ref, \A p \in Frames : CowMaps(p)' \subseteq CowMaps(p)
  PROVE  RefsCover'
<1> SUFFICES ASSUME NEW p \in Frames PROVE Cardinality(CowMaps(p)') <= ref[p]
  BY DEF RefsCover
<1>1. IsFiniteSet(CowMaps(p)) /\ Cardinality(CowMaps(p)) \in Nat
  BY CowMapsFinite DEF Inv, SharingInv
<1>2. Cardinality(CowMaps(p)') <= Cardinality(CowMaps(p)) /\ IsFiniteSet(CowMaps(p)')
  BY <1>1, FS_Subset
<1>3. Cardinality(CowMaps(p)') \in Nat
  BY <1>2, FS_CardinalityType
<1>4. Cardinality(CowMaps(p)) <= ref[p] /\ ref[p] \in Nat
  BY DEF Inv, SharingInv, RefsCover, TypeOK
<1> QED BY <1>1, <1>2, <1>3, <1>4

-----------------------------------------------------------------------------
(* exec.                                                                   *)

LEMMA InitInv == Init => Inv
<1> SUFFICES ASSUME Init PROVE Inv
  OBVIOUS
<1> DEFINE base == TablePages
           tab == Loaded(base)
<1>1. base \in Nat /\ base + LoadPages <= NPages /\ LoadPages \in Nat /\ bump \in 0 .. NPages
      /\ bump = base + LoadPages
  <2>1. Cardinality(FilePages) \in Nat
    BY NthCounts, SpaceAssumption
  <2> QED BY <2>1, SpaceAssumption DEF Init, LoadPages
<1>2. /\ tab \in [Virt -> Entries]
      /\ \A v \in FilePages : /\ tab[v] = Page(base + Nth(FilePages, v))
                              /\ base + Nth(FilePages, v) \in Frames
                              /\ base + Nth(FilePages, v) <= base + LoadPages
      /\ tab[RegionPage] = Absent
      /\ \A v \in Virt \ (FilePages \cup {RegionPage}) : tab[v] = Page(Own(v))
      /\ \A v, w \in FilePages :
           base + Nth(FilePages, v) = base + Nth(FilePages, w) => v = w
  BY <1>1, LoadedTable
<1> HIDE DEF tab
<1>3. 0 \in Tasks /\ live = {0} /\ cur = 0 /\ pt[0] = tab
  BY SpaceAssumption DEF Init, Tasks, tab
<1>4. TypeOK
  <2>1. pt \in [Tasks -> [Virt -> Entries]] /\ tlb \in [Virt -> Entries]
    BY <1>2, Fields DEF Init, tab
  <2>2. regions \in [Tasks -> SUBSET Virt] /\ \A t \in Tasks : Cardinality(regions[t]) <= MaxRegions
    BY LoadedRegionsFit, FS_EmptySet, SpaceAssumption DEF Init
  <2>3. Cardinality(HeapPages) \in Nat
    BY NthCounts, SpaceAssumption
  <2>4. brk \in 0 .. 2 * Cardinality(HeapPages) /\ ref \in [Frames -> Nat]
    BY <2>3 DEF Init
  <2>5. mem \in [Phys -> Values] /\ img \in [Tasks -> [Virt -> Values]]
    BY DEF Init, Values
  <2>6. cpu \in {"ok", "halt", "spin"} /\ bypass \in BOOLEAN /\ lost \subseteq Tasks
    BY <1>3 DEF Init
  <2> QED BY <1>1, <1>3, <2>1, <2>2, <2>4, <2>5, <2>6 DEF TypeOK
<1>5. ASSUME NEW v \in Virt
      PROVE  /\ tab[v].cow = FALSE
             /\ tab[v].phys \in Frames => v \in FilePages /\ tab[v].phys <= bump
                                          /\ tab[v].phys = base + Nth(FilePages, v)
             /\ Present(tab[v]) => tab[v].rw = TRUE
             /\ ~Present(tab[v]) => v = RegionPage
  BY <1>1, <1>2, Fields, Layout DEF Present
<1>6. EntriesSound
  BY <1>3, <1>5, SpaceAssumption DEF EntriesSound, Init
<1>7. SharedIsReadOnly
  <2>1. ASSUME NEW v \in Virt, NEW w \in Virt, tab[v].phys \in Frames, tab[w].phys = tab[v].phys
        PROVE  v = w
    <3>1. /\ v \in FilePages /\ tab[v].phys = base + Nth(FilePages, v)
          /\ w \in FilePages /\ tab[w].phys = base + Nth(FilePages, w)
      BY <1>5, <2>1
    <3> QED BY <1>2, <2>1, <3>1
  <2> QED BY <1>3, <2>1 DEF SharedIsReadOnly
<1>8. RefsCover
  <2>1. \A p \in Frames : CowMaps(p) = {}
    BY <1>3, <1>5 DEF CowMaps
  <2> QED BY <2>1, FS_EmptySet DEF RefsCover, Init
<1>9. TlbSound /\ RegionsKept
  BY <1>3, Fields DEF TlbSound, Present, RegionsKept, Init
<1>10. PrivateUnlessBypassed
  <2> SUFFICES ASSUME NEW v \in Virt, tab[v].phys \in Frames PROVE mem[tab[v].phys] = img[0][v]
    BY <1>3 DEF PrivateUnlessBypassed
  <2>1. v \in FilePages /\ tab[v].phys = base + Nth(FilePages, v)
    BY <1>5
  <2> QED BY <1>3, <2>1, Layout DEF Init
<1>11. FaultsResolved
  BY DEF Init, FaultsResolved
<1> QED BY <1>4, <1>6, <1>7, <1>8, <1>9, <1>10, <1>11 DEF Inv, SharingInv

(* A step that only takes pages away, or forgets the regions of the caller.*)
LEMMA NoPagesInv ==
  ASSUME Inv, cpu = "ok", bump' \in 0 .. NPages, bump <= bump',
         \/ UNCHANGED <<regions, lost>>
         \/ regions' = [regions EXCEPT ![cur] = {}] /\ lost' = lost \cup {cur},
         UNCHANGED <<ref, pt, tlb, mem, img, bypass, brk, live, cur, cpu>>
  PROVE  Inv'
<1> USE DEF Inv, SharingInv
<1>1. TypeOK'
  <2>1. regions' \in [Tasks -> SUBSET Virt] /\ \A t \in Tasks : Cardinality(regions'[t]) <= MaxRegions
    <3>1. Cardinality({}) <= MaxRegions /\ {} \in SUBSET Virt
      BY FS_EmptySet, SpaceAssumption
    <3>2. CASE UNCHANGED <<regions, lost>>
      BY <3>2 DEF TypeOK
    <3>3. CASE regions' = [regions EXCEPT ![cur] = {}]
      <4>1. /\ regions \in [Tasks -> SUBSET Virt]
            /\ \A t \in Tasks : Cardinality(regions[t]) <= MaxRegions
        BY DEF TypeOK
      <4>2. regions' \in [Tasks -> SUBSET Virt]
        BY <3>1, <3>3, <4>1
      <4>3. \A t \in Tasks : regions'[t] = {} \/ regions'[t] = regions[t]
        BY <3>3, <4>1
      <4> QED BY <3>1, <4>1, <4>2, <4>3
    <3> QED BY <3>2, <3>3
  <2>2. lost' \subseteq Tasks
    BY DEF TypeOK
  <2> QED BY <2>1, <2>2 DEF TypeOK
<1>2. RefsCover' /\ SharedIsReadOnly' /\ TlbSound'
  BY DEF RefsCover, CowMaps, SharedIsReadOnly, TlbSound
<1>3. EntriesSound'
  <2>1. \A p \in Frames : p <= bump => p <= bump'
    BY Layout, SpaceAssumption DEF TypeOK
  <2> QED BY <2>1 DEF EntriesSound
<1>4. RegionsKept'
  BY DEF RegionsKept, TypeOK
<1>5. PrivateUnlessBypassed' /\ FaultsResolved'
  BY DEF PrivateUnlessBypassed, FaultsResolved
<1> QED BY <1>1, <1>2, <1>3, <1>4, <1>5

LEMMA ExecInv == ASSUME Inv, Exec PROVE Inv'
<1> DEFINE base == bump + TablePages
<1>0. /\ bump \in 0 .. NPages /\ NPages \in Nat /\ TablePages \in Nat /\ cpu = "ok"
      /\ LoadPages \in Nat
  <2>1. Cardinality(FilePages) \in Nat
    BY NthCounts, SpaceAssumption
  <2> QED BY <2>1, SpaceAssumption DEF Inv, SharingInv, TypeOK, Exec, LoadPages
<1>1. CASE base > NPages
  BY <1>0, <1>1, NoPagesInv DEF Exec, hist
<1>2. CASE ~(base > NPages) /\ base + LoadPages > NPages
  BY <1>0, <1>2, NoPagesInv DEF Exec
<1>3. CASE ~(base > NPages) /\ ~(base + LoadPages > NPages)
  <2> DEFINE tab == Loaded(base)
  <2>1. /\ bump' = base + LoadPages /\ pt' = [pt EXCEPT ![cur] = tab]
        /\ regions' = [regions EXCEPT ![cur] = LoadedRegions]
        /\ mem' = LoadedMem(base) /\ img' = [img EXCEPT ![cur] = Fresh] /\ tlb' = NoTlb
        /\ lost' = IF RegionPage \in LoadedRegions THEN lost \ {cur} ELSE lost \cup {cur}
        /\ UNCHANGED <<ref, bypass, brk, live, cur, cpu>>
    BY <1>3 DEF Exec
  <2>2. base \in Nat /\ bump <= base /\ base + LoadPages <= NPages /\ bump' \in 0 .. NPages
        /\ bump <= bump' /\ bump \in Nat
    BY <1>0, <1>3, <2>1
  <2>3. /\ tab \in [Virt -> Entries]
        /\ \A v \in FilePages : /\ tab[v] = Page(base + Nth(FilePages, v))
                                /\ base + Nth(FilePages, v) \in Frames
                                /\ base < base + Nth(FilePages, v)
                                /\ base + Nth(FilePages, v) <= base + LoadPages
        /\ tab[RegionPage] = Absent
        /\ \A v \in Virt \ (FilePages \cup {RegionPage}) : tab[v] = Page(Own(v))
        /\ \A v, w \in FilePages :
             base + Nth(FilePages, v) = base + Nth(FilePages, w) => v = w
    BY <2>2, LoadedTable
  <2> HIDE DEF tab, base
  <2>4. cur \in Tasks /\ cur \in live /\ live \subseteq Tasks /\ img \in [Tasks -> [Virt -> Values]]
        /\ mem \in [Phys -> Values]
    BY DEF Inv, SharingInv, TypeOK
  <2>5. /\ Fresh \in [Virt -> Values] /\ Fresh[RegionPage] = "zero"
        /\ \A v \in FilePages : Fresh[v] = "file"
    <3>1. \A v \in Virt : mem[Own(v)] \in Values
      BY <2>4, Layout
    <3>2. RegionPage \notin FilePages /\ FilePages \cap BssPages = {}
      BY SpaceAssumption
    <3>3. \A v \in Virt : Fresh[v] = IF v \in FilePages THEN "file"
                                    ELSE IF v \in BssPages \cup {RegionPage} THEN "zero"
                                    ELSE mem[Own(v)]
      BY <3>2 DEF Fresh
    <3>4. Fresh \in [Virt -> Values]
      BY <3>1, <3>3 DEF Fresh, Values
    <3> QED BY <3>2, <3>3, <3>4, Layout
  <2>6. /\ mem' \in [Phys -> Values]
        /\ \A p \in Frames : p <= bump => mem'[p] = mem[p]
        /\ \A v \in FilePages : mem'[base + Nth(FilePages, v)] = "file"
    <3>1. \A p \in Frames : p <= bump => p \notin {base + Nth(FilePages, v) : v \in FilePages}
      BY <2>2, <2>3, Layout
    <3> QED BY <2>1, <2>3, <2>4, <3>1, Layout DEF LoadedMem, Values
  <2>7. img' \in [Tasks -> [Virt -> Values]] /\ img'[cur] = Fresh
        /\ \A t \in live : t # cur => img'[t] = img[t]
    BY <2>1, <2>4, <2>5
  <2>8. ASSUME NEW v \in Virt
        PROVE  \/ FreshEntry(tab[v], img'[cur][v])
               \/ v = RegionPage /\ tab[v] = Absent /\ img'[cur][v] = "zero"
    <3>1. CASE v \in FilePages
      <4>1. /\ tab[v].phys = base + Nth(FilePages, v) /\ tab[v].rw = TRUE /\ tab[v].cow = FALSE
            /\ tab[v].phys \in Frames /\ tab[v].phys \in Nat /\ tab[v].phys # 0
        BY <2>3, <3>1, Fields, Layout
      <4>2. bump < tab[v].phys /\ tab[v].phys <= bump'
        BY <2>1, <2>2, <2>3, <3>1, <4>1
      <4> QED BY <2>5, <2>6, <2>7, <3>1, <4>1, <4>2 DEF FreshEntry, Present
    <3>2. CASE v = RegionPage
      BY <2>3, <2>5, <2>7, <3>2
    <3>3. CASE v \notin FilePages /\ v # RegionPage
      BY <2>3, <3>3, Fields, Layout DEF FreshEntry, Present
    <3> QED BY <3>1, <3>2, <3>3
  <2>9. ASSUME NEW v \in Virt, NEW w \in Virt, tab[v].phys \in Frames, tab[v].phys = tab[w].phys
        PROVE  v = w
    <3>1. v \in FilePages /\ w \in FilePages
      BY <2>3, <2>9, Fields, Layout
    <3> QED BY <2>3, <2>9, <3>1, Fields
  <2>10. /\ pt' \in [Tasks -> [Virt -> Entries]]
         /\ SharedIsReadOnly' /\ EntriesSound' /\ PrivateUnlessBypassed'
         /\ \A p \in Frames : CowMaps(p)' \subseteq CowMaps(p)
    <3>1. \A v \in Virt : \/ tab[v] = pt[cur][v] /\ img'[cur][v] = img[cur][v]
                          \/ FreshEntry(tab[v], img'[cur][v])
                          \/ v = RegionPage /\ tab[v] = Absent /\ img'[cur][v] = "zero"
      BY <2>8
    <3>2. \A v, w \in Virt :
            tab[v].phys \in Frames /\ tab[v].phys = tab[w].phys /\ bump < tab[v].phys => v = w
      BY <2>9
    <3>3. \A t \in live : t # cur => img'[t] = img[t]
      BY <2>7
    <3>4. \A p \in Frames : p <= bump => mem'[p] = mem[p]
      BY <2>6
    <3> QED BY <2>1, <2>2, <2>3, <3>1, <3>2, <3>3, <3>4, Remap
  <2>11. RefsCover'
    BY <2>1, <2>10, FewerCovered
  <2>12. TypeOK'
    <3>1. regions' \in [Tasks -> SUBSET Virt] /\ \A t \in Tasks : Cardinality(regions'[t]) <= MaxRegions
      BY <2>1, LoadedRegionsFit DEF Inv, SharingInv, TypeOK
    <3>2. lost' \subseteq Tasks
      BY <2>1, <2>4 DEF Inv, SharingInv, TypeOK
    <3>3. tlb' \in [Virt -> Entries]
      BY <2>1, Fields
    <3> QED BY <2>1, <2>2, <2>6, <2>7, <2>10, <3>1, <3>2, <3>3 DEF Inv, SharingInv, TypeOK
  <2>13. TlbSound'
    BY <2>1, Fields DEF TlbSound, Present
  <2>14. RegionsKept'
    BY <2>1, <2>4 DEF Inv, SharingInv, RegionsKept, TypeOK
  <2>15. FaultsResolved'
    BY <1>0, <2>1 DEF FaultsResolved
  <2> QED BY <2>10, <2>11, <2>12, <2>13, <2>14, <2>15 DEF Inv, SharingInv
<1> QED BY <1>1, <1>2, <1>3

LEMMA ExecBadInv == ASSUME Inv, ExecBad PROVE Inv'
<1>1. bump' \in 0 .. NPages /\ bump <= bump'
  BY SpaceAssumption DEF Inv, SharingInv, TypeOK, ExecBad
<1> QED BY <1>1, NoPagesInv DEF ExecBad, hist

-----------------------------------------------------------------------------
(* Accesses and page faults.                                               *)

LEMMA CurTypes ==
  ASSUME Inv
  PROVE  /\ cur \in Tasks /\ cur \in live /\ live \subseteq Tasks /\ bump \in Nat
         /\ bump <= NPages /\ NPages \in Nat
         /\ pt \in [Tasks -> [Virt -> Entries]] /\ tlb \in [Virt -> Entries]
         /\ mem \in [Phys -> Values] /\ img \in [Tasks -> [Virt -> Values]]
         /\ \A v \in Virt : /\ pt[cur][v] \in Entries /\ tlb[v] \in Entries
                            /\ pt[cur][v].phys \in Phys \cup {0} /\ tlb[v].phys \in Phys \cup {0}
                            /\ pt[cur][v].rw \in BOOLEAN /\ pt[cur][v].cow \in BOOLEAN
<1>1. /\ cur \in Tasks /\ cur \in live /\ live \subseteq Tasks /\ bump \in Nat
      /\ bump <= NPages /\ NPages \in Nat
      /\ pt \in [Tasks -> [Virt -> Entries]] /\ tlb \in [Virt -> Entries]
      /\ mem \in [Phys -> Values] /\ img \in [Tasks -> [Virt -> Values]]
  BY SpaceAssumption DEF Inv, SharingInv, TypeOK
<1>2. \A v \in Virt : pt[cur][v] \in Entries /\ tlb[v] \in Entries
  BY <1>1
<1>3. \A e \in Entries : e.phys \in Phys \cup {0} /\ e.rw \in BOOLEAN /\ e.cow \in BOOLEAN
  BY DEF Entries
<1> QED BY <1>1, <1>2, <1>3

(* A store reaches the page the table maps, and if that is the allocator's *)
(* and not copy-on-write, nobody else maps it.                             *)
LEMMA StoreInv ==
  ASSUME Inv, NEW v \in Virt, cpu = "ok", Present(Entry(v)), Store(v, Entry(v)),
         UNCHANGED <<kernel, live, cur, tlb, cpu, lost>>
  PROVE  Inv'
<1> DEFINE p == Entry(v).phys
<1>1. p = pt[cur][v].phys /\ p # 0 /\ Present(pt[cur][v]) /\ p \in Phys
  BY CurTypes DEF Entry, Present, Inv, SharingInv, TlbSound
<1> HIDE DEF p
<1>2. /\ mem' = [mem EXCEPT ![p] = "new"] /\ img' = [img EXCEPT ![cur][v] = "new"]
      /\ bypass' = (bypass \/ pt[cur][v].cow)
      /\ UNCHANGED <<bump, ref, pt, regions, brk, live, cur, tlb, cpu, lost>>
  BY DEF Store, p, kernel
<1>3. /\ mem' \in [Phys -> Values] /\ img' \in [Tasks -> [Virt -> Values]] /\ bypass' \in BOOLEAN
      /\ mem'[p] = "new" /\ \A q \in Phys : q # p => mem'[q] = mem[q]
      /\ img'[cur][v] = "new"
      /\ \A t \in Tasks, w \in Virt : <<t, w>> # <<cur, v>> => img'[t][w] = img[t][w]
  BY <1>1, <1>2, CurTypes DEF Values
<1>4. TypeOK'
  BY <1>2, <1>3 DEF Inv, SharingInv, TypeOK
<1>5. RefsCover' /\ SharedIsReadOnly' /\ TlbSound' /\ RegionsKept' /\ FaultsResolved'
  BY <1>2 DEF Inv, SharingInv, RefsCover, CowMaps, SharedIsReadOnly, TlbSound, RegionsKept,
     FaultsResolved
<1>6. EntriesSound'
  <2> SUFFICES ASSUME NEW t \in live, NEW w \in Virt
               PROVE  /\ pt[t][w].phys \in Frames => pt[t][w].phys <= bump
                      /\ Present(pt[t][w]) => pt[t][w].cow = ~pt[t][w].rw
                      /\ ~Present(pt[t][w]) => /\ w = RegionPage /\ ~pt[t][w].cow
                                               /\ bypass' \/ img'[t][w] = "zero"
    BY <1>2 DEF EntriesSound, Present
  <2>1. /\ pt[t][w].phys \in Frames => pt[t][w].phys <= bump
        /\ Present(pt[t][w]) => pt[t][w].cow = ~pt[t][w].rw
        /\ ~Present(pt[t][w]) => /\ w = RegionPage /\ ~pt[t][w].cow
                                 /\ bypass \/ img[t][w] = "zero"
    BY DEF Inv, SharingInv, EntriesSound
  <2>2. ~Present(pt[t][w]) => img'[t][w] = img[t][w]
    BY <1>1, <1>3, CurTypes
  <2> QED BY <1>2, <2>1, <2>2
<1>7. PrivateUnlessBypassed'
  <2> SUFFICES ASSUME ~bypass', NEW t \in live, NEW w \in Virt, pt[t][w].phys \in Frames
               PROVE  mem'[pt[t][w].phys] = img'[t][w]
    BY <1>2 DEF PrivateUnlessBypassed
  <2>1. ~bypass /\ ~pt[cur][v].cow /\ pt[cur][v].rw
    BY <1>1, <1>2, CurTypes DEF Inv, SharingInv, EntriesSound
  <2>2. CASE <<t, w>> = <<cur, v>>
    BY <1>1, <1>3, <2>2
  <2>3. CASE <<t, w>> # <<cur, v>>
    <3>1. pt[t][w].phys # p
      BY <1>1, <2>1, <2>3, CurTypes DEF Inv, SharingInv, SharedIsReadOnly
    <3>2. mem[pt[t][w].phys] = img[t][w]
      BY <2>1 DEF Inv, PrivateUnlessBypassed
    <3> QED BY <1>3, <2>3, <3>1, <3>2, CurTypes, Layout
  <2> QED BY <2>2, <2>3
<1> QED BY <1>4, <1>5, <1>6, <1>7 DEF Inv, SharingInv

LEMMA WriteInv == ASSUME Inv, NEW v \in Virt, Write(v) \/ KernelWrite(v) PROVE Inv'
BY StoreInv DEF Write, KernelWrite


(* An entry of the current task that gets a new page, filled.              *)
LEMMA NewPage ==
  ASSUME Inv, NEW v \in Virt, cpu = "ok", bump < NPages, bump' = bump + 1,
         NEW x \in Values, mem' = [mem EXCEPT ![bump + 1] = x],
         ~bypass => x = img[cur][v], Resolved(v, bump + 1), ref' \in [Frames -> Nat],
         UNCHANGED <<regions, brk, live, cur, hist, cpu>>
  PROVE  /\ RefsCover' => Inv'
         /\ \A p \in Frames : CowMaps(p)' \subseteq CowMaps(p) \ {<<cur, v>>}
<1> DEFINE e == Page(bump + 1)
           tab == [pt[cur] EXCEPT ![v] = e]
<1>1. /\ bump + 1 \in Frames /\ bump + 1 \in Phys /\ bump + 1 # 0 /\ bump' \in 0 .. NPages
      /\ bump <= bump' /\ e \in Entries
  BY CurTypes, Layout, Fields DEF Frames
<1>2. e.phys = bump + 1 /\ e.rw = TRUE /\ e.cow = FALSE
  BY Fields
<1>3. UNCHANGED <<regions, brk, live, cur, img, bypass, lost, cpu>>
  BY DEF hist
<1> HIDE DEF e
<1>4. tab \in [Virt -> Entries] /\ tab[v] = e /\ \A w \in Virt : w # v => tab[w] = pt[cur][w]
  BY <1>1, CurTypes
<1>5. pt' = [pt EXCEPT ![cur] = tab]
  BY CurTypes DEF Resolved, e
<1>6. tlb' \in [Virt -> Entries] /\ tlb'[v] = Absent /\ \A w \in Virt : w # v => tlb'[w] = tlb[w]
  BY CurTypes, Fields DEF Resolved
<1> HIDE DEF tab
<1>7. /\ mem' \in [Phys -> Values] /\ mem'[bump + 1] = x
      /\ \A p \in Frames : p <= bump => mem'[p] = mem[p]
  BY <1>1, CurTypes, Layout
<1>8. \A w \in Virt : pt[cur][w].phys \in Frames => pt[cur][w].phys <= bump
  BY CurTypes DEF Inv, SharingInv, EntriesSound
<1>9. \A w \in Virt : \/ tab[w] = pt[cur][w] /\ img'[cur][w] = img[cur][w]
                      \/ FreshEntry(tab[w], img'[cur][w])
                      \/ w = RegionPage /\ tab[w] = Absent /\ img'[cur][w] = "zero"
  <2>1. FreshEntry(e, img'[cur][v])
    BY <1>1, <1>2, <1>3, <1>7, CurTypes DEF FreshEntry, Present
  <2> QED BY <1>3, <1>4, <2>1
<1>10. \A w, u \in Virt :
         tab[w].phys \in Frames /\ tab[w].phys = tab[u].phys /\ bump < tab[w].phys => w = u
  BY <1>2, <1>4, <1>8, CurTypes, Layout
<1>11. /\ pt' \in [Tasks -> [Virt -> Entries]]
       /\ SharedIsReadOnly' /\ EntriesSound' /\ PrivateUnlessBypassed'
       /\ \A p \in Frames : CowMaps(p)' \subseteq CowMaps(p)
  <2>1. \A t \in live : t # cur => img'[t] = img[t]
    BY <1>3
  <2>2. \A p \in Frames : p <= bump => mem'[p] = mem[p]
    BY <1>7
  <2> QED BY <1>1, <1>3, <1>4, <1>5, <1>9, <1>10, <2>1, <2>2, Remap
<1>12. pt'[cur] = tab
  BY <1>5, CurTypes
<1>13. \A p \in Frames : CowMaps(p)' \subseteq CowMaps(p) \ {<<cur, v>>}
  <2>1. \A p : <<cur, v>> \notin CowMaps(p)'
    BY <1>2, <1>4, <1>12 DEF CowMaps
  <2> QED BY <1>11, <2>1
<1>14. TypeOK'
  BY <1>1, <1>3, <1>6, <1>7, <1>11 DEF Inv, SharingInv, TypeOK
<1>15. TlbSound'
  <2>1. ASSUME NEW w \in Virt, Present(tlb'[w]) PROVE tlb'[w].rw /\ tlb'[w].phys = tab[w].phys
    <3>1. w # v
      BY <1>6, <2>1, Fields DEF Present
    <3> QED BY <1>4, <1>6, <2>1, <3>1 DEF Inv, SharingInv, TlbSound, Present
  <2> QED BY <1>3, <1>12, <2>1 DEF TlbSound, Present
<1>16. RegionsKept' /\ FaultsResolved'
  BY <1>3 DEF Inv, SharingInv, RegionsKept, FaultsResolved
<1> QED BY <1>11, <1>13, <1>14, <1>15, <1>16 DEF Inv, SharingInv

LEMMA DemandInv ==
  ASSUME Inv, NEW v \in Virt, cpu = "ok", Demand(v), UNCHANGED <<regions, brk, live, cur, hist>>
  PROVE  Inv'
<1>1. /\ bump < NPages /\ bump' = bump + 1 /\ mem' = [mem EXCEPT ![bump + 1] = "zero"]
      /\ Resolved(v, bump + 1) /\ ref' = ref /\ cpu' = cpu /\ ~Present(pt[cur][v])
  BY DEF Demand
<1>2. bypass \/ img[cur][v] = "zero"
  BY <1>1, CurTypes DEF Inv, SharingInv, EntriesSound
<1>3. ref' \in [Frames -> Nat] /\ "zero" \in Values
  BY <1>1 DEF Inv, SharingInv, TypeOK, Values
<1>4. /\ RefsCover' => Inv'
      /\ \A p \in Frames : CowMaps(p)' \subseteq CowMaps(p) \ {<<cur, v>>}
  BY <1>1, <1>2, <1>3, NewPage
<1>5. \A p \in Frames : CowMaps(p)' \subseteq CowMaps(p)
  BY <1>4
<1> QED BY <1>1, <1>4, <1>5, FewerCovered

(* The references still cover the sharers when one entry is dropped from   *)
(* those of p and the count of p, if not already 0, goes down by one.      *)
LEMMA OneDropped ==
  ASSUME Inv, NEW m, NEW p, m \in CowMaps(p), DecRef(p),
         \A q \in Frames : CowMaps(q)' \subseteq CowMaps(q) \ {m}
  PROVE  ref' \in [Frames -> Nat] /\ RefsCover'
<1>1. ref \in [Frames -> Nat]
  BY DEF Inv, SharingInv, TypeOK
<1>2. /\ ref' \in [Frames -> Nat]
      /\ \A q \in Frames : q # p => ref'[q] = ref[q]
      /\ p \in Frames => ref'[p] = IF ref[p] > 0 THEN ref[p] - 1 ELSE ref[p]
  BY <1>1 DEF DecRef
<1>3. ASSUME NEW q \in Frames PROVE Cardinality(CowMaps(q)') <= ref'[q]
  <2>1. IsFiniteSet(CowMaps(q)) /\ Cardinality(CowMaps(q)) \in Nat
    BY CowMapsFinite DEF Inv, SharingInv
  <2>2. Cardinality(CowMaps(q)) <= ref[q]
    BY DEF Inv, SharingInv, RefsCover
  <2>3. IsFiniteSet(CowMaps(q) \ {m}) /\ Cardinality(CowMaps(q) \ {m}) \in Nat
        /\ Cardinality(CowMaps(q) \ {m})
              = IF m \in CowMaps(q) THEN Cardinality(CowMaps(q)) - 1 ELSE Cardinality(CowMaps(q))
    BY <2>1, FS_RemoveElement, FS_CardinalityType
  <2>4. /\ IsFiniteSet(CowMaps(q)') /\ Cardinality(CowMaps(q)') <= Cardinality(CowMaps(q) \ {m})
        /\ Cardinality(CowMaps(q)') \in Nat
    BY <2>3, FS_Subset, FS_CardinalityType
  <2> HIDE DEF CowMaps
  <2>5. CASE q = p
    BY <1>1, <1>2, <2>1, <2>2, <2>3, <2>4, <2>5
  <2>6. CASE q # p
    BY <1>1, <1>2, <2>1, <2>2, <2>3, <2>4, <2>6
  <2> QED BY <2>5, <2>6
<1> QED BY <1>2, <1>3 DEF RefsCover

LEMMA CowCopyInv ==
  ASSUME Inv, NEW v \in Virt, cpu = "ok", CowCopy(v), UNCHANGED <<regions, brk, live, cur, hist>>
  PROVE  Inv'
<1> DEFINE p == pt[cur][v].phys
<1>1. /\ pt[cur][v].cow /\ MustCopy(p) /\ bump < NPages /\ bump' = bump + 1
      /\ mem' = [mem EXCEPT ![bump + 1] = mem[p]]
      /\ Resolved(v, bump + 1) /\ DecRef(p) /\ cpu' = cpu
  BY DEF CowCopy
<1>2. p \in Frames /\ mem[p] \in Values
  <2>1. p \in Frames
    BY <1>1 DEF MustCopy, RefGet
  <2> QED BY <2>1, CurTypes, Layout
<1>3. ~bypass => mem[p] = img[cur][v]
  BY <1>2, CurTypes DEF Inv, PrivateUnlessBypassed
<1>4. <<cur, v>> \in CowMaps(p)
  BY <1>1, CurTypes DEF CowMaps
<1>5. ref' \in [Frames -> Nat]
  BY <1>1 DEF Inv, SharingInv, TypeOK, DecRef
<1> HIDE DEF p
<1>6. /\ RefsCover' => Inv'
      /\ \A q \in Frames : CowMaps(q)' \subseteq CowMaps(q) \ {<<cur, v>>}
  BY <1>1, <1>2, <1>3, <1>5, NewPage
<1>7. RefsCover'
  BY <1>1, <1>4, <1>6, OneDropped
<1> QED BY <1>6, <1>7

(* A page that is copy-on-write and has one reference or none has no other *)
(* entry, unless it is not the allocator's.                                *)
LEMMA SoleEntry ==
  ASSUME Inv, NEW v \in Virt, pt[cur][v].cow, ~MustCopy(pt[cur][v].phys),
         pt[cur][v].phys \in Frames, NEW t \in live, NEW w \in Virt,
         pt[t][w].phys = pt[cur][v].phys
  PROVE  <<t, w>> = <<cur, v>>
<1> DEFINE p == pt[cur][v].phys
           S == CowMaps(p)
<1>1. ref[p] \in Nat /\ ref[p] <= 1 /\ Cardinality(S) <= ref[p]
  BY DEF Inv, SharingInv, TypeOK, RefsCover, MustCopy, RefGet
<1>2. IsFiniteSet(S) /\ Cardinality(S) \in Nat
  BY CowMapsFinite DEF Inv, SharingInv
<1>3. <<cur, v>> \in S
  BY CurTypes DEF CowMaps
<1>4. CASE pt[t][w].cow
  <2>1. <<t, w>> \in S
    BY <1>4 DEF CowMaps
  <2> HIDE DEF S
  <2>2. Cardinality(S \ {<<cur, v>>}) = Cardinality(S) - 1 /\ IsFiniteSet(S \ {<<cur, v>>})
    BY <1>2, <1>3, FS_RemoveElement
  <2>3. S \ {<<cur, v>>} = {}
    <3>1. Cardinality(S \ {<<cur, v>>}) \in Nat
      BY <2>2, FS_CardinalityType
    <3> HIDE DEF p
    <3>2. Cardinality(S \ {<<cur, v>>}) = 0
      BY <1>1, <1>2, <2>2, <3>1
    <3> QED BY <2>2, <3>2, FS_EmptySet
  <2> QED BY <2>1, <2>3
<1>5. CASE ~pt[t][w].cow
  <2>1. Present(pt[t][w])
    BY Layout DEF Present
  <2>2. pt[t][w].cow = ~pt[t][w].rw
    BY <2>1 DEF Inv, SharingInv, EntriesSound
  <2>3. pt[t][w].rw \in BOOLEAN
    <3>1. pt[t][w] \in Entries
      BY CurTypes
    <3> QED BY <3>1 DEF Entries
  <2>4. pt[t][w].rw
    BY <1>5, <2>2, <2>3
  <2> QED BY <2>4, CurTypes DEF Inv, SharingInv, SharedIsReadOnly
<1> QED BY <1>4, <1>5

LEMMA CowKeepInv ==
  ASSUME Inv, NEW v \in Virt, cpu = "ok", CowKeep(v), UNCHANGED <<regions, brk, live, cur, hist>>
  PROVE  Inv'
<1> DEFINE p == pt[cur][v].phys
           e == Page(p)
<1>1. /\ pt[cur][v].cow /\ ~MustCopy(p) /\ Resolved(v, p) /\ DecRef(p)
      /\ UNCHANGED <<bump, mem, cpu, regions, brk, live, cur, img, bypass, lost>>
  BY DEF CowKeep, hist
<1>2. p # 0 /\ p \in Phys
  BY <1>1, CurTypes DEF Inv, SharingInv, EntriesSound, Present
<1>3. e.phys = p /\ e.rw = TRUE /\ e.cow = FALSE /\ e \in Entries
  BY <1>2, Fields
<1> HIDE DEF e
<1>4. /\ pt' \in [Tasks -> [Virt -> Entries]] /\ pt'[cur][v] = e
      /\ \A t \in live, w \in Virt : <<t, w>> # <<cur, v>> => pt'[t][w] = pt[t][w]
  <2>1. pt' = [pt EXCEPT ![cur][v] = e]
    BY <1>1 DEF Resolved, e
  <2> QED BY <1>3, <2>1, CurTypes
<1>5. tlb' \in [Virt -> Entries] /\ tlb'[v] = Absent /\ \A w \in Virt : w # v => tlb'[w] = tlb[w]
  BY <1>1, CurTypes, Fields DEF Resolved
<1>6. \A t \in live, w \in Virt : pt'[t][w].phys = pt[t][w].phys
  BY <1>3, <1>4
<1>7. \A q \in Frames : CowMaps(q)' \subseteq CowMaps(q) \ {<<cur, v>>}
  <2>1. ASSUME NEW q \in Frames, NEW t \in live, NEW w \in Virt, pt'[t][w].phys = q, pt'[t][w].cow
        PROVE  pt[t][w].phys = q /\ pt[t][w].cow /\ <<t, w>> # <<cur, v>>
    BY <1>3, <1>4, <2>1
  <2> QED BY <1>1, <2>1 DEF CowMaps
<1>8. <<cur, v>> \in CowMaps(p)
  BY <1>1, CurTypes DEF CowMaps
<1>9. ref' \in [Frames -> Nat] /\ RefsCover'
  BY <1>1, <1>7, <1>8, OneDropped
<1>10. TypeOK'
  BY <1>1, <1>4, <1>5, <1>9 DEF Inv, SharingInv, TypeOK
<1>11. SharedIsReadOnly'
  <2> SUFFICES ASSUME NEW t \in live, NEW u \in live, NEW x \in Virt, NEW w \in Virt,
                      pt'[t][x].phys \in Frames, pt'[u][w].phys = pt'[t][x].phys,
                      <<t, x>> # <<u, w>>
               PROVE  ~pt'[t][x].rw
    BY <1>1 DEF SharedIsReadOnly
  <2>1. CASE <<t, x>> = <<cur, v>>
    <3>1. pt[cur][v].phys \in Frames /\ pt[u][w].phys = pt[cur][v].phys
      BY <1>6, <2>1, CurTypes
    <3>2. <<u, w>> = <<cur, v>>
      BY <1>1, <3>1, SoleEntry
    <3> QED BY <2>1, <3>2
  <2>2. CASE <<t, x>> # <<cur, v>>
    BY <1>4, <1>6, <2>2 DEF Inv, SharingInv, SharedIsReadOnly
  <2> QED BY <2>1, <2>2
<1>12. EntriesSound'
  <2> SUFFICES ASSUME NEW t \in live, NEW w \in Virt
               PROVE  /\ pt'[t][w].phys \in Frames => pt'[t][w].phys <= bump
                      /\ Present(pt'[t][w]) => pt'[t][w].cow = ~pt'[t][w].rw
                      /\ ~Present(pt'[t][w]) => /\ w = RegionPage /\ ~pt'[t][w].cow
                                                /\ bypass \/ img[t][w] = "zero"
    BY <1>1 DEF EntriesSound, Present
  <2>1. CASE <<t, w>> = <<cur, v>>
    <3>1. pt[t][w].phys \in Frames => pt[t][w].phys <= bump
      BY DEF Inv, SharingInv, EntriesSound
    <3> QED BY <1>2, <1>3, <1>4, <1>6, <2>1, <3>1 DEF Present
  <2>2. CASE <<t, w>> # <<cur, v>>
    BY <1>4, <2>2 DEF Inv, SharingInv, EntriesSound
  <2> QED BY <2>1, <2>2
<1>13. TlbSound'
  <2>1. ASSUME NEW w \in Virt, Present(tlb'[w]) PROVE tlb'[w].rw /\ tlb'[w].phys = pt'[cur][w].phys
    <3>1. w # v
      BY <1>5, <2>1, Fields DEF Present
    <3> QED BY <1>4, <1>5, <2>1, <3>1, CurTypes DEF Inv, SharingInv, TlbSound, Present
  <2> QED BY <1>1, <2>1 DEF TlbSound, Present
<1>14. PrivateUnlessBypassed'
  BY <1>1, <1>6 DEF Inv, PrivateUnlessBypassed
<1>15. RegionsKept' /\ FaultsResolved'
  BY <1>1 DEF Inv, SharingInv, RegionsKept, FaultsResolved
<1> QED BY <1>9, <1>10, <1>11, <1>12, <1>13, <1>14, <1>15 DEF Inv, SharingInv

(* What stays unresolved is an absent page that is in no region, or wants  *)
(* a page that there is not.                                               *)
LEMMA UnresolvedInv ==
  ASSUME Inv, NEW v \in Virt, cpu = "ok", ~(Present(Entry(v)) /\ Entry(v).rw), Unresolved(v),
         UNCHANGED <<regions, brk, live, cur, hist>>
  PROVE  Inv'
<1>1. /\ NotCow(v) /\ ~(v \in regions[cur] /\ ~Present(pt[cur][v]) /\ bump < NPages)
      /\ cpu' \in {"halt", "spin"}
      /\ UNCHANGED <<bump, ref, pt, tlb, mem, regions, brk, live, cur, img, bypass, lost>>
  BY DEF Unresolved, hist
<1>2. TypeOK'
  BY <1>1 DEF Inv, SharingInv, TypeOK
<1>3. /\ RefsCover' /\ SharedIsReadOnly' /\ EntriesSound' /\ TlbSound' /\ RegionsKept'
      /\ PrivateUnlessBypassed'
  BY <1>1 DEF Inv, SharingInv, RefsCover, CowMaps, SharedIsReadOnly, EntriesSound, TlbSound,
     RegionsKept, PrivateUnlessBypassed
<1>4. bump = NPages \/ cur \in lost
  <2> SUFFICES ASSUME bump # NPages PROVE cur \in lost
    OBVIOUS
  <2>1. bump < NPages
    <3>1. bump \in Nat /\ NPages \in Nat /\ bump <= NPages
      BY CurTypes
    <3> QED BY <3>1
  <2>2. ~pt[cur][v].cow
    BY <1>1 DEF NotCow
  <2>3. ~Present(pt[cur][v])
    <3> SUFFICES ASSUME Present(pt[cur][v]) PROVE FALSE
      OBVIOUS
    <3>1. pt[cur][v].rw
      BY <2>2, CurTypes DEF Inv, SharingInv, EntriesSound
    <3>2. Present(Entry(v)) /\ Entry(v).rw
      BY <3>1 DEF Entry, Inv, SharingInv, TlbSound
    <3> QED BY <3>2
  <2>4. v = RegionPage
    BY <2>3, CurTypes DEF Inv, SharingInv, EntriesSound
  <2> QED BY <1>1, <2>1, <2>3, <2>4, CurTypes DEF Inv, SharingInv, RegionsKept
<1>5. FaultsResolved'
  BY <1>1, <1>4 DEF FaultsResolved
<1> QED BY <1>2, <1>3, <1>5 DEF Inv, SharingInv

LEMMA FaultInv == ASSUME Inv, NEW v \in Virt, Fault(v) PROVE Inv'
BY CowCopyInv, CowKeepInv, DemandInv, UnresolvedInv DEF Fault

LEMMA SwitchInv == ASSUME Inv, NEW t \in Tasks, Switch(t) PROVE Inv'
<1>1. /\ cpu = "ok" /\ t \in live /\ cur' = t /\ tlb' = NoTlb
      /\ UNCHANGED <<bump, ref, pt, regions, brk, live, mem, cpu, img, bypass, lost>>
  BY DEF Switch, kernel, hist
<1>2. TypeOK'
  BY <1>1, Fields DEF Inv, SharingInv, TypeOK
<1>3. /\ RefsCover' /\ SharedIsReadOnly' /\ EntriesSound' /\ RegionsKept'
      /\ PrivateUnlessBypassed' /\ FaultsResolved'
  BY <1>1 DEF Inv, SharingInv, RefsCover, CowMaps, SharedIsReadOnly, EntriesSound,
     RegionsKept, PrivateUnlessBypassed, FaultsResolved
<1>4. TlbSound'
  BY <1>1, Fields DEF TlbSound, Present
<1> QED BY <1>2, <1>3, <1>4 DEF Inv, SharingInv

LEMMA EvictInv == ASSUME Inv, NEW v \in Virt, Evict(v) PROVE Inv'
<1>1. /\ cpu = "ok" /\ tlb' = [tlb EXCEPT ![v] = Absent]
      /\ UNCHANGED <<bump, ref, pt, regions, brk, live, cur, mem, cpu, img, bypass, lost>>
  BY DEF Evict, kernel, hist
<1>2. tlb' \in [Virt -> Entries] /\ \A w \in Virt : tlb'[w] = Absent \/ tlb'[w] = tlb[w]
  BY <1>1, Fields, CurTypes
<1>3. TypeOK'
  BY <1>1, <1>2 DEF Inv, SharingInv, TypeOK
<1>4. /\ RefsCover' /\ SharedIsReadOnly' /\ EntriesSound' /\ RegionsKept'
      /\ PrivateUnlessBypassed' /\ FaultsResolved'
  BY <1>1 DEF Inv, SharingInv, RefsCover, CowMaps, SharedIsReadOnly, EntriesSound,
     RegionsKept, PrivateUnlessBypassed, FaultsResolved
<1>5. TlbSound'
  BY <1>1, <1>2, Fields DEF Inv, SharingInv, TlbSound, Present
<1> QED BY <1>3, <1>4, <1>5 DEF Inv, SharingInv

-----------------------------------------------------------------------------
(* fork.                                                                   *)

LEMMA CowFields ==
  ASSUME NEW e \in Entries
  PROVE  /\ Cow(e) \in Entries /\ Cow(e).phys = e.phys
         /\ Present(e) => Cow(e).rw = FALSE /\ Cow(e).cow = TRUE
         /\ ~Present(e) => Cow(e) = e
BY DEF Entries, Cow, Present

(* Two sharers more for every entry of the parent that maps a page.        *)
LEMMA SharersOfTwo ==
  ASSUME Inv, NEW c \in Tasks, c # cur, NEW p, NEW S,
         S \subseteq CowMaps(p) \cup ({cur, c} \X {v \in Virt : pt[cur][v].phys = p})
  PROVE  /\ Cardinality({v \in Virt : pt[cur][v].phys = p}) \in Nat
         /\ Cardinality(S) \in Nat
         /\ Cardinality(S) <= Cardinality(CowMaps(p))
                              + 2 * Cardinality({v \in Virt : pt[cur][v].phys = p})
<1> DEFINE V == {v \in Virt : pt[cur][v].phys = p}
           A == CowMaps(p)
           B == {cur, c} \X V
<1>1. IsFiniteSet(A) /\ Cardinality(A) \in Nat
  BY CowMapsFinite DEF Inv, SharingInv
<1>2. IsFiniteSet(V) /\ Cardinality(V) \in Nat
  BY Layout, FS_Subset, FS_CardinalityType
<1>3. IsFiniteSet({cur, c}) /\ Cardinality({cur, c}) = 2
  <2>1. IsFiniteSet({cur}) /\ Cardinality({cur}) = 1
    BY FS_Singleton
  <2>2. {cur, c} = {cur} \cup {c} /\ c \notin {cur}
    OBVIOUS
  <2>3. IsFiniteSet({cur} \cup {c}) /\ Cardinality({cur} \cup {c}) = Cardinality({cur}) + 1
    BY <2>1, <2>2, FS_AddElement
  <2> QED BY <2>1, <2>2, <2>3
<1> HIDE DEF V, A
<1>4. IsFiniteSet(B) /\ Cardinality(B) = 2 * Cardinality(V)
  BY <1>2, <1>3, FS_Product
<1> HIDE DEF B
<1>5. IsFiniteSet(A \cup B) /\ Cardinality(A \cup B) <= Cardinality(A) + Cardinality(B)
      /\ Cardinality(A \cup B) \in Nat
  <2>1. /\ IsFiniteSet(A \cup B)
        /\ Cardinality(A \cup B) = Cardinality(A) + Cardinality(B) - Cardinality(A \cap B)
    BY <1>1, <1>4, FS_Union
  <2>2. Cardinality(A \cap B) \in Nat
    BY <1>1, FS_Intersection, FS_CardinalityType
  <2>3. Cardinality(A \cup B) \in Nat
    BY <2>1, FS_CardinalityType
  <2> QED BY <1>1, <1>2, <1>4, <2>1, <2>2, <2>3
<1>6. S \subseteq A \cup B
  BY DEF A, B, V
<1>7. Cardinality(S) <= Cardinality(A \cup B) /\ Cardinality(S) \in Nat
  BY <1>5, <1>6, FS_Subset, FS_CardinalityType
<1>8. Cardinality(S) <= Cardinality(A) + 2 * Cardinality(V)
  BY <1>1, <1>2, <1>4, <1>5, <1>7
<1> QED BY <1>2, <1>7, <1>8 DEF A, V

LEMMA ForkInv == ASSUME Inv, Fork PROVE Inv'
<1>1. PICK c \in Tasks \ live :
       IF bump + TablePages + 1 > NPages
       THEN bump' = NPages /\ UNCHANGED <<ref, pt, regions, live, tlb, hist>>
       ELSE /\ bump' = bump + TablePages + 1 /\ live' = live \cup {c}
            /\ pt' = [pt EXCEPT ![cur] = [v \in Virt |-> Cow(pt[cur][v])],
                                ![c] = [v \in Virt |-> IF Present(pt[cur][v])
                                          THEN [phys |-> pt[cur][v].phys, rw |-> FALSE, cow |-> TRUE]
                                          ELSE Absent]]
            /\ ref' = RefsOfTwo(cur)
            /\ regions' = [regions EXCEPT ![c] = regions[cur]]
            /\ img' = [img EXCEPT ![c] = img[cur]]
            /\ lost' = IF cur \in lost THEN lost \cup {c} ELSE lost
            /\ UNCHANGED bypass
            /\ \E kept \in SUBSET {v \in Virt : pt[cur][v].rw} :
                 tlb' = [v \in Virt |-> IF v \in kept THEN pt[cur][v] ELSE tlb[v]]
  BY DEF Fork
<1>2. cpu = "ok" /\ UNCHANGED <<brk, cur, mem, cpu>>
  BY DEF Fork
<1>3. bump \in Nat /\ bump <= NPages /\ NPages \in Nat /\ TablePages \in Nat
  BY CurTypes, SpaceAssumption
<1>4. CASE bump + TablePages + 1 > NPages
  <2>1. bump' = NPages /\ UNCHANGED <<ref, pt, regions, live, tlb, img, bypass, lost>>
    BY <1>1, <1>4 DEF hist
  <2>2. bump' \in 0 .. NPages /\ bump <= bump'
    BY <1>3, <2>1
  <2> QED BY <1>2, <2>1, <2>2, NoPagesInv
<1>5. CASE ~(bump + TablePages + 1 > NPages)
  <2> DEFINE mine == [v \in Virt |-> Cow(pt[cur][v])]
             its == [v \in Virt |-> IF Present(pt[cur][v])
                                   THEN [phys |-> pt[cur][v].phys, rw |-> FALSE, cow |-> TRUE]
                                   ELSE Absent]
  <2>1. /\ bump' = bump + TablePages + 1 /\ live' = live \cup {c} /\ bypass' = bypass
        /\ pt' = [pt EXCEPT ![cur] = mine, ![c] = its] /\ ref' = RefsOfTwo(cur)
        /\ regions' = [regions EXCEPT ![c] = regions[cur]] /\ img' = [img EXCEPT ![c] = img[cur]]
        /\ lost' = IF cur \in lost THEN lost \cup {c} ELSE lost
    BY <1>1, <1>5
  <2>2. PICK kept \in SUBSET {v \in Virt : pt[cur][v].rw} :
          tlb' = [v \in Virt |-> IF v \in kept THEN pt[cur][v] ELSE tlb[v]]
    BY <1>1, <1>5
  <2>3. c \in Tasks /\ c # cur /\ c \notin live /\ live' \subseteq Tasks /\ cur \in live'
    BY <1>1, <2>1, CurTypes
  <2>4. ASSUME NEW v \in Virt
        PROVE  /\ mine[v] \in Entries /\ mine[v].phys = pt[cur][v].phys
               /\ its[v] \in Entries /\ its[v].phys = pt[cur][v].phys
               /\ Present(pt[cur][v]) => /\ mine[v].rw = FALSE /\ mine[v].cow = TRUE
                                         /\ its[v].rw = FALSE /\ its[v].cow = TRUE
               /\ ~Present(pt[cur][v]) => mine[v] = pt[cur][v] /\ its[v].cow = FALSE
    <3>1. pt[cur][v] \in Entries
      BY CurTypes
    <3>2. /\ mine[v] \in Entries /\ mine[v].phys = pt[cur][v].phys
          /\ Present(pt[cur][v]) => mine[v].rw = FALSE /\ mine[v].cow = TRUE
          /\ ~Present(pt[cur][v]) => mine[v] = pt[cur][v]
      BY <3>1, CowFields
    <3>3. /\ its[v] \in Entries /\ its[v].phys = pt[cur][v].phys
          /\ Present(pt[cur][v]) => its[v].rw = FALSE /\ its[v].cow = TRUE
          /\ ~Present(pt[cur][v]) => its[v].cow = FALSE
      BY <3>1 DEF Entries, Absent, Present
    <3> QED BY <3>2, <3>3
  <2>5. mine \in [Virt -> Entries] /\ its \in [Virt -> Entries]
    <3>1. \A v \in Virt : mine[v] \in Entries /\ its[v] \in Entries
      BY <2>4
    <3> QED BY <3>1
  <2> HIDE DEF mine, its
  <2>6. /\ pt' \in [Tasks -> [Virt -> Entries]] /\ pt'[cur] = mine /\ pt'[c] = its
        /\ \A t \in live : t # cur => pt'[t] = pt[t]
    BY <2>1, <2>3, <2>5, CurTypes
  <2>7. /\ img' \in [Tasks -> [Virt -> Values]] /\ img'[c] = img[cur]
        /\ \A t \in live : img'[t] = img[t]
    BY <2>1, <2>3, CurTypes
  <2>8. ASSUME NEW t \in live'
        PROVE  \/ /\ t \in {cur, c}
                  /\ \A v \in Virt : /\ pt'[t][v].phys = pt[cur][v].phys
                                     /\ img'[t][v] = img[cur][v]
                                     /\ Present(pt[cur][v]) => pt'[t][v].rw = FALSE /\ pt'[t][v].cow = TRUE
                                     /\ ~Present(pt[cur][v]) => ~pt'[t][v].cow
               \/ t \in live /\ t # cur /\ pt'[t] = pt[t] /\ img'[t] = img[t]
    <3>1. CASE t = cur
      <4>1. \A v \in Virt : ~Present(pt[cur][v]) => ~pt[cur][v].cow
        BY CurTypes DEF Inv, SharingInv, EntriesSound
      <4> QED BY <2>4, <2>6, <2>7, <3>1, <4>1, CurTypes
    <3>2. CASE t = c
      BY <2>4, <2>6, <2>7, <3>2
    <3>3. CASE t \in live /\ t # cur
      BY <2>6, <2>7, <3>3
    <3> QED BY <2>1, <3>1, <3>2, <3>3
  <2>9. bump' \in 0 .. NPages /\ bump' \in Nat /\ bump <= bump'
    BY <1>3, <1>5, <2>1
  <2>10. SharedIsReadOnly'
    <3> SUFFICES ASSUME NEW t \in live', NEW u \in live', NEW v \in Virt, NEW w \in Virt,
                        pt'[t][v].phys \in Frames, pt'[u][w].phys = pt'[t][v].phys,
                        <<t, v>> # <<u, w>>
                 PROVE  ~pt'[t][v].rw
      BY DEF SharedIsReadOnly
    <3>1. CASE t \in {cur, c}
      <4>1. pt'[t][v].phys # 0
        BY Layout
      <4> QED BY <2>3, <2>8, <3>1, <4>1 DEF Present
    <3>2. CASE t \notin {cur, c}
      <4>1. t \in live /\ t # cur /\ pt'[t] = pt[t]
        BY <2>8, <3>2
      <4>2. PICK r \in live : pt[r][w].phys = pt'[u][w].phys /\ <<t, v>> # <<r, w>>
        BY <2>8, <4>1, CurTypes
      <4> QED BY <4>1, <4>2 DEF Inv, SharingInv, SharedIsReadOnly
    <3> QED BY <3>1, <3>2
  <2>11. EntriesSound'
    <3> SUFFICES ASSUME NEW t \in live', NEW v \in Virt
                 PROVE  /\ pt'[t][v].phys \in Frames => pt'[t][v].phys <= bump'
                        /\ Present(pt'[t][v]) => pt'[t][v].cow = ~pt'[t][v].rw
                        /\ ~Present(pt'[t][v]) => /\ v = RegionPage /\ ~pt'[t][v].cow
                                                  /\ bypass \/ img'[t][v] = "zero"
      BY <2>1 DEF EntriesSound, Present
    <3>1. \A p \in Frames : p <= bump => p <= bump'
      BY <1>3, <2>9, Layout
    <3>2. CASE t \in {cur, c}
      <4>1. /\ pt[cur][v].phys \in Frames => pt[cur][v].phys <= bump
            /\ ~Present(pt[cur][v]) => v = RegionPage /\ (bypass \/ img[cur][v] = "zero")
        BY CurTypes DEF Inv, SharingInv, EntriesSound
      <4>2. /\ pt'[t][v].phys = pt[cur][v].phys /\ img'[t][v] = img[cur][v]
            /\ Present(pt[cur][v]) => pt'[t][v].rw = FALSE /\ pt'[t][v].cow = TRUE
            /\ ~Present(pt[cur][v]) => ~pt'[t][v].cow
        BY <2>3, <2>8, <3>2
      <4>3. Present(pt'[t][v]) <=> Present(pt[cur][v])
        BY <4>2 DEF Present
      <4>4. Present(pt'[t][v]) => pt'[t][v].cow = ~pt'[t][v].rw
        BY <4>2, <4>3
      <4>5. ~Present(pt'[t][v]) => v = RegionPage /\ ~pt'[t][v].cow /\ (bypass \/ img'[t][v] = "zero")
        BY <4>1, <4>2, <4>3
      <4>6. pt'[t][v].phys \in Frames => pt'[t][v].phys <= bump'
        BY <3>1, <4>1, <4>2
      <4> QED BY <4>4, <4>5, <4>6
    <3>3. CASE t \notin {cur, c}
      <4>1. t \in live /\ pt'[t] = pt[t] /\ img'[t] = img[t]
        BY <2>8, <3>3
      <4> QED BY <3>1, <4>1 DEF Inv, SharingInv, EntriesSound
    <3> QED BY <3>2, <3>3
  <2>12. PrivateUnlessBypassed'
    <3> SUFFICES ASSUME ~bypass, NEW t \in live', NEW v \in Virt, pt'[t][v].phys \in Frames
                 PROVE  mem[pt'[t][v].phys] = img'[t][v]
      BY <1>2, <2>1 DEF PrivateUnlessBypassed
    <3>1. PICK r \in live : pt'[t][v].phys = pt[r][v].phys /\ img'[t][v] = img[r][v]
      BY <2>8, CurTypes
    <3> QED BY <3>1 DEF Inv, PrivateUnlessBypassed
  <2>13. RefsCover' /\ ref' \in [Frames -> Nat]
    <3>1. ASSUME NEW p \in Frames
          PROVE  ref'[p] \in Nat /\ Cardinality(CowMaps(p)') <= ref'[p]
      <4> DEFINE V == {v \in Virt : pt[cur][v].phys = p}
      <4>1. CowMaps(p)' \subseteq CowMaps(p) \cup ({cur, c} \X V)
        <5>1. ASSUME NEW t \in live', NEW v \in Virt, pt'[t][v].phys = p, pt'[t][v].cow
              PROVE  \/ t \in live /\ pt[t][v].phys = p /\ pt[t][v].cow
                     \/ t \in {cur, c} /\ pt[cur][v].phys = p
          BY <2>8, <5>1
        <5>2. ASSUME NEW m \in CowMaps(p)' PROVE m \in CowMaps(p) \cup ({cur, c} \X V)
          <6>1. PICK t \in live', v \in Virt : m = <<t, v>> /\ pt'[t][v].phys = p /\ pt'[t][v].cow
            BY <5>2 DEF CowMaps
          <6>2. CASE t \in live /\ pt[t][v].phys = p /\ pt[t][v].cow
            BY <6>1, <6>2 DEF CowMaps
          <6>3. CASE t \in {cur, c} /\ pt[cur][v].phys = p
            BY <6>1, <6>3
          <6> QED BY <5>1, <6>1, <6>2, <6>3
        <5> QED BY <5>2
      <4>2. /\ Cardinality(V) \in Nat /\ Cardinality(CowMaps(p)') \in Nat
            /\ Cardinality(CowMaps(p)') <= Cardinality(CowMaps(p)) + 2 * Cardinality(V)
        BY <2>3, <4>1, SharersOfTwo
      <4>3. ref'[p] = ref[p] + 2 * Cardinality(V)
        BY <2>1 DEF RefsOfTwo
      <4>4. ref[p] \in Nat /\ Cardinality(CowMaps(p)) <= ref[p]
        BY DEF Inv, SharingInv, TypeOK, RefsCover
      <4>5. Cardinality(CowMaps(p)) \in Nat
        BY CowMapsFinite DEF Inv, SharingInv
      <4> HIDE DEF V
      <4> QED BY <4>2, <4>3, <4>4, <4>5
    <3>2. ref' = [p \in Frames |-> ref'[p]]
      BY <2>1 DEF RefsOfTwo
    <3>3. ref' \in [Frames -> Nat]
      BY <3>1, <3>2
    <3> QED BY <3>1, <3>3 DEF RefsCover
  <2>14. /\ tlb' \in [Virt -> Entries]
         /\ \A v \in Virt : tlb'[v] = tlb[v] \/ (pt[cur][v].rw /\ tlb'[v] = pt[cur][v])
    <3>1. \A v \in Virt : tlb'[v] = IF v \in kept THEN pt[cur][v] ELSE tlb[v]
      BY <2>2
    <3>2. \A v \in Virt : tlb'[v] \in Entries
      BY <3>1, CurTypes
    <3>3. tlb' \in [Virt -> Entries]
      BY <2>2, <3>2
    <3>4. \A v \in kept : pt[cur][v].rw
      OBVIOUS
    <3> QED BY <3>1, <3>3, <3>4
  <2>15. TypeOK'
    <3>1. regions' \in [Tasks -> SUBSET Virt] /\ \A t \in Tasks : Cardinality(regions'[t]) <= MaxRegions
      <4>1. /\ regions \in [Tasks -> SUBSET Virt] /\ cur \in Tasks
            /\ \A t \in Tasks : Cardinality(regions[t]) <= MaxRegions
        BY CurTypes DEF Inv, SharingInv, TypeOK
      <4>2. \A t \in Tasks : regions'[t] = IF t = c THEN regions[cur] ELSE regions[t]
        BY <2>1, <2>3, <4>1
      <4>3. regions' \in [Tasks -> SUBSET Virt]
        BY <2>1, <4>1
      <4> QED BY <4>1, <4>2, <4>3
    <3>2. lost' \subseteq Tasks
      BY <2>1, <2>3 DEF Inv, SharingInv, TypeOK
    <3> QED BY <1>2, <2>1, <2>3, <2>6, <2>7, <2>9, <2>13, <2>14, <3>1, <3>2
            DEF Inv, SharingInv, TypeOK
  <2>16. TlbSound'
    <3>1. \A v \in Virt : pt'[cur][v].phys = pt[cur][v].phys
      BY <2>4, <2>6
    <3>2. ASSUME NEW v \in Virt, Present(tlb'[v]) PROVE tlb'[v].rw /\ tlb'[v].phys = pt[cur][v].phys
      BY <2>14, <3>2 DEF Inv, SharingInv, TlbSound, Present
    <3> QED BY <1>2, <3>1, <3>2 DEF TlbSound, Present
  <2>17. RegionsKept'
    <3>1. regions \in [Tasks -> SUBSET Virt]
      BY DEF Inv, SharingInv, TypeOK
    <3>2. \A t \in live : RegionPage \in regions[t] \/ t \in lost
      BY DEF Inv, SharingInv, RegionsKept
    <3>3. cur \in live /\ live \subseteq Tasks
      BY CurTypes
    <3>4. regions'[c] = regions[cur] /\ \A t \in live : regions'[t] = regions[t]
      BY <2>1, <2>3, <3>1, <3>3
    <3>5. lost \subseteq lost' /\ (cur \in lost => c \in lost')
      BY <2>1
    <3>6. \A t \in live' : RegionPage \in regions'[t] \/ t \in lost'
      BY <2>1, <3>2, <3>3, <3>4, <3>5
    <3> QED BY <3>6 DEF RegionsKept
  <2>18. FaultsResolved'
    BY <1>2 DEF FaultsResolved
  <2> QED BY <2>10, <2>11, <2>12, <2>13, <2>15, <2>16, <2>17, <2>18 DEF Inv, SharingInv
<1> QED BY <1>4, <1>5

-----------------------------------------------------------------------------
(* sbrk.                                                                   *)

(* The pages that sbrk adds are the first ones of those it wants.          *)
Done(first, last, H, b, N) == {i \in first..last : i <= H /\ b + (i - first) < N}

LEMMA DoneIsPrefix ==
  ASSUME NEW first \in Nat, NEW last \in Int, NEW H \in Nat, NEW b \in Nat, NEW N \in Nat, b <= N,
         NEW done, done = Done(first, last, H, b, N)
  PROVE  /\ Cardinality(done) \in Nat /\ b + Cardinality(done) <= N
         /\ \A i \in done : i \in Nat /\ first <= i /\ i <= H /\ i - first < Cardinality(done)
<1>0. done = {i \in first..last : i <= H /\ b + (i - first) < N}
  BY DEF Done
<1>1. PICK m \in Int : /\ m <= last /\ m <= H /\ b + (m - first) < N
                       /\ m = last \/ m = H \/ b + (m - first) = N - 1
  <2> DEFINE k == IF last <= H THEN last ELSE H
             j == N - b + first - 1
  <2>1. CASE k <= j
    <3>1. k \in Int /\ k <= last /\ k <= H /\ b + (k - first) < N /\ (k = last \/ k = H)
      BY <2>1
    <3> QED BY <3>1
  <2>2. CASE ~(k <= j)
    <3>1. j \in Int /\ j <= last /\ j <= H /\ b + (j - first) = N - 1 /\ b + (j - first) < N
      BY <2>2
    <3> HIDE DEF j
    <3> QED BY <3>1
  <2> QED BY <2>1, <2>2
<1>2. ASSUME NEW i \in first .. m PROVE i \in done
  <2>1. i \in Int /\ first <= i /\ i <= m
    BY <1>1
  <2>2. i <= last /\ i <= H /\ b + (i - first) < N
    BY <1>1, <2>1
  <2> QED BY <1>0, <2>1, <2>2
<1>3. ASSUME NEW i \in done
      PROVE  i \in Nat /\ first <= i /\ i <= m /\ i <= H /\ i \in first .. m
  <2>1. i \in Int /\ first <= i /\ i <= last /\ i <= H /\ b + (i - first) < N
    BY <1>0
  <2> QED BY <1>1, <2>1
<1>4. done = first .. m
  BY <1>2, <1>3
<1>5. first \in Int /\ m \in Int
  BY <1>1
<1>6. Cardinality(first .. m) = IF first > m THEN 0 ELSE m - first + 1
  BY <1>5, FS_Interval
<1>7. Cardinality(done) \in Nat /\ b + Cardinality(done) <= N
  <2>1. Cardinality(done) = IF first > m THEN 0 ELSE m - first + 1
    BY <1>4, <1>6
  <2>2. CASE first > m
    BY <2>1, <2>2
  <2>3. CASE ~(first > m)
    BY <1>1, <1>5, <2>1, <2>3
  <2> QED BY <2>2, <2>3
<1>8. \A i \in done : i - first < Cardinality(done)
  <2>1. Cardinality(done) = IF first > m THEN 0 ELSE m - first + 1
    BY <1>4, <1>6
  <2>2. \A i \in done : i \in Nat /\ first <= i /\ i <= m
    BY <1>3
  <2> QED BY <1>5, <2>1, <2>2
<1> QED BY <1>3, <1>7, <1>8

LEMMA SbrkInv == ASSUME Inv, NEW n \in Int, Sbrk(n) PROVE Inv'
<1> DEFINE new == IF brk + n < 0 THEN 0 ELSE brk + n
           first == Up(brk) + 1
           last == Up(new)
           H == Cardinality(HeapPages)
           done == {i \in first..last : i <= H /\ bump + (i - first) < NPages}
           hit(v) == v \in HeapPages /\ Nth(HeapPages, v) \in done
           page(v) == bump + 1 + (Nth(HeapPages, v) - first)
           tab == [v \in Virt |-> IF hit(v) THEN Page(page(v)) ELSE pt[cur][v]]
           view == [v \in Virt |-> IF hit(v) THEN "zero" ELSE img[cur][v]]
<1>1. /\ cpu = "ok" /\ bump' = bump + Cardinality(done) /\ pt' = [pt EXCEPT ![cur] = tab]
      /\ tlb' = [v \in Virt |-> IF hit(v) THEN Absent ELSE tlb[v]]
      /\ mem' = [p \in Phys |-> IF p \in bump + 1 .. bump + Cardinality(done) THEN "zero" ELSE mem[p]]
      /\ img' = [img EXCEPT ![cur] = view]
      /\ brk' = IF n < 0 \/ done = first..last THEN new ELSE brk
      /\ UNCHANGED <<ref, regions, live, cur, cpu, bypass, lost>>
  BY DEF Sbrk
<1>2. H \in Nat /\ brk \in Nat /\ brk <= 2 * H /\ bump \in Nat /\ bump <= NPages /\ NPages \in Nat
  <2>1. H \in Nat
    BY NthCounts, SpaceAssumption
  <2> QED BY <2>1, SpaceAssumption DEF Inv, SharingInv, TypeOK
<1>3. new \in Nat /\ (n < 0 => new <= brk) /\ first \in Nat /\ last \in Nat
  BY <1>2 DEF Up
<1>4. brk' \in 0 .. 2 * H
  <2>1. first > last \/ last \in first .. last
    BY <1>3
  <2>2. done = first .. last => first > last \/ last <= H
    BY <2>1
  <2> HIDE DEF done
  <2>3. done = first .. last => new <= 2 * H
    BY <1>2, <1>3, <2>2 DEF Up
  <2>4. new \in 0 .. 2 * H \/ ~(n < 0 \/ done = first .. last)
    BY <1>2, <1>3, <2>3
  <2> HIDE DEF new, first, last
  <2> QED BY <1>1, <1>2, <2>4
<1>5. /\ Cardinality(done) \in Nat /\ bump + Cardinality(done) <= NPages
      /\ \A i \in done : i \in Nat /\ first <= i /\ i <= H /\ i - first < Cardinality(done)
  <2>1. last \in Int
    BY <1>3
  <2> HIDE DEF last, first, H
  <2>2. done = Done(first, last, H, bump, NPages)
    BY DEF Done
  <2> HIDE DEF done
  <2>3. first \in Nat /\ H \in Nat /\ bump \in Nat /\ NPages \in Nat /\ bump <= NPages
    BY <1>2, <1>3
  <2> QED BY <2>1, <2>2, <2>3, DoneIsPrefix
<1> HIDE DEF new, first, last, H, done
<1>6. bump' \in 0 .. NPages /\ bump <= bump'
  BY <1>1, <1>2, <1>5
<1>7. ASSUME NEW v \in Virt, hit(v)
      PROVE  /\ page(v) \in Frames /\ page(v) \in Phys /\ page(v) # 0 /\ bump < page(v)
             /\ page(v) <= bump' /\ page(v) \in bump + 1 .. bump + Cardinality(done)
  <2>1. /\ Nth(HeapPages, v) \in Nat /\ first <= Nth(HeapPages, v)
        /\ Nth(HeapPages, v) - first < Cardinality(done)
    BY <1>5, <1>7
  <2>2. page(v) \in Frames /\ page(v) # 0 /\ bump < page(v)
             /\ page(v) <= bump' /\ page(v) \in bump + 1 .. bump + Cardinality(done)
    BY <1>1, <1>2, <1>3, <1>5, <2>1 DEF Frames
  <2> QED BY <2>2, Layout
<1>8. ASSUME NEW v \in Virt, NEW w \in Virt, hit(v), hit(w), page(v) = page(w) PROVE v = w
  <2>1. Nth(HeapPages, v) \in Nat /\ Nth(HeapPages, w) \in Nat
    BY <1>5, <1>8
  <2>2. Nth(HeapPages, v) = Nth(HeapPages, w)
    BY <1>2, <1>3, <1>8, <2>1
  <2> QED BY <1>8, <2>2, NthCounts, SpaceAssumption
<1> HIDE DEF hit, page
<1>9. tab \in [Virt -> Entries]
      /\ \A v \in Virt : tab[v] = IF hit(v) THEN Page(page(v)) ELSE pt[cur][v]
  <2>1. \A v \in Virt : (IF hit(v) THEN Page(page(v)) ELSE pt[cur][v]) \in Entries
    BY <1>7, Fields, CurTypes
  <2> QED BY <2>1
<1>10. view \in [Virt -> Values]
       /\ \A v \in Virt : view[v] = IF hit(v) THEN "zero" ELSE img[cur][v]
  <2>1. \A v \in Virt : (IF hit(v) THEN "zero" ELSE img[cur][v]) \in Values
    BY CurTypes DEF Values
  <2> QED BY <2>1
<1> HIDE DEF tab, view
<1>11. /\ img' \in [Tasks -> [Virt -> Values]] /\ img'[cur] = view
       /\ \A t \in live : t # cur => img'[t] = img[t]
  BY <1>1, <1>10, CurTypes
<1>12. mem' \in [Phys -> Values] /\ \A p \in Frames : p <= bump => mem'[p] = mem[p]
  <2>1. \A p \in Frames : p <= bump => p \notin bump + 1 .. bump + Cardinality(done)
    BY <1>2, <1>5, Layout
  <2>2. \A p \in Frames : p \in Phys
    BY Layout
  <2>3. \A p \in Frames : p <= bump => mem'[p] = mem[p]
    BY <1>1, <2>1, <2>2
  <2>4. \A p \in Phys : mem'[p] \in Values
    BY <1>1, CurTypes DEF Values
  <2>5. mem' \in [Phys -> Values]
    BY <1>1, <2>4
  <2> QED BY <2>3, <2>5
<1>13. \A v \in Virt : \/ tab[v] = pt[cur][v] /\ img'[cur][v] = img[cur][v]
                       \/ FreshEntry(tab[v], img'[cur][v])
                       \/ v = RegionPage /\ tab[v] = Absent /\ img'[cur][v] = "zero"
  <2>1. ASSUME NEW v \in Virt, hit(v) PROVE FreshEntry(tab[v], img'[cur][v])
    <3>1. tab[v].phys = page(v) /\ tab[v].rw = TRUE /\ tab[v].cow = FALSE
      BY <1>9, <2>1, Fields
    <3>2. mem'[page(v)] = "zero" /\ img'[cur][v] = "zero"
      BY <1>1, <1>7, <1>10, <1>11, <2>1
    <3> QED BY <1>7, <2>1, <3>1, <3>2 DEF FreshEntry, Present
  <2> QED BY <1>9, <1>10, <1>11, <2>1
<1>14. \A v, w \in Virt :
         tab[v].phys \in Frames /\ tab[v].phys = tab[w].phys /\ bump < tab[v].phys => v = w
  <2>1. ASSUME NEW v \in Virt, tab[v].phys \in Frames, bump < tab[v].phys
        PROVE  hit(v) /\ tab[v].phys = page(v)
    <3>1. pt[cur][v].phys \in Frames => pt[cur][v].phys <= bump
      BY CurTypes DEF Inv, SharingInv, EntriesSound
    <3>2. tab[v].phys \in Nat
      BY <2>1, Layout
    <3>3. hit(v)
      BY <1>2, <1>9, <2>1, <3>1, <3>2
    <3> QED BY <1>9, <3>3, Fields
  <2> QED BY <1>8, <2>1
<1>15. /\ pt' \in [Tasks -> [Virt -> Entries]]
       /\ SharedIsReadOnly' /\ EntriesSound' /\ PrivateUnlessBypassed'
       /\ \A p \in Frames : CowMaps(p)' \subseteq CowMaps(p)
  <2>1. \A t \in live : t # cur => img'[t] = img[t]
    BY <1>11
  <2>2. \A p \in Frames : p <= bump => mem'[p] = mem[p]
    BY <1>12
  <2> QED BY <1>1, <1>6, <1>9, <1>13, <1>14, <2>1, <2>2, Remap
<1>16. RefsCover'
  BY <1>1, <1>15, FewerCovered
<1>17. /\ tlb' \in [Virt -> Entries]
       /\ \A v \in Virt : tlb'[v] = IF hit(v) THEN Absent ELSE tlb[v]
  <2>1. \A v \in Virt : (IF hit(v) THEN Absent ELSE tlb[v]) \in Entries
    BY Fields, CurTypes
  <2> QED BY <1>1, <2>1
<1>18. TypeOK'
  BY <1>1, <1>4, <1>6, <1>11, <1>12, <1>15, <1>17 DEF Inv, SharingInv, TypeOK, H
<1>19. TlbSound'
  <2>1. pt'[cur] = tab
    BY <1>1, CurTypes
  <2>2. ASSUME NEW v \in Virt, Present(tlb'[v]) PROVE tlb'[v].rw /\ tlb'[v].phys = tab[v].phys
    <3>1. ~hit(v)
      BY <1>17, <2>2, Fields DEF Present
    <3> QED BY <1>9, <1>17, <2>2, <3>1 DEF Inv, SharingInv, TlbSound, Present
  <2> QED BY <1>1, <2>1, <2>2 DEF TlbSound, Present
<1>20. RegionsKept' /\ FaultsResolved'
  BY <1>1 DEF Inv, SharingInv, RegionsKept, FaultsResolved
<1> QED BY <1>15, <1>16, <1>18, <1>19, <1>20 DEF Inv, SharingInv

-----------------------------------------------------------------------------

LEMMA NextInv == Inv /\ [Next]_vars => Inv'
<1> SUFFICES ASSUME Inv, [Next]_vars PROVE Inv'
  OBVIOUS
<1>1. CASE Exec \/ ExecBad \/ Fork
  BY <1>1, ExecInv, ExecBadInv, ForkInv
<1>2. CASE \E n \in {-2, -1, 1, 3} : Sbrk(n)
  BY <1>2, SbrkInv
<1>3. CASE \E v \in Virt : Write(v) \/ KernelWrite(v) \/ Fault(v) \/ Evict(v)
  BY <1>3, WriteInv, FaultInv, EvictInv
<1>4. CASE \E t \in Tasks : Switch(t)
  BY <1>4, SwitchInv
<1>5. CASE UNCHANGED vars
  <2>1. UNCHANGED <<bump, ref, pt, regions, brk, live, cur, tlb, mem, cpu, img, bypass, lost>>
    BY <1>5 DEF vars, kernel, hist
  <2> QED BY <2>1 DEF Inv, SharingInv, TypeOK, RefsCover, CowMaps, SharedIsReadOnly, EntriesSound,
          TlbSound, RegionsKept, PrivateUnlessBypassed, FaultsResolved
<1> QED BY <1>1, <1>2, <1>3, <1>4, <1>5 DEF Next

(* The sharing of pages by fork is sound: the references of a page cover   *)
(* the entries that share it, what two entries map is writable in neither, *)
(* and the processor keeps no translation to another page (paging_cow_-    *)
(* clone_user, paging_handle_cow_fault and paging_handle_demand_fault of   *)
(* memory.c, for any number of pages and tasks).                           *)
THEOREM SharingSound == Spec => []SharingInv
<1>1. Inv => SharingInv
  BY DEF Inv
<1> QED BY <1>1, InitInv, NextInv, PTL DEF Spec

(* In the pages of the allocator every task finds what it wrote or was     *)
(* started with, whatever the others do, until a write of the kernel or    *)
(* through a stale translation goes past the write protection.             *)
THEOREM MemoryIsPrivate == Spec => []PrivateUnlessBypassed
<1>1. Inv => PrivateUnlessBypassed
  BY DEF Inv
<1> QED BY <1>1, InitInv, NextInv, PTL DEF Spec

(* page_fault_handler stops the machine only when the allocator is empty   *)
(* or exec has forgotten the regions of the running task.                  *)
THEOREM FaultsAreResolved == Spec => []FaultsResolved
<1>1. Inv => FaultsResolved
  BY DEF Inv
<1> QED BY <1>1, InitInv, NextInv, PTL DEF Spec

=============================================================================
