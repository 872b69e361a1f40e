------------------------------ MODULE BootMem ------------------------------
(***************************************************************************)
(* mem_init (tps/kern/pmap.c): from the kernel image alone to a list of    *)
(* free pages and the kernel's page directory.  Until that is loaded only  *)
(* the first LOW pages (4 MB, entry_pgdir) can be touched.                 *)
(*                                                                         *)
(* Addresses count pages.  The virtual ones begin at UENVS, one page table *)
(* (NENT entries) each for UENVS, UPAGES, UVPT, MMIO and the stacks, KT    *)
(* tables for the memory at KERNBASE.                                      *)
(***************************************************************************)
EXTENDS Integers, Sequences, FiniteSets, Functions

CONSTANTS
  Sizes,        \* the amounts of memory to look at, in pages (npages)
  MPENTRY,      \* MPENTRY_PADDR, which page_init knows as 7
  IOPHYSMEM, EXTPHYSMEM, KEND,   \* the hole; the kernel image EXTPHYSMEM..KEND-1
  LOW, NENT, KT,
  PERPAGE,      \* struct PageInfo that fit in a page
  ENVPAGES,     \* pages of the envs array
  NCPU, KSTKSIZE, KSTKGAP

ASSUME BootMemAssumption ==
  /\ {MPENTRY, IOPHYSMEM, EXTPHYSMEM, KEND, LOW, NENT, KT, PERPAGE, ENVPAGES,
      NCPU, KSTKSIZE, KSTKGAP} \subseteq Nat \ {0}
  /\ Sizes \subseteq 1..(KT * NENT)           \* all memory fits at KERNBASE
  /\ MPENTRY < IOPHYSMEM /\ IOPHYSMEM < EXTPHYSMEM /\ EXTPHYSMEM < KEND
  /\ NCPU * (KSTKSIZE + KSTKGAP) <= NENT /\ ENVPAGES <= NENT
  /\ NCPU * KSTKSIZE <= KEND - EXTPHYSMEM
  /\ NENT >= 3                               \* check_page maps three devices
  /\ IOPHYSMEM - 2 >= KT + 4                 \* base memory holds the page tables
  /\ \A n \in Sizes : (n \div PERPAGE) + 1 <= NENT       \* `pages` fits at UPAGES
  /\ \A n \in Sizes : KEND + 1 + (n \div PERPAGE) + 1 + ENVPAGES <= LOW

VARIABLES
  at,           \* how far mem_init has got
  npages,
  pse,          \* compiled with TP1_PSE
  nextfree,     \* boot_alloc's static
  boot,         \* pages handed out by boot_alloc: what |-> set of pages
  freelist,     \* page_free_list
  pgdir,        \* page directory: tables, by number
  pte,          \* what every virtual page is mapped to
  touched,      \* (observer) pages written so far
  mmio          \* mmio_map_region's static `base`

bootVars == <<at, npages, pse, nextfree, boot, freelist, pgdir, pte, touched, mmio>>

UENVS == 0
UPAGES == NENT
UVPT == 2
MMIOBASE == 3 * NENT
MMIOLIM == 4 * NENT
KSTACKTOP == 5 * NENT
KERNBASE == KSTACKTOP
Tables == 0..(4 + KT)
Vas == 0..((5 + KT) * NENT - 1)
entry_pgdir == 0..(LOW - 1)
None == -1
Large == -2       \* a PTE_PS entry: no table
Self == -3        \* the directory in itself
Pages(from, n) == from..(from + n - 1)
RoundUp(n, k) == (n + k - 1) \div k
InfoPages == RoundUp(npages, PERPAGE)
\* bootstack and percpu_kstacks[i] lie in the kernel image.
Stack(i) == EXTPHYSMEM + i * KSTKSIZE

-----------------------------------------------------------------------------
(* Before there is a free list *)

\* Mutant of boot_alloc: the next page is not rounded up, and the last, partly
\* used one is given out again.
boot_alloc_floor(what, n, next) ==
  IF nextfree > npages
  THEN at' = "panic" /\ UNCHANGED <<nextfree, boot, touched>>
  ELSE /\ nextfree' = nextfree + n - 1
       /\ boot' = [boot EXCEPT ![what] = Pages(nextfree, n)]
       /\ touched' = touched \cup Pages(nextfree, n)
       /\ at' = next

\* boot_alloc and the memset of its callers.  The check looks at what has been
\* given out before, not at this request.
boot_alloc(what, n, next) ==
  IF nextfree > npages
  THEN at' = "panic" /\ UNCHANGED <<nextfree, boot, touched>>
  ELSE /\ nextfree' = nextfree + n
       /\ boot' = [boot EXCEPT ![what] = Pages(nextfree, n)]
       /\ touched' = touched \cup Pages(nextfree, n)
       /\ at' = next

alloc_pgdir ==
  /\ at = "start"
  /\ boot_alloc("pgdir", 1, "pages")
  /\ pgdir' = [pgdir EXCEPT ![UVPT] = Self]
  /\ UNCHANGED <<npages, pse, freelist, pte, mmio>>

alloc_pages ==
  /\ at = "pages"
  /\ boot_alloc("pages", InfoPages, "envs")
  /\ UNCHANGED <<npages, pse, freelist, pgdir, pte, mmio>>

alloc_envs ==
  /\ at = "envs"
  /\ boot_alloc("envs", ENVPAGES, "init")
  /\ UNCHANGED <<npages, pse, freelist, pgdir, pte, mmio>>

\* The pages of a list that are in S, in their order.
keep_next(a, p, S) == IF p \in S THEN Append(a, p) ELSE a
Keep(s, S) ==
  LET t[k \in 0..Len(s)] == IF k = 0 THEN <<>> ELSE keep_next(t[k - 1], s[k], S)
  IN t[Len(s)]

\* page_init: the list is in the order of the addresses.
FreePages(n) == {p \in 1..(n - 1) : ~(p >= IOPHYSMEM /\ p < nextfree) /\ p # MPENTRY}
page_init ==
  /\ at = "init"
  /\ IF nextfree > npages
     THEN at' = "panic" /\ UNCHANGED freelist
     ELSE /\ at' = "check"
          /\ freelist' = Keep([k \in 1..(npages - 1) |-> k], FreePages(npages))
  /\ UNCHANGED <<npages, pse, nextfree, boot, pgdir, pte, touched, mmio>>

\* check_page_free_list(1): low pages to the front, and scribbled on; there
\* have to be some below the hole and some above the kernel.
check_page_free_list ==
  /\ at = "check"
  /\ LET low == Keep(freelist, entry_pgdir)
         high == Keep(freelist, LOW..(npages - 1))
         base == \E p \in Range(freelist) : p < EXTPHYSMEM
         ext == \E p \in Range(freelist) : p >= EXTPHYSMEM
     IN /\ freelist' = low \o high
        /\ touched' = touched \cup Range(low)
        /\ at' = IF base /\ ext THEN "check_alloc" ELSE "panic"
  /\ UNCHANGED <<npages, pse, nextfree, boot, pgdir, pte, mmio>>

\* check_page_alloc takes three pages, and puts them back in the order in which
\* they were; between, it scribbles on the third.
check_page_alloc ==
  /\ at = "check_alloc"
  /\ IF Len(freelist) < 3
     THEN at' = "panic" /\ UNCHANGED touched
     ELSE at' = "check_page" /\ touched' = touched \cup {freelist[3]}
  /\ UNCHANGED <<npages, pse, nextfree, boot, freelist, pgdir, pte, mmio>>

-----------------------------------------------------------------------------
(* Mappings *)

\* pgdir_walk(create) for page va of map m: a new table is the first free page,
\* cleared; without one there is no entry.
pgdir_walk(m, va) ==
  IF m.pgdir[va \div NENT] # None \/ m.free = <<>> THEN m
  ELSE [m EXCEPT !.pgdir[va \div NENT] = Head(m.free), !.free = Tail(m.free),
                 !.touched = @ \cup {Head(m.free)}]

\* boot_map_region, page by page.  A page without an entry is left out
\* silently.  With TP1_PSE an aligned piece of a whole table is one entry of
\* the directory.
Aligned(va, size, pa, i) ==
  LET first == i - ((va + i) % NENT)     \* of its table
  IN first >= 0 /\ (pa + first) % NENT = 0 /\ size - first >= NENT
map_dir(m, va, size, pa, i) ==
  IF pse /\ Aligned(va, size, pa, i) THEN [m EXCEPT !.pgdir[(va + i) \div NENT] = Large]
  ELSE pgdir_walk(m, va + i)
map_pte(w, v, p) == IF w.pgdir[v \div NENT] = None THEN w ELSE [w EXCEPT !.pte[v] = p]
map_next(m, va, size, pa, i) == map_pte(map_dir(m, va, size, pa, i), va + i, pa + i)
boot_map_region(m, va, size, pa) ==
  LET t[k \in 0..size] == IF k = 0 THEN m ELSE map_next(t[k - 1], va, size, pa, k - 1)
  IN t[size]

Map == [pgdir |-> pgdir, free |-> freelist, pte |-> pte, touched |-> touched]
Install(m) ==
  /\ pgdir' = m.pgdir /\ freelist' = m.free /\ pte' = m.pte /\ touched' = m.touched
  /\ UNCHANGED <<npages, pse, nextfree, boot>>
First(what) == CHOOSE p \in boot[what] : \A q \in boot[what] : p <= q

\* check_page takes three pages too and puts them back in reverse; it also
\* tries mmio_map_region (two pages, one page), removes the mappings, and
\* leaves their table behind.
Turned(s) == [i \in 1..Len(s) |-> IF i <= 3 THEN s[4 - i] ELSE s[i]]
check_page ==
  LET m == boot_map_region([Map EXCEPT !.free = Turned(@)], mmio, 3, 0)
  IN /\ at = "check_page"
     /\ Install([m EXCEPT !.pte = pte])
     /\ mmio' = mmio + 3
     /\ at' = "upages"

map_pages ==
  /\ at = "upages" /\ at' = "uenvs"
  /\ Install(boot_map_region(Map, UPAGES, InfoPages, First("pages")))
  /\ UNCHANGED mmio

map_envs ==
  /\ at = "uenvs" /\ at' = "kstack"
  /\ Install(boot_map_region(Map, UENVS, ENVPAGES, First("envs")))
  /\ UNCHANGED mmio

\* The stack of the first processor, which mem_init_mp maps once more.
map_bootstack ==
  /\ at = "kstack" /\ at' = "kernbase"
  /\ Install(boot_map_region(Map, KSTACKTOP - KSTKSIZE, KSTKSIZE, Stack(0)))
  /\ UNCHANGED mmio

map_kernbase ==
  /\ at = "kernbase" /\ at' = "mp"
  /\ Install(boot_map_region(Map, KERNBASE, KT * NENT, 0))
  /\ UNCHANGED mmio

StackTop(i) == KSTACKTOP - i * (KSTKSIZE + KSTKGAP)
map_stack(m, i) == boot_map_region(m, StackTop(i) - KSTKSIZE, KSTKSIZE, Stack(i))
map_stacks(m) ==
  LET t[k \in 0..NCPU] == IF k = 0 THEN m ELSE map_stack(t[k - 1], k - 1)
  IN t[NCPU]
mem_init_mp ==
  /\ at = "mp" /\ at' = "lcr3"
  /\ Install(map_stacks(Map))
  /\ UNCHANGED mmio

\* What check_kern_pgdir asserts: the arrays, the memory, the stacks and the
\* gaps between them are mapped as they should be, and where.
check_kern_pgdir ==
  /\ \A i \in 0..(InfoPages - 1) : pte[UPAGES + i] = First("pages") + i
  /\ \A i \in 0..(ENVPAGES - 1) : pte[UENVS + i] = First("envs") + i
  /\ \A i \in 0..(npages - 1) : pte[KERNBASE + i] = i
  /\ \A c \in 0..(NCPU - 1) :
       /\ \A i \in 0..(KSTKSIZE - 1) : pte[StackTop(c) - KSTKSIZE + i] = Stack(c) + i
       /\ \A i \in 1..KSTKGAP : pte[StackTop(c) - KSTKSIZE - i] = None
  /\ \A t \in Tables : pgdir[t] # None
  /\ pse => \A t \in (KERNBASE \div NENT)..(4 + KT) : pgdir[t] = Large

\* The new directory is loaded.  From here on any page may be touched, and
\* `touched` is closed.
lcr3 ==
  /\ at = "lcr3"
  /\ at' = IF check_kern_pgdir THEN "done" ELSE "panic"
  /\ UNCHANGED <<npages, pse, nextfree, boot, freelist, pgdir, pte, touched, mmio>>

\* mmio_map_region for lapic_init, which every processor calls.
Device == KT * NENT
mmio_map_region ==
  /\ at = "done" /\ mmio < MMIOBASE + 3 + NCPU
  /\ IF mmio + 1 > MMIOLIM
     THEN at' = "panic" /\ UNCHANGED <<npages, pse, nextfree, boot, freelist, pgdir,
                                       pte, touched, mmio>>
     ELSE /\ Install([boot_map_region(Map, mmio, 1, Device) EXCEPT !.touched = touched])
          /\ mmio' = mmio + 1
          /\ UNCHANGED at

BootInit ==
  /\ at = "start"
  /\ npages \in Sizes /\ pse \in BOOLEAN
  /\ nextfree = KEND
  /\ boot = [w \in {"pgdir", "pages", "envs"} |-> {}]
  /\ freelist = <<>>
  /\ pgdir = [t \in Tables |-> None]
  /\ pte = [va \in Vas |-> None]
  /\ touched = {}
  /\ mmio = MMIOBASE

BootNext ==
  \/ alloc_pgdir \/ alloc_pages \/ alloc_envs \/ page_init \/ check_page_free_list
  \/ check_page_alloc \/ check_page \/ map_pages \/ map_envs \/ map_bootstack \/ map_kernbase \/ mem_init_mp \/ lcr3
  \/ mmio_map_region

-----------------------------------------------------------------------------
(* Properties *)

InUse ==
  {0, MPENTRY} \cup (IOPHYSMEM..(KEND - 1))
    \cup boot["pgdir"] \cup boot["pages"] \cup boot["envs"]
    \cup ({pgdir[t] : t \in Tables} \ {None, Large, Self})

\* Whatever the size of the memory: no page that is in use (the first one, the
\* entry code of the other processors, the hole, the kernel, what boot_alloc
\* has given out, page tables) is on the free list, nothing is in use twice,
\* all of it is memory that exists; only what entry_pgdir maps is touched
\* before the new directory is loaded; and if memory has not run out by then,
\* check_kern_pgdir finds nothing wrong with it.
BootMemorySafe ==
  /\ at \notin {"start", "pages", "envs", "init", "panic"} =>
       /\ \A p \in Range(freelist) : p \in 0..(npages - 1) /\ p \notin InUse
       /\ IsInjective(freelist)
       /\ Cardinality(boot["pgdir"] \cup boot["pages"] \cup boot["envs"])
            = 1 + InfoPages + ENVPAGES
       /\ boot["pgdir"] \cup boot["pages"] \cup boot["envs"] \subseteq KEND..(npages - 1)
       /\ \A t, u \in Tables : pgdir[t] >= 0 /\ t # u => pgdir[t] # pgdir[u]
  /\ touched \subseteq entry_pgdir
  /\ at = "lcr3" /\ freelist # <<>> => check_kern_pgdir
=============================================================================
