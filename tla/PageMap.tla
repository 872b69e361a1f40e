------------------------------- MODULE PageMap -------------------------------
(***************************************************************************)
(* Physical pages and address spaces of the JOS kernel (tps/kern/pmap.c),  *)
(* and the system calls that change them (tps/kern/syscall.c, env.c).      *)
(* Everything here runs under the big kernel lock: one action is one       *)
(* system call.                                                            *)
(*                                                                         *)
(* All the places that hold a reference to a page form one function,       *)
(* `entry': env_pgdir of an environment, an entry of a page directory (a   *)
(* page table) and an entry of a page table (a user mapping).  The free    *)
(* list is kept as a set: page_alloc may return any of its pages.          *)
(***************************************************************************)
EXTENDS Integers, FiniteSets

CONSTANTS
  Frames,     \* the pages that page_init puts on the free list
  PAGE0,      \* physical page 0, which it leaves out
  NoPage,     \* an entry that is 0, a pointer that is NULL
  Spaces,     \* the environments
  Dirs, Ents, \* indices of page directories and of page tables
  Self,       \* marks the directory itself, and a table itself
  REFMOD,     \* pp_ref is a uint16_t: 65536
  Unmapped    \* TRUE: calls also name addresses where nothing is mapped, as
              \* fd_close does after devpipe_close (lib/fd.c:117)

ASSUME PageMapAssumption ==
  /\ PAGE0 \notin Frames
  /\ NoPage \notin Frames \cup {PAGE0}
  /\ Self \notin Dirs \cup Ents
  /\ REFMOD \in Nat \ {0, 1}
  /\ Unmapped \in BOOLEAN
  /\ IsFiniteSet(Spaces) /\ IsFiniteSet(Dirs) /\ IsFiniteSet(Ents)

Pages == Frames \cup {PAGE0}
Vas == Dirs \X Ents                \* user addresses below UTOP, by page

\* Where a reference to a page is kept.
DirSite(s) == <<s, Self, Self>>
PtSite(s, d) == <<s, d, Self>>
PteSite(s, va) == <<s, va[1], va[2]>>
DirSites == {DirSite(s) : s \in Spaces}
PtSites == {PtSite(s, d) : s \in Spaces, d \in Dirs}
PteSites == Spaces \X Dirs \X Ents
Sites == DirSites \cup PtSites \cup PteSites

VARIABLE
  mem         \* [ref: pp_ref, free: page_free_list, entry, w: PTE_W of the
              \* mappings, bad: page_free has been given a free page]

Memories ==
  [ref : [Pages -> 0..(REFMOD - 1)], free : SUBSET Pages,
   entry : [Sites -> Pages \cup {NoPage}], w : [PteSites -> BOOLEAN],
   bad : BOOLEAN]

-----------------------------------------------------------------------------
(* pmap.c, as functions from a memory to a memory *)

\* pp_ref++ and pp_ref--.
incref(m, p) == [m EXCEPT !.ref[p] = (@ + 1) % REFMOD]
decref(m, p) == [m EXCEPT !.ref[p] = (@ - 1) % REFMOD]

\* page_free: a page that still has references or a successor on the list
\* makes it panic; the last page of the list would be linked twice, unnoticed.
page_free(m, p) ==
  IF m.ref[p] # 0 \/ p \in m.free
  THEN [m EXCEPT !.bad = TRUE]
  ELSE [m EXCEPT !.free = @ \cup {p}]

\* Mutant of page_decref: it never frees.
page_decref_leaks(m, p) == decref(m, p)

page_decref(m, p) ==
  LET n == decref(m, p) IN IF n.ref[p] = 0 THEN page_free(n, p) ELSE n

\* pgdir_walk with create, when page g of the free list becomes the table.
pgdir_walk(m, s, d, g) ==
  IF m.entry[PtSite(s, d)] # NoPage
  THEN m
  ELSE incref([m EXCEPT !.free = @ \ {g}, !.entry[PtSite(s, d)] = g], g)

\* page_lookup: NULL only if there is no page table.  An entry that is 0 is
\* read as a reference to physical page 0.
page_lookup(m, s, va) ==
  IF m.entry[PtSite(s, va[1])] = NoPage THEN NoPage
  ELSE IF m.entry[PteSite(s, va)] = NoPage THEN PAGE0
  ELSE m.entry[PteSite(s, va)]

\* page_remove; the TLB is not part of this module.
page_remove(m, s, va) ==
  LET p == page_lookup(m, s, va)
  IN IF p = NoPage THEN m
     ELSE [page_decref(m, p) EXCEPT !.entry[PteSite(s, va)] = NoPage,
                                    !.w[PteSite(s, va)] = FALSE]

\* Mutant of page_insert: the old mapping is removed first.
page_insert_late(m, s, p, va, w) ==
  LET r == IF m.entry[PteSite(s, va)] # NoPage THEN page_remove(m, s, va) ELSE m
  IN [incref(r, p) EXCEPT !.entry[PteSite(s, va)] = p, !.w[PteSite(s, va)] = w]

\* page_insert after the walk: the reference is counted before the old mapping
\* is removed.
page_insert(m, s, p, va, w) ==
  LET n == incref(m, p)
      r == IF n.entry[PteSite(s, va)] # NoPage THEN page_remove(n, s, va) ELSE n
  IN [r EXCEPT !.entry[PteSite(s, va)] = p, !.w[PteSite(s, va)] = w]

-----------------------------------------------------------------------------
(* System calls *)

Exists(s) == mem.entry[DirSite(s)] # NoPage
Mapped(s, va) == mem.entry[PteSite(s, va)] # NoPage

\* What pgdir_walk may leave of memory m: unchanged if the table is there,
\* with a new table otherwise; empty if no page is left for it.
Walks(m, s, d) ==
  IF m.entry[PtSite(s, d)] # NoPage THEN {m}
  ELSE {pgdir_walk(m, s, d, g) : g \in m.free}

Init ==
  mem = [ref |-> [p \in Pages |-> 0], free |-> Frames,
         entry |-> [x \in Sites |-> NoPage],
         w |-> [x \in PteSites |-> FALSE], bad |-> FALSE]

\* Mutant of env_setup_vm: the directory's reference is not counted.
env_setup_vm_uncounted(s) ==
  /\ ~Exists(s)
  /\ \E f \in mem.free :
       mem' = [mem EXCEPT !.free = @ \ {f}, !.entry[DirSite(s)] = f]

\* env_alloc's env_setup_vm.
env_setup_vm(s) ==
  /\ ~Exists(s)
  /\ \E f \in mem.free :
       mem' = incref([mem EXCEPT !.free = @ \ {f}, !.entry[DirSite(s)] = f], f)

\* Mutant of sys_page_alloc: the page is lost when there is no table for it.
sys_page_alloc_leaks(s, va, w) ==
  /\ Exists(s)
  /\ \E f \in mem.free :
       LET m == [mem EXCEPT !.free = @ \ {f}]
       IN IF Walks(m, s, va[1]) = {}
          THEN mem' = m
          ELSE \E n \in Walks(m, s, va[1]) : mem' = page_insert(n, s, f, va, w)

\* sys_page_alloc (and region_alloc): the page is given back when there is no
\* memory for the page table.
sys_page_alloc(s, va, w) ==
  /\ Exists(s)
  /\ \E f \in mem.free :
       LET m == [mem EXCEPT !.free = @ \ {f}]
       IN IF Walks(m, s, va[1]) = {}
          THEN mem' = page_free(m, f)
          ELSE \E n \in Walks(m, s, va[1]) : mem' = page_insert(n, s, f, va, w)

\* Mutant of sys_page_map: PTE_W is not checked.
sys_page_map_writes(s, srcva, d, dstva, w) ==
  /\ Exists(s) /\ Exists(d)
  /\ Unmapped \/ Mapped(s, srcva)
  /\ LET p == page_lookup(mem, s, srcva)
     IN /\ p # NoPage
        /\ \E n \in Walks(mem, d, dstva[1]) : mem' = page_insert(n, d, p, dstva, w)

\* sys_page_map, and the page that sys_ipc_try_send transfers.
sys_page_map(s, srcva, d, dstva, w) ==
  /\ Exists(s) /\ Exists(d)
  /\ Unmapped \/ Mapped(s, srcva)
  /\ LET p == page_lookup(mem, s, srcva)
     IN /\ p # NoPage
        /\ w => mem.w[PteSite(s, srcva)]
        /\ \E n \in Walks(mem, d, dstva[1]) : mem' = page_insert(n, d, p, dstva, w)

sys_page_unmap(s, va) ==
  /\ Exists(s)
  /\ Unmapped \/ Mapped(s, va)
  /\ mem' = page_remove(mem, s, va)

SitesOf(s) == {x \in Sites : x[1] = s}

\* env_free: page_remove of every mapping, page_decref of every table and of
\* the directory.  The loop only counts down, so that its order does not matter.
env_free(s) ==
  /\ Exists(s)
  /\ LET lost(p) == Cardinality({x \in SitesOf(s) : mem.entry[x] = p})
         freed == {p \in Pages :
                     \E k \in 1..lost(p) : (mem.ref[p] - k) % REFMOD = 0}
     IN mem' = [ref   |-> [p \in Pages |-> (mem.ref[p] - lost(p)) % REFMOD],
                free  |-> mem.free \cup freed,
                entry |-> [x \in Sites |-> IF x[1] = s THEN NoPage ELSE mem.entry[x]],
                w     |-> [x \in PteSites |-> IF x[1] = s THEN FALSE ELSE mem.w[x]],
                bad   |-> mem.bad \/ freed \cap mem.free # {}]

Next ==
  \/ \E s \in Spaces :
       \/ env_setup_vm(s)
       \/ env_free(s)
       \/ \E va \in Vas, w \in BOOLEAN : sys_page_alloc(s, va, w)
       \/ \E va \in Vas : sys_page_unmap(s, va)
  \/ \E s, d \in Spaces, srcva, dstva \in Vas, w \in BOOLEAN :
       sys_page_map(s, srcva, d, dstva, w)

Spec == Init /\ [][Next]_mem

-----------------------------------------------------------------------------
(* Properties *)

\* Every entry holds a page or nothing, every count fits in pp_ref.
TypeOK == mem \in Memories

Uses(p) == {x \in Sites : mem.entry[x] = p}

\* pp_ref is the number of references that page directories and page tables
\* hold (inc/memlayout.h:182), whatever the order of maps, remaps and frees;
\* page_free has never been called for a page that is on the list already.
RefExact == ~mem.bad /\ \A p \in Frames : mem.ref[p] = Cardinality(Uses(p))

\* A page is on the free list exactly when nothing refers to it: none is used
\* after it is freed (page_insert, env_free), none leaks on an error path
\* (sys_page_alloc).
FreeExact == \A p \in Frames : p \in mem.free <=> Uses(p) = {}

\* A page that serves as a page directory or page table has that one use: no
\* sequence of system calls gives a user a mapping of its own page tables.
\* Mappings live in tables that exist, in directories that exist.
TablesArePrivate ==
  /\ \A x \in DirSites \cup PtSites :
       mem.entry[x] # NoPage => Uses(mem.entry[x]) = {x}
  /\ \A s \in Spaces, d \in Dirs :
       /\ mem.entry[PtSite(s, d)] # NoPage => Exists(s)
       /\ \A t \in Ents : Mapped(s, <<d, t>>) => mem.entry[PtSite(s, d)] # NoPage

Writable(p) == \E x \in PteSites : mem.entry[x] = p /\ mem.w[x]

\* A page that nobody can write, and that stays in use, does not become
\* writable: sys_page_map never adds PTE_W (syscall.c:235).
ReadOnlyStays ==
  [][\A p \in Frames :
       Uses(p) # {} /\ ~Writable(p) => ~Writable(p)' \/ Uses(p)' = {}]_mem

\* No environment maps physical page 0, which page_init marks as in use.
Page0NotMapped == Uses(PAGE0) = {}

\* No page on the free list is mapped, also when pp_ref is close to its limit.
FreeNotMapped == \A p \in Frames \cap mem.free : Uses(p) = {}
=============================================================================
