--------------------------- MODULE PageMap_proofs ---------------------------
(***************************************************************************)
(* Theorems about PageMap, for any number of pages, address spaces, page   *)
(* directories and tables, and any width of pp_ref, along the behaviours   *)
(* in which no page collects so many references that pp_ref wraps.         *)
(*                                                                         *)
(* The functions of pmap.c count a reference and store it in two steps.    *)
(* In between, the kernel itself holds the page; the accounts below are    *)
(* exact at every moment because they name the page that is held.          *)
(***************************************************************************)
EXTENDS PageMap, FiniteSetTheorems, TLAPS

\* The places that refer to page p in memory m.
UsesIn(m, p) == {x \in Sites : m.entry[x] = p}

\* The accounts of the frames.  `h' has been counted and not stored yet, `t'
\* has been taken off the free list and not counted yet (NoPage: there is none).
Account(m, h, t) ==
  /\ m \in Memories
  /\ \A q \in Frames :
       m.ref[q] = Cardinality(UsesIn(m, q)) + (IF q = h THEN 1 ELSE 0)
  /\ \A q \in Frames :
       q \in m.free <=> UsesIn(m, q) = {} /\ q # h /\ q # t

\* Mappings live in tables that exist, tables in directories that exist.
Rooted(m) ==
  \A s \in Spaces, d \in Dirs :
    /\ m.entry[PtSite(s, d)] # NoPage => m.entry[DirSite(s)] # NoPage
    /\ \A t \in Ents :
         m.entry[PteSite(s, <<d, t>>)] # NoPage => m.entry[PtSite(s, d)] # NoPage

\* Page directories and page tables have one use.
Private(m) ==
  \A x \in DirSites \cup PtSites :
    m.entry[x] # NoPage => UsesIn(m, m.entry[x]) = {x}

\* Page 0 stays out of the game, and page_free has never been misused.
Clean(m) ==
  /\ ~m.bad
  /\ m.free \subseteq Frames
  /\ \A x \in Sites : m.entry[x] # PAGE0

\* The inductive invariant.
IInv ==
  /\ Account(mem, NoPage, NoPage)
  /\ Rooted(mem)
  /\ ~Unmapped => Clean(mem) /\ Private(mem)

\* No page is used so often that one more reference makes pp_ref wrap.
RefsBelow == \A p \in Frames : Cardinality(Uses(p)) < REFMOD - 1

-----------------------------------------------------------------------------
(* Arithmetic and counting *)

\* pp_ref is not changed by the width of its type while it fits.
LEMMA ModLemma ==
  /\ \A a \in 0..(REFMOD - 1) : a % REFMOD = a
  /\ \A a \in Int : a % REFMOD \in 0..(REFMOD - 1)
PROOF BY PageMapAssumption

\* The three kinds of places are different, and all of them are sites.
LEMMA SiteFacts ==
  /\ \A s \in Spaces : DirSite(s) \in DirSites /\ DirSite(s) \in Sites
                       /\ DirSite(s) \notin PteSites
  /\ \A s \in Spaces, d \in Dirs : PtSite(s, d) \in PtSites /\ PtSite(s, d) \in Sites
                                   /\ PtSite(s, d) \notin PteSites
  /\ \A s \in Spaces, va \in Vas :
       /\ PteSite(s, va) \in PteSites /\ PteSite(s, va) \in Sites
       /\ PteSite(s, va) \notin DirSites \cup PtSites
  /\ PteSites \subseteq Sites /\ (DirSites \cup PtSites) \cap PteSites = {}
PROOF
  <1>1. \A s \in Spaces : DirSite(s) \in DirSites /\ DirSite(s) \notin PteSites
    BY PageMapAssumption DEF DirSites, DirSite, PteSites
  <1>2. \A s \in Spaces, d \in Dirs : PtSite(s, d) \in PtSites /\ PtSite(s, d) \notin PteSites
    BY PageMapAssumption DEF PtSites, PtSite, PteSites
  <1>3. \A s \in Spaces, va \in Vas : PteSite(s, va) \in PteSites
    BY DEF PteSite, PteSites, Vas
  <1>4. (DirSites \cup PtSites) \cap PteSites = {}
    BY <1>1, <1>2 DEF DirSites, PtSites
  <1> QED BY <1>1, <1>2, <1>3, <1>4 DEF Sites

\* There are finitely many places.
LEMMA SitesFinite == IsFiniteSet(Sites)
PROOF
  <1> DEFINE D == Dirs \cup {Self}
             E == Ents \cup {Self}
             T == (Spaces \X D) \X E
             f == [y \in T |-> <<y[1][1], y[1][2], y[2]>>]
             R == Spaces \X D \X E
  <1>1. IsFiniteSet(D) /\ IsFiniteSet(E) /\ IsFiniteSet(Spaces)
    BY PageMapAssumption, FS_AddElement
  <1>2. IsFiniteSet(Spaces \X D)
    BY <1>1, FS_Product
  <1>3. IsFiniteSet(T)
    BY <1>1, <1>2, FS_Product
  <1>4. f \in Surjection(T, R)
    <2>1. f \in [T -> R]
      OBVIOUS
    <2>2. ASSUME NEW z \in R PROVE \E y \in T : f[y] = z
      <3>1. <<<<z[1], z[2]>>, z[3]>> \in T /\ f[<<<<z[1], z[2]>>, z[3]>>] = z
        OBVIOUS
      <3> QED BY <3>1
    <2> QED BY <2>1, <2>2 DEF Surjection
  <1>5. IsFiniteSet(R)
    BY <1>3, <1>4, FS_Surjection
  <1>6. Sites \subseteq R
    BY DEF Sites, DirSites, PtSites, PteSites, DirSite, PtSite
  <1> QED BY <1>5, <1>6, FS_Subset

\* The uses of a page can be counted.
LEMMA UsesFinite ==
  ASSUME NEW m, NEW p
  PROVE  /\ IsFiniteSet(UsesIn(m, p)) /\ Cardinality(UsesIn(m, p)) \in Nat
         /\ Cardinality(UsesIn(m, p)) = 0 <=> UsesIn(m, p) = {}
PROOF
  <1>1. IsFiniteSet(UsesIn(m, p))
    BY SitesFinite, FS_Subset DEF UsesIn
  <1> QED BY <1>1, FS_CardinalityType, FS_EmptySet

\* Storing a page in an empty place adds one use of that page.
LEMMA CountAdd ==
  ASSUME NEW m \in Memories, NEW n \in Memories, NEW x \in Sites, NEW p \in Pages,
         m.entry[x] = NoPage, n.entry = [m.entry EXCEPT ![x] = p]
  PROVE  /\ UsesIn(n, p) = UsesIn(m, p) \cup {x}
         /\ Cardinality(UsesIn(n, p)) = Cardinality(UsesIn(m, p)) + 1
         /\ \A q \in Pages : q # p => UsesIn(n, q) = UsesIn(m, q)
PROOF
  <1>1. p # NoPage /\ \A q \in Pages : q # NoPage
    BY PageMapAssumption DEF Pages
  <1>2. UsesIn(n, p) = UsesIn(m, p) \cup {x}
    BY <1>1 DEF UsesIn, Memories
  <1>3. x \notin UsesIn(m, p)
    BY <1>1 DEF UsesIn
  <1>4. \A q \in Pages : q # p => UsesIn(n, q) = UsesIn(m, q)
    BY <1>1 DEF UsesIn, Memories
  <1> QED BY <1>2, <1>3, <1>4, UsesFinite, FS_AddElement

\* Clearing a place takes one use from the page that it held.
LEMMA CountDrop ==
  ASSUME NEW m \in Memories, NEW n \in Memories, NEW x \in Sites, NEW p \in Pages,
         m.entry[x] = p, n.entry = [m.entry EXCEPT ![x] = NoPage]
  PROVE  /\ UsesIn(n, p) = UsesIn(m, p) \ {x}
         /\ Cardinality(UsesIn(n, p)) = Cardinality(UsesIn(m, p)) - 1
         /\ \A q \in Pages : q # p => UsesIn(n, q) = UsesIn(m, q)
PROOF
  <1>1. p # NoPage /\ \A q \in Pages : q # NoPage
    BY PageMapAssumption DEF Pages
  <1>2. UsesIn(n, p) = UsesIn(m, p) \ {x}
    BY <1>1 DEF UsesIn, Memories
  <1>3. x \in UsesIn(m, p)
    BY <1>1 DEF UsesIn
  <1>4. \A q \in Pages : q # p => UsesIn(n, q) = UsesIn(m, q)
    BY <1>1 DEF UsesIn, Memories
  <1>5. IsFiniteSet(UsesIn(m, p))
    BY UsesFinite
  <1>6. Cardinality(UsesIn(m, p) \ {x}) = Cardinality(UsesIn(m, p)) - 1
    BY <1>3, <1>5, FS_RemoveElement
  <1> QED BY <1>2, <1>4, <1>6

-----------------------------------------------------------------------------
(* The functions of pmap.c *)

\* incref: counting the reference to a page that is in use, or that has just
\* been taken off the free list, changes nothing else.
LEMMA HoldLemma ==
  ASSUME NEW m, NEW t \in Pages \cup {NoPage}, NEW p \in Pages, Account(m, NoPage, t),
         t \in {NoPage, p},
         p \in Frames => p = t \/ UsesIn(m, p) # {},
         p \in Frames => Cardinality(UsesIn(m, p)) < REFMOD - 1
  PROVE  /\ Account(incref(m, p), p, NoPage)
         /\ incref(m, p).entry = m.entry /\ incref(m, p).w = m.w
         /\ incref(m, p).free = m.free /\ incref(m, p).bad = m.bad
PROOF
  <1> DEFINE n == incref(m, p)
  <1>1. m \in Memories
    BY DEF Account
  <1>2. /\ n.ref = [m.ref EXCEPT ![p] = (@ + 1) % REFMOD]
        /\ n.entry = m.entry /\ n.w = m.w /\ n.free = m.free /\ n.bad = m.bad
        /\ n \in Memories
    <2>1. m.ref[p] + 1 \in Int
      BY <1>1 DEF Memories
    <2>2. (m.ref[p] + 1) % REFMOD \in 0..(REFMOD - 1)
      BY <2>1, ModLemma
    <2> QED BY <1>1, <2>2 DEF incref, Memories
  <1>3. \A q : UsesIn(n, q) = UsesIn(m, q)
    BY <1>2 DEF UsesIn
  <1>4. p \in Frames => n.ref[p] = Cardinality(UsesIn(m, p)) + 1
    <2> SUFFICES ASSUME p \in Frames PROVE n.ref[p] = Cardinality(UsesIn(m, p)) + 1
      OBVIOUS
    <2>1. p # NoPage
      BY PageMapAssumption
    <2>2. m.ref[p] = Cardinality(UsesIn(m, p)) + 0
      BY <2>1 DEF Account
    <2>3. Cardinality(UsesIn(m, p)) \in Nat
      BY UsesFinite
    <2>4. m.ref[p] + 1 \in 0..(REFMOD - 1)
      BY <2>2, <2>3, PageMapAssumption
    <2> QED BY <1>1, <1>2, <2>2, <2>3, <2>4, ModLemma DEF Memories
  <1>5. \A q \in Frames : q # p => n.ref[q] = m.ref[q]
    BY <1>1, <1>2 DEF Memories, Pages
  <1>6. \A q \in Frames : q # NoPage
    BY PageMapAssumption
  <1> HIDE DEF n
  <1>7. \A q \in Frames :
          n.ref[q] = Cardinality(UsesIn(n, q)) + (IF q = p THEN 1 ELSE 0)
    BY <1>3, <1>4, <1>5, <1>6 DEF Account
  <1>8. \A q \in Frames :
          q \in n.free <=> UsesIn(n, q) = {} /\ q # p /\ q # NoPage
    BY <1>2, <1>3, <1>6 DEF Account
  <1>9. Account(n, p, NoPage)
    BY <1>2, <1>7, <1>8 DEF Account
  <1> QED BY <1>2, <1>9 DEF n

\* page_decref, and the clearing of the place x that held page p.
Dropped(m, x, p) == [page_decref(m, p) EXCEPT !.entry[x] = NoPage, !.w[x] = FALSE]

\* What page_remove does to the place that it clears: the page
\* is freed exactly when its last use goes, and not if the kernel holds it.
LEMMA DropLemma ==
  ASSUME NEW m, NEW h \in Pages \cup {NoPage}, Account(m, h, NoPage),
         NEW x \in PteSites, NEW p \in Pages,
         m.entry[x] = p \/ (p = PAGE0 /\ m.entry[x] = NoPage)
  PROVE  /\ Account(Dropped(m, x, p), h, NoPage)
         /\ Dropped(m, x, p).entry = [m.entry EXCEPT ![x] = NoPage]
         /\ Dropped(m, x, p).w = [m.w EXCEPT ![x] = FALSE]
         /\ p \in Frames => /\ Dropped(m, x, p).bad = m.bad
                            /\ Dropped(m, x, p).free \in {m.free, m.free \cup {p}}
PROOF
  <1> DEFINE k == decref(m, p)
             j == page_decref(m, p)
             n == [j EXCEPT !.entry[x] = NoPage, !.w[x] = FALSE]
  <1>0. m \in Memories /\ x \in Sites /\ NoPage \notin Pages /\ PAGE0 \notin Frames
    BY SiteFacts, PageMapAssumption DEF Account, Pages
  <1>1. /\ k.ref = [m.ref EXCEPT ![p] = (@ - 1) % REFMOD]
        /\ k.entry = m.entry /\ k.w = m.w /\ k.free = m.free /\ k.bad = m.bad
        /\ k \in Memories
    <2>1. m.ref[p] - 1 \in Int
      BY <1>0 DEF Memories
    <2>2. (m.ref[p] - 1) % REFMOD \in 0..(REFMOD - 1)
      BY <2>1, ModLemma
    <2> QED BY <1>0, <2>2 DEF decref, Memories
  <1>2. /\ j \in Memories /\ j.ref = k.ref /\ j.entry = m.entry /\ j.w = m.w
        /\ k.ref[p] # 0 => j.free = m.free /\ j.bad = m.bad
        /\ k.ref[p] = 0 /\ p \in m.free => j.free = m.free
        /\ k.ref[p] = 0 /\ p \notin m.free => j.free = m.free \cup {p} /\ j.bad = m.bad
    <2> HIDE DEF k
    <2> QED BY <1>1 DEF page_decref, page_free, Memories, k
  <1>3. /\ n.ref = k.ref /\ n.free = j.free /\ n.bad = j.bad
        /\ n.entry = [m.entry EXCEPT ![x] = NoPage]
        /\ n.w = [m.w EXCEPT ![x] = FALSE]
        /\ n \in Memories
    <2> HIDE DEF j
    <2> QED BY <1>0, <1>2 DEF Memories
  <1> HIDE DEF n, j, k
  <1>4. CASE p = PAGE0
    <2>1. \A q \in Frames : UsesIn(n, q) = UsesIn(m, q)
      BY <1>0, <1>3, <1>4 DEF UsesIn, Memories, Pages
    <2>2. \A q \in Frames : n.ref[q] = m.ref[q] /\ (q \in n.free <=> q \in m.free)
      BY <1>0, <1>1, <1>2, <1>3, <1>4 DEF Memories, Pages
    <2>3. Account(n, h, NoPage)
      BY <1>3, <2>1, <2>2 DEF Account
    <2> QED BY <1>0, <1>3, <1>4, <2>3 DEF n, j, Dropped
  <1>5. CASE p \in Frames
    <2>1. m.entry[x] = p
      BY <1>0, <1>5
    <2>2. /\ UsesIn(n, p) = UsesIn(m, p) \ {x}
          /\ Cardinality(UsesIn(n, p)) = Cardinality(UsesIn(m, p)) - 1
          /\ \A q \in Pages : q # p => UsesIn(n, q) = UsesIn(m, q)
      BY <1>0, <1>3, <2>1, CountDrop
    <2>3. /\ Cardinality(UsesIn(m, p)) \in Nat /\ Cardinality(UsesIn(n, p)) \in Nat
          /\ Cardinality(UsesIn(n, p)) = 0 <=> UsesIn(n, p) = {}
      BY UsesFinite
    <2>4. m.ref[p] \in 0..(REFMOD - 1)
          /\ m.ref[p] = Cardinality(UsesIn(m, p)) + (IF p = h THEN 1 ELSE 0)
      BY <1>0, <1>5 DEF Account, Memories
    <2>5. m.ref[p] - 1 = Cardinality(UsesIn(n, p)) + (IF p = h THEN 1 ELSE 0)
          /\ m.ref[p] - 1 \in 0..(REFMOD - 1)
      BY <2>2, <2>3, <2>4, PageMapAssumption
    <2>6. n.ref[p] = m.ref[p] - 1
      BY <1>0, <1>1, <1>3, <2>5, ModLemma DEF Memories
    <2>7. \A q \in Frames : q # p => n.ref[q] = m.ref[q]
      BY <1>0, <1>1, <1>3 DEF Memories, Pages
    <2>8. \A q \in Frames :
            n.ref[q] = Cardinality(UsesIn(n, q)) + (IF q = h THEN 1 ELSE 0)
      BY <2>2, <2>5, <2>6, <2>7 DEF Account, Pages
    <2>9. p \notin m.free
      BY <1>5, <2>1, <1>0 DEF Account, UsesIn
    <2>10. n.ref[p] = 0 <=> UsesIn(n, p) = {} /\ p # h
      <3>1. CASE p = h
        <4>1. n.ref[p] = Cardinality(UsesIn(n, p)) + 1
          BY <2>5, <2>6, <3>1
        <4> QED BY <2>3, <3>1, <4>1
      <3>2. CASE p # h
        <4>1. n.ref[p] = Cardinality(UsesIn(n, p))
          BY <2>3, <2>5, <2>6, <3>2
        <4> QED BY <2>3, <3>2, <4>1
      <3> QED BY <3>1, <3>2
    <2>11. n.bad = m.bad /\ n.free = (IF n.ref[p] = 0 THEN m.free \cup {p} ELSE m.free)
      BY <1>2, <1>3, <2>9
    <2>12. \A q \in Frames :
            q \in n.free <=> UsesIn(n, q) = {} /\ q # h /\ q # NoPage
      <3> SUFFICES ASSUME NEW q \in Frames
                   PROVE  q \in n.free <=> UsesIn(n, q) = {} /\ q # h /\ q # NoPage
        OBVIOUS
      <3>1. CASE q = p
        BY <3>1, <1>0, <2>9, <2>10, <2>11
      <3>2. CASE q # p
        BY <3>2, <2>2, <2>11 DEF Account, Pages
      <3> QED BY <3>1, <3>2
    <2>13. Account(n, h, NoPage)
      BY <1>3, <2>8, <2>12 DEF Account
    <2> QED BY <1>3, <2>11, <2>13 DEF n, j, Dropped
  <1> QED BY <1>4, <1>5 DEF Pages

\* page_remove of an address whose table exists if anything is mapped there.
LEMMA RemoveLemma ==
  ASSUME NEW m, NEW h \in Pages \cup {NoPage}, Account(m, h, NoPage),
         NEW s \in Spaces, NEW va \in Vas,
         m.entry[PteSite(s, va)] # NoPage => m.entry[PtSite(s, va[1])] # NoPage
  PROVE  LET n == page_remove(m, s, va)
             x == PteSite(s, va)
         IN  /\ Account(n, h, NoPage)
             /\ n.entry = [m.entry EXCEPT ![x] = NoPage]
             /\ n.w \in {m.w, [m.w EXCEPT ![x] = FALSE]}
             /\ m.entry[x] \in Frames /\ Clean(m) => Clean(n)
PROOF
  <1> DEFINE n == page_remove(m, s, va)
             x == PteSite(s, va)
             p == page_lookup(m, s, va)
  <1>0. m \in Memories /\ x \in Sites /\ x \in PteSites /\ PtSite(s, va[1]) \in Sites
        /\ NoPage \notin Pages /\ PAGE0 \in Pages /\ PAGE0 # NoPage /\ PAGE0 \notin Frames
    BY SiteFacts, PageMapAssumption DEF Account, Pages, Vas
  <1> HIDE DEF x
  <1>1. CASE m.entry[PtSite(s, va[1])] = NoPage
    <2>1. m.entry[x] = NoPage /\ n = m
      BY <1>1 DEF page_remove, page_lookup, x
    <2>2. m.entry = [m.entry EXCEPT ![x] = NoPage]
      BY <1>0, <2>1 DEF Memories
    <2> QED BY <2>1, <2>2 DEF x
  <1>2. CASE m.entry[PtSite(s, va[1])] # NoPage
    <2>1. /\ p \in Pages
          /\ m.entry[x] = p \/ (p = PAGE0 /\ m.entry[x] = NoPage)
          /\ m.entry[x] \in Frames => p = m.entry[x]
      BY <1>0, <1>2 DEF page_lookup, Memories, Pages, x
    <2>2. n = Dropped(m, x, p)
      BY <1>0, <2>1 DEF page_remove, x, Dropped
    <2> HIDE DEF n, p
    <2>3. /\ Account(n, h, NoPage)
          /\ n.entry = [m.entry EXCEPT ![x] = NoPage]
          /\ n.w = [m.w EXCEPT ![x] = FALSE]
          /\ p \in Frames => n.bad = m.bad /\ n.free \in {m.free, m.free \cup {p}}
      BY <1>0, <2>1, <2>2, DropLemma
    <2>4. m.entry[x] \in Frames /\ Clean(m) => Clean(n)
      BY <1>0, <2>1, <2>3 DEF Clean, Memories
    <2> QED BY <2>3, <2>4 DEF x, n
  <1> QED BY <1>1, <1>2

\* page_insert, with the table in place: the page that it replaces loses a use,
\* the new one gains it, and mapping a page again where it is already mapped
\* does not free it.
LEMMA InsertLemma ==
  ASSUME NEW m, NEW t \in Pages \cup {NoPage}, NEW p \in Pages, Account(m, NoPage, t),
         t \in {NoPage, p},
         p \in Frames => p = t \/ UsesIn(m, p) # {},
         p \in Frames => Cardinality(UsesIn(m, p)) < REFMOD - 1,
         NEW s \in Spaces, NEW va \in Vas, NEW w \in BOOLEAN,
         m.entry[PtSite(s, va[1])] # NoPage
  PROVE  LET n == page_insert(m, s, p, va, w)
             x == PteSite(s, va)
         IN  /\ Account(n, NoPage, NoPage)
             /\ n.entry = [m.entry EXCEPT ![x] = p]
             /\ n.w = [m.w EXCEPT ![x] = w]
             /\ p \in Frames /\ Clean(m) => Clean(n)
PROOF
  <1> DEFINE x == PteSite(s, va)
             k == incref(m, p)
             r == IF k.entry[x] # NoPage THEN page_remove(k, s, va) ELSE k
             n == [r EXCEPT !.entry[x] = p, !.w[x] = w]
  <1>0. /\ m \in Memories /\ x \in Sites /\ x \in PteSites
        /\ NoPage \notin Pages /\ PAGE0 \in Pages /\ PAGE0 \notin Frames
        /\ \A q \in Frames : q \in Pages
    BY SiteFacts, PageMapAssumption DEF Account, Pages
  <1>1. /\ Account(k, p, NoPage)
        /\ k.entry = m.entry /\ k.w = m.w /\ k.free = m.free /\ k.bad = m.bad
    BY HoldLemma
  <1>2. Clean(m) => Clean(k)
    BY <1>1 DEF Clean
  <1> HIDE DEF k
  <1>3. /\ Account(r, p, NoPage)
        /\ r.entry = [m.entry EXCEPT ![x] = NoPage]
        /\ r.w \in {m.w, [m.w EXCEPT ![x] = FALSE]}
        /\ Clean(m) => Clean(r)
    <2>1. CASE k.entry[x] # NoPage
      <3>1. r = page_remove(k, s, va)
        BY <2>1
      <3>2. Clean(m) => k.entry[x] \in Frames
        BY <1>0, <1>1, <2>1 DEF Clean, Memories, Pages
      <3>3. /\ Account(r, p, NoPage)
            /\ r.entry = [k.entry EXCEPT ![x] = NoPage]
            /\ r.w \in {k.w, [k.w EXCEPT ![x] = FALSE]}
            /\ k.entry[x] \in Frames /\ Clean(k) => Clean(r)
        BY <1>1, <3>1, RemoveLemma
      <3> QED BY <1>1, <1>2, <3>2, <3>3
    <2>2. CASE k.entry[x] = NoPage
      <3>1. r = k
        BY <2>2
      <3>2. m.entry = [m.entry EXCEPT ![x] = NoPage]
        BY <1>0, <1>1, <2>2 DEF Memories
      <3> QED BY <1>1, <1>2, <3>1, <3>2
    <2> QED BY <2>1, <2>2
  <1> HIDE DEF r, x
  <1>4. r \in Memories
    BY <1>3 DEF Account
  <1>5. /\ n.ref = r.ref /\ n.free = r.free /\ n.bad = r.bad
        /\ n.entry = [r.entry EXCEPT ![x] = p] /\ n.w = [r.w EXCEPT ![x] = w]
        /\ n \in Memories
    BY <1>0, <1>4 DEF Memories
  <1>6. n.entry = [m.entry EXCEPT ![x] = p] /\ n.w = [m.w EXCEPT ![x] = w]
    BY <1>0, <1>3, <1>5 DEF Memories
  <1> HIDE DEF n
  <1>7. r.entry[x] = NoPage
    BY <1>0, <1>3 DEF Memories
  <1>8. /\ UsesIn(n, p) = UsesIn(r, p) \cup {x}
        /\ Cardinality(UsesIn(n, p)) = Cardinality(UsesIn(r, p)) + 1
        /\ \A q \in Pages : q # p => UsesIn(n, q) = UsesIn(r, q)
    BY <1>0, <1>4, <1>5, <1>7, CountAdd
  <1>9. \A q \in Frames : n.ref[q] = Cardinality(UsesIn(n, q)) + (IF q = NoPage THEN 1 ELSE 0)
    <2> SUFFICES ASSUME NEW q \in Frames PROVE n.ref[q] = Cardinality(UsesIn(n, q))
      <3>1. \A q \in Frames : q # NoPage /\ Cardinality(UsesIn(n, q)) \in Nat
        BY <1>0, UsesFinite
      <3> QED BY <3>1
    <2>1. r.ref[q] = Cardinality(UsesIn(r, q)) + (IF q = p THEN 1 ELSE 0)
      BY <1>3 DEF Account
    <2>2. Cardinality(UsesIn(r, q)) \in Nat
      BY UsesFinite
    <2>3. CASE q = p
      BY <1>5, <1>8, <2>1, <2>3
    <2>4. CASE q # p
      BY <1>0, <1>5, <1>8, <2>1, <2>2, <2>4
    <2> QED BY <2>3, <2>4
  <1>10. \A q \in Frames : q \in n.free <=> UsesIn(n, q) = {} /\ q # NoPage /\ q # NoPage
    <2> SUFFICES ASSUME NEW q \in Frames
                 PROVE  q \in n.free <=> UsesIn(n, q) = {} /\ q # NoPage /\ q # NoPage
      OBVIOUS
    <2>1. CASE q = p
      BY <1>3, <1>5, <1>8, <2>1 DEF Account
    <2>2. CASE q # p
      BY <1>0, <1>3, <1>5, <1>8, <2>2 DEF Account
    <2> QED BY <2>1, <2>2
  <1>11. p \in Frames /\ Clean(m) => Clean(n)
    BY <1>0, <1>3, <1>4, <1>5 DEF Clean, Memories
  <1>12. Account(n, NoPage, NoPage)
    BY <1>5, <1>9, <1>10 DEF Account
  <1>13. n = page_insert(m, s, p, va, w)
    BY DEF page_insert, n, r, k, x
  <1> QED BY <1>6, <1>11, <1>12, <1>13 DEF x

\* The free page g is stored in x and counted.
NewTable(m, x, g) == incref([m EXCEPT !.free = @ \ {g}, !.entry[x] = g], g)

\* A free page becomes a page directory or a page table (env_setup_vm,
\* pgdir_walk).
LEMMA NewTableLemma ==
  ASSUME NEW m, NEW t \in Pages \cup {NoPage}, Account(m, NoPage, t),
         NEW g \in m.free, NEW x \in DirSites \cup PtSites, m.entry[x] = NoPage
  PROVE  LET n == NewTable(m, x, g)
         IN  /\ Account(n, NoPage, t)
             /\ n.entry = [m.entry EXCEPT ![x] = g]
             /\ n.w = m.w /\ n.free = m.free \ {g}
             /\ Clean(m) => Clean(n)
             /\ \A q \in Pages : q # g => UsesIn(n, q) = UsesIn(m, q)
PROOF
  <1> DEFINE n == NewTable(m, x, g)
  <1>0. /\ m \in Memories /\ x \in Sites /\ g \in Pages
        /\ NoPage \notin Pages /\ PAGE0 \notin Frames /\ \A q \in Frames : q \in Pages
    BY PageMapAssumption DEF Account, Pages, Memories, Sites
  <1>1. /\ n.ref = [m.ref EXCEPT ![g] = (@ + 1) % REFMOD]
        /\ n.entry = [m.entry EXCEPT ![x] = g]
        /\ n.w = m.w /\ n.free = m.free \ {g} /\ n.bad = m.bad
        /\ n \in Memories
    <2>1. m.ref[g] + 1 \in Int
      BY <1>0 DEF Memories
    <2>2. (m.ref[g] + 1) % REFMOD \in 0..(REFMOD - 1)
      BY <2>1, ModLemma
    <2> QED BY <1>0, <2>2 DEF NewTable, incref, Memories
  <1> HIDE DEF n
  <1>2. /\ UsesIn(n, g) = UsesIn(m, g) \cup {x}
        /\ Cardinality(UsesIn(n, g)) = Cardinality(UsesIn(m, g)) + 1
        /\ \A q \in Pages : q # g => UsesIn(n, q) = UsesIn(m, q)
    BY <1>0, <1>1, CountAdd
  <1>3. g \in Frames => n.ref[g] = Cardinality(UsesIn(n, g))
    <2> SUFFICES ASSUME g \in Frames PROVE n.ref[g] = Cardinality(UsesIn(n, g))
      OBVIOUS
    <2>1. UsesIn(m, g) = {}
      BY DEF Account
    <2>2. Cardinality(UsesIn(m, g)) = 0 /\ m.ref[g] = 0
      <3>1. m.ref[g] = Cardinality(UsesIn(m, g)) + 0
        BY <1>0 DEF Account
      <3> QED BY <2>1, <3>1, UsesFinite
    <2>3. (0 + 1) % REFMOD = 1
      BY ModLemma, PageMapAssumption
    <2> QED BY <1>0, <1>1, <1>2, <2>2, <2>3 DEF Memories
  <1>4. \A q \in Frames : n.ref[q] = Cardinality(UsesIn(n, q)) + (IF q = NoPage THEN 1 ELSE 0)
    <2> SUFFICES ASSUME NEW q \in Frames PROVE n.ref[q] = Cardinality(UsesIn(n, q))
      <3>1. \A q \in Frames : q # NoPage /\ Cardinality(UsesIn(n, q)) \in Nat
        BY <1>0, UsesFinite
      <3> QED BY <3>1
    <2>1. Cardinality(UsesIn(m, q)) \in Nat
      BY UsesFinite
    <2>2. q # g => n.ref[q] = m.ref[q]
      BY <1>0, <1>1 DEF Memories
    <2>3. m.ref[q] = Cardinality(UsesIn(m, q)) + 0
      BY <1>0 DEF Account
    <2>4. CASE q = g
      BY <1>3, <2>4
    <2>5. CASE q # g
      <3>1. UsesIn(n, q) = UsesIn(m, q)
        BY <1>0, <1>2, <2>5
      <3> QED BY <2>1, <2>2, <2>3, <2>5, <3>1
    <2> QED BY <2>4, <2>5
  <1>5. \A q \in Frames : q \in n.free <=> UsesIn(n, q) = {} /\ q # NoPage /\ q # t
    <2> SUFFICES ASSUME NEW q \in Frames
                 PROVE  q \in n.free <=> UsesIn(n, q) = {} /\ q # NoPage /\ q # t
      OBVIOUS
    <2>1. CASE q = g
      BY <1>1, <1>2, <2>1
    <2>2. CASE q # g
      BY <1>0, <1>1, <1>2, <2>2 DEF Account
    <2> QED BY <2>1, <2>2
  <1>6. Account(n, NoPage, t)
    BY <1>1, <1>4, <1>5 DEF Account
  <1>7. Clean(m) => Clean(n)
    BY <1>0, <1>1 DEF Clean, Memories
  <1> QED BY <1>1, <1>2, <1>6, <1>7 DEF n

\* A page is taken off the free list, and given back (page_alloc, and the error
\* path of sys_page_alloc).
LEMMA TakeLemma ==
  ASSUME NEW m, Account(m, NoPage, NoPage), NEW f \in m.free
  PROVE  LET n == [m EXCEPT !.free = @ \ {f}]
         IN  /\ Account(n, NoPage, f)
             /\ n.entry = m.entry /\ n.w = m.w /\ n.free = m.free \ {f} /\ n.bad = m.bad
             /\ f \in Pages
             /\ f \in Frames => page_free(n, f) = m
PROOF
  <1> DEFINE n == [m EXCEPT !.free = @ \ {f}]
  <1>0. m \in Memories /\ f \in Pages
    BY DEF Account, Memories
  <1>1. /\ n.ref = m.ref /\ n.entry = m.entry /\ n.w = m.w
        /\ n.free = m.free \ {f} /\ n.bad = m.bad /\ n \in Memories
    BY <1>0 DEF Memories
  <1>2. \A q : UsesIn(n, q) = UsesIn(m, q)
    BY <1>1 DEF UsesIn
  <1>3. \A q \in Frames : q # NoPage
    BY PageMapAssumption
  <1>4. f \in Frames => page_free(n, f) = m
    <2> SUFFICES ASSUME f \in Frames PROVE page_free(n, f) = m
      OBVIOUS
    <2>1. m.ref[f] = Cardinality(UsesIn(m, f)) + 0 /\ UsesIn(m, f) = {}
      BY <1>3 DEF Account
    <2>2. n.ref[f] = 0 /\ f \notin n.free
      BY <1>1, <2>1, UsesFinite
    <2>3. page_free(n, f) = [n EXCEPT !.free = @ \cup {f}]
      BY <2>2 DEF page_free
    <2>4. (m.free \ {f}) \cup {f} = m.free
      OBVIOUS
    <2> QED BY <1>0, <2>3, <2>4 DEF Memories
  <1> HIDE DEF n
  <1>5. Account(n, NoPage, f)
    BY <1>1, <1>2, <1>3 DEF Account
  <1> QED BY <1>0, <1>1, <1>4, <1>5 DEF n

-----------------------------------------------------------------------------
(* The shape of the address spaces *)

\* Only the entries matter for the shape.
LEMMA ShapeLemma ==
  ASSUME NEW m, NEW n, n.entry = m.entry
  PROVE  (Rooted(m) => Rooted(n)) /\ (Private(m) => Private(n))
PROOF BY DEF Rooted, Private, UsesIn

\* Storing in a mapping, or clearing it, keeps the shape; what is stored is a
\* page that nothing uses, or a page that is mapped already.
LEMMA PutLemma ==
  ASSUME NEW m \in Memories, NEW n \in Memories, NEW s \in Spaces, NEW va \in Vas,
         NEW p \in Pages \cup {NoPage},
         n.entry = [m.entry EXCEPT ![PteSite(s, va)] = p]
  PROVE  /\ /\ Rooted(m)
            /\ p # NoPage => m.entry[PtSite(s, va[1])] # NoPage
            => Rooted(n)
         /\ /\ Private(m)
            /\ \/ p = NoPage
               \/ UsesIn(m, p) = {}
               \/ \E y \in PteSites : m.entry[y] = p
            => Private(n)
PROOF
  <1> DEFINE x == PteSite(s, va)
  <1>0. x \in Sites /\ x \in PteSites /\ NoPage \notin Pages
    BY SiteFacts, PageMapAssumption DEF Pages
  <1>1. \A y \in Sites : y # x => n.entry[y] = m.entry[y]
    BY <1>0 DEF Memories
  <1>2. n.entry[x] = p
    BY <1>0 DEF Memories
  <1>3. ASSUME Rooted(m), p # NoPage => m.entry[PtSite(s, va[1])] # NoPage
        PROVE  Rooted(n)
    <2> SUFFICES ASSUME NEW z \in Spaces, NEW d \in Dirs
                 PROVE  /\ n.entry[PtSite(z, d)] # NoPage => n.entry[DirSite(z)] # NoPage
                        /\ \A t \in Ents :
                             n.entry[PteSite(z, <<d, t>>)] # NoPage =>
                               n.entry[PtSite(z, d)] # NoPage
      BY DEF Rooted
    <2>1. n.entry[PtSite(z, d)] = m.entry[PtSite(z, d)]
          /\ n.entry[DirSite(z)] = m.entry[DirSite(z)]
      BY <1>0, <1>1, SiteFacts
    <2>2. ASSUME NEW t \in Ents, n.entry[PteSite(z, <<d, t>>)] # NoPage
          PROVE  m.entry[PtSite(z, d)] # NoPage
      <3>1. CASE PteSite(z, <<d, t>>) = x
        <4>1. z = s /\ d = va[1]
          BY <3>1 DEF PteSite, Vas
        <4> QED BY <1>2, <1>3, <2>2, <3>1, <4>1
      <3>2. CASE PteSite(z, <<d, t>>) # x
        <4>1. <<d, t>> \in Vas /\ PteSite(z, <<d, t>>) \in Sites
          BY SiteFacts DEF Vas
        <4>2. m.entry[PteSite(z, <<d, t>>)] # NoPage
          BY <1>1, <2>2, <3>2, <4>1
        <4> QED BY <1>3, <4>2 DEF Rooted
      <3> QED BY <3>1, <3>2
    <2> QED BY <1>3, <2>1, <2>2 DEF Rooted
  <1>4. ASSUME Private(m),
               \/ p = NoPage
               \/ UsesIn(m, p) = {}
               \/ \E y \in PteSites : m.entry[y] = p
        PROVE  Private(n)
    <2> SUFFICES ASSUME NEW y \in DirSites \cup PtSites, n.entry[y] # NoPage
                 PROVE  UsesIn(n, n.entry[y]) = {y}
      BY DEF Private
    <2>1. y \in Sites /\ y \notin PteSites /\ y # x
      BY <1>0, SiteFacts DEF Sites
    <2>2. n.entry[y] = m.entry[y] /\ UsesIn(m, m.entry[y]) = {y}
      BY <1>1, <1>4, <2>1 DEF Private
    <2>3. p # m.entry[y]
      BY <1>4, <2>1, <2>2, SiteFacts DEF UsesIn
    <2>4. x \notin UsesIn(m, m.entry[y])
      BY <2>1, <2>2
    <2>5. UsesIn(n, m.entry[y]) = UsesIn(m, m.entry[y])
      BY <1>1, <1>2, <2>3, <2>4 DEF UsesIn
    <2> QED BY <2>2, <2>5
  <1> QED BY <1>3, <1>4

\* A free page that becomes a table keeps the shape.
LEMMA GrowLemma ==
  ASSUME NEW m \in Memories, NEW n \in Memories, NEW x \in DirSites \cup PtSites,
         NEW g \in Pages, m.entry[x] = NoPage, n.entry = [m.entry EXCEPT ![x] = g],
         x \in PtSites => m.entry[DirSite(x[1])] # NoPage
  PROVE  /\ Rooted(m) => Rooted(n)
         /\ Private(m) /\ UsesIn(m, g) = {} => Private(n)
PROOF
  <1>0. x \in Sites /\ x \notin PteSites /\ NoPage \notin Pages
    BY SiteFacts, PageMapAssumption DEF Pages, Sites
  <1>1. \A y \in Sites : y # x => n.entry[y] = m.entry[y]
    BY <1>0 DEF Memories
  <1>2. n.entry[x] = g /\ g # NoPage
    BY <1>0 DEF Memories
  <1>3. ASSUME Rooted(m) PROVE Rooted(n)
    <2> SUFFICES ASSUME NEW z \in Spaces, NEW d \in Dirs
                 PROVE  /\ n.entry[PtSite(z, d)] # NoPage => n.entry[DirSite(z)] # NoPage
                        /\ \A t \in Ents :
                             n.entry[PteSite(z, <<d, t>>)] # NoPage =>
                               n.entry[PtSite(z, d)] # NoPage
      BY DEF Rooted
    <2>0. /\ PtSite(z, d) \in Sites /\ DirSite(z) \in Sites /\ PtSite(z, d) \in PtSites
          /\ \A t \in Ents : PteSite(z, <<d, t>>) \in PteSites
                             /\ PteSite(z, <<d, t>>) \in Sites
      BY SiteFacts DEF Vas
    <2>1. m.entry[DirSite(z)] # NoPage => n.entry[DirSite(z)] # NoPage
      BY <1>1, <1>2, <2>0
    <2>2. m.entry[PtSite(z, d)] # NoPage => n.entry[PtSite(z, d)] # NoPage
      BY <1>1, <1>2, <2>0
    <2>3. n.entry[PtSite(z, d)] # NoPage => m.entry[DirSite(z)] # NoPage
      <3>1. CASE x = PtSite(z, d)
        <4>1. x[1] = z
          BY <3>1 DEF PtSite
        <4> QED BY <2>0, <3>1, <4>1
      <3>2. CASE x # PtSite(z, d)
        BY <1>1, <1>3, <2>0, <3>2 DEF Rooted
      <3> QED BY <3>1, <3>2
    <2>4. \A t \in Ents : n.entry[PteSite(z, <<d, t>>)] = m.entry[PteSite(z, <<d, t>>)]
      BY <1>0, <1>1, <2>0
    <2> QED BY <1>3, <2>1, <2>2, <2>3, <2>4 DEF Rooted
  <1>4. ASSUME Private(m), UsesIn(m, g) = {} PROVE Private(n)
    <2> SUFFICES ASSUME NEW y \in DirSites \cup PtSites, n.entry[y] # NoPage
                 PROVE  UsesIn(n, n.entry[y]) = {y}
      BY DEF Private
    <2>0. y \in Sites
      BY DEF Sites
    <2>1. CASE y = x
      BY <1>0, <1>1, <1>2, <1>4, <2>1 DEF UsesIn
    <2>2. CASE y # x
      <3>1. n.entry[y] = m.entry[y] /\ UsesIn(m, m.entry[y]) = {y}
        BY <1>1, <1>4, <2>0, <2>2 DEF Private
      <3>2. m.entry[y] # g
        BY <1>4, <2>0 DEF UsesIn
      <3> QED BY <1>0, <1>1, <1>2, <2>2, <3>1, <3>2 DEF UsesIn
    <2> QED BY <2>1, <2>2
  <1> QED BY <1>3, <1>4

-----------------------------------------------------------------------------
(* The system calls *)

\* The rest of the invariant, of any memory.
Shape(m) == Rooted(m) /\ (~Unmapped => Clean(m) /\ Private(m))

\* pgdir_walk with create leaves the accounts and the shape in order, and the
\* table in place.
LEMMA WalkLemma ==
  ASSUME NEW m, NEW t \in Pages \cup {NoPage}, Account(m, NoPage, t), Shape(m),
         NEW s \in Spaces, NEW d \in Dirs, m.entry[DirSite(s)] # NoPage,
         NEW n \in Walks(m, s, d)
  PROVE  /\ Account(n, NoPage, t) /\ Shape(n)
         /\ n.entry[PtSite(s, d)] # NoPage
         /\ n.w = m.w
         /\ \A y \in PteSites : n.entry[y] = m.entry[y]
         /\ \A q \in Frames : q \notin m.free => UsesIn(n, q) = UsesIn(m, q)
PROOF
  <1> DEFINE x == PtSite(s, d)
  <1>0. x \in PtSites /\ x \in Sites /\ x \notin PteSites /\ x[1] = s
        /\ m \in Memories /\ NoPage \notin Pages
    BY SiteFacts, PageMapAssumption DEF Account, Pages, PtSite
  <1>1. CASE m.entry[x] # NoPage
    BY <1>1 DEF Walks
  <1>2. CASE m.entry[x] = NoPage
    <2>1. PICK g \in m.free : n = pgdir_walk(m, s, d, g)
      BY <1>2 DEF Walks
    <2>2. n = NewTable(m, x, g)
      BY <1>2, <2>1 DEF pgdir_walk, NewTable
    <2>3. g \in Pages
      BY <1>0 DEF Memories
    <2> HIDE DEF x
    <2>4. /\ Account(n, NoPage, t)
          /\ n.entry = [m.entry EXCEPT ![x] = g]
          /\ n.w = m.w /\ n.free = m.free \ {g}
          /\ Clean(m) => Clean(n)
          /\ \A q \in Pages : q # g => UsesIn(n, q) = UsesIn(m, q)
      BY <1>0, <1>2, <2>2, NewTableLemma
    <2>5. n \in Memories
      BY <2>4 DEF Account
    <2>6. ~Unmapped => UsesIn(m, g) = {}
      BY DEF Shape, Clean, Account
    <2>7. /\ Rooted(m) => Rooted(n)
          /\ Private(m) /\ UsesIn(m, g) = {} => Private(n)
      BY <1>0, <1>2, <2>3, <2>4, <2>5, GrowLemma
    <2>8. Shape(n)
      BY <2>4, <2>6, <2>7 DEF Shape
    <2>9. n.entry[x] # NoPage /\ \A y \in PteSites : n.entry[y] = m.entry[y]
      BY <1>0, <2>3, <2>4, SiteFacts DEF Memories
    <2>10. \A q \in Frames : q \notin m.free => UsesIn(n, q) = UsesIn(m, q)
      BY <2>4 DEF Pages
    <2> QED BY <2>4, <2>8, <2>9, <2>10 DEF x
  <1> QED BY <1>1, <1>2

\* Walk and insert: what sys_page_alloc and sys_page_map have in common.
LEMMA MapLemma ==
  ASSUME NEW m, NEW t \in Pages \cup {NoPage}, NEW p \in Pages, Account(m, NoPage, t),
         Shape(m), t \in {NoPage, p},
         p \in Frames => p = t \/ UsesIn(m, p) # {},
         p \in Frames => Cardinality(UsesIn(m, p)) < REFMOD - 1,
         ~Unmapped => /\ p \in Frames
                      /\ UsesIn(m, p) = {} \/ \E y \in PteSites : m.entry[y] = p,
         NEW s \in Spaces, NEW va \in Vas, NEW w \in BOOLEAN,
         m.entry[DirSite(s)] # NoPage,
         NEW n \in Walks(m, s, va[1])
  PROVE  LET r == page_insert(n, s, p, va, w)
             x == PteSite(s, va)
         IN  /\ Account(r, NoPage, NoPage) /\ Shape(r)
             /\ r.entry[x] = p /\ r.w[x] = w
             /\ \A y \in PteSites \ {x} : r.entry[y] = m.entry[y] /\ r.w[y] = m.w[y]
PROOF
  <1> DEFINE r == page_insert(n, s, p, va, w)
             x == PteSite(s, va)
  <1>0. va[1] \in Dirs /\ x \in Sites /\ x \in PteSites /\ NoPage \notin Pages
        /\ PteSites \subseteq Sites
    BY SiteFacts, PageMapAssumption DEF Vas, Pages
  <1>1. /\ Account(n, NoPage, t) /\ Shape(n)
        /\ n.entry[PtSite(s, va[1])] # NoPage
        /\ n.w = m.w
        /\ \A y \in PteSites : n.entry[y] = m.entry[y]
        /\ \A q \in Frames : q \notin m.free => UsesIn(n, q) = UsesIn(m, q)
    BY <1>0, WalkLemma
  <1>2. p \in Frames => UsesIn(n, p) = UsesIn(m, p)
    BY <1>1 DEF Account
  <1>3. /\ Account(r, NoPage, NoPage)
        /\ r.entry = [n.entry EXCEPT ![x] = p]
        /\ r.w = [n.w EXCEPT ![x] = w]
        /\ p \in Frames /\ Clean(n) => Clean(r)
    BY <1>1, <1>2, InsertLemma
  <1>4. n \in Memories /\ r \in Memories
    BY <1>1, <1>3 DEF Account
  <1> HIDE DEF r, x
  <1>5. /\ Rooted(n) => Rooted(r)
        /\ /\ Private(n)
           /\ UsesIn(n, p) = {} \/ \E y \in PteSites : n.entry[y] = p
           => Private(r)
    BY <1>1, <1>3, <1>4, PutLemma DEF x
  <1>6. Shape(r)
    BY <1>1, <1>2, <1>3, <1>5 DEF Shape
  <1>7. /\ r.entry[x] = p /\ r.w[x] = w
        /\ \A y \in PteSites \ {x} : r.entry[y] = m.entry[y] /\ r.w[y] = m.w[y]
    BY <1>0, <1>1, <1>3, <1>4 DEF Memories
  <1> QED BY <1>3, <1>6, <1>7 DEF r, x

\* env_setup_vm.
LEMMA SetupLemma ==
  ASSUME IInv, NEW s \in Spaces, env_setup_vm(s)
  PROVE  IInv' /\ \A y \in PteSites : mem'.entry[y] = mem.entry[y] /\ mem'.w[y] = mem.w[y]
PROOF
  <1> DEFINE x == DirSite(s)
  <1>0. x \in DirSites /\ x \in Sites /\ x \notin PteSites /\ x \notin PtSites
        /\ mem.entry[x] = NoPage /\ mem \in Memories /\ PteSites \subseteq Sites
    <2>1. x \notin PtSites
      BY PageMapAssumption DEF PtSites, PtSite, DirSite
    <2> QED BY <2>1, SiteFacts DEF IInv, Account, env_setup_vm, Exists
  <1>1. PICK f \in mem.free : mem' = NewTable(mem, x, f)
    BY DEF env_setup_vm, NewTable
  <1>2. f \in Pages
    BY <1>0 DEF Memories
  <1> HIDE DEF x
  <1>3. /\ Account(mem', NoPage, NoPage)
        /\ mem'.entry = [mem.entry EXCEPT ![x] = f]
        /\ mem'.w = mem.w
        /\ Clean(mem) => Clean(mem')
    BY <1>0, <1>1, NewTableLemma DEF IInv
  <1>4. mem' \in Memories
    BY <1>3 DEF Account
  <1>5. /\ Rooted(mem) => Rooted(mem')
        /\ Private(mem) /\ UsesIn(mem, f) = {} => Private(mem')
    BY <1>0, <1>2, <1>3, <1>4, GrowLemma
  <1>6. ~Unmapped => UsesIn(mem, f) = {}
    BY DEF IInv, Clean, Account
  <1>7. IInv'
    BY <1>3, <1>5, <1>6 DEF IInv
  <1>8. \A y \in PteSites : mem'.entry[y] = mem.entry[y] /\ mem'.w[y] = mem.w[y]
    BY <1>0, <1>3 DEF Memories
  <1> QED BY <1>7, <1>8

\* sys_page_alloc: the page comes from the free list; without a table for it,
\* nothing has happened.
LEMMA AllocLemma ==
  ASSUME IInv, NEW s \in Spaces, NEW va \in Vas, NEW w \in BOOLEAN,
         sys_page_alloc(s, va, w)
  PROVE  /\ IInv'
         /\ \E f \in mem.free :
              \A y \in PteSites :
                \/ mem'.entry[y] = mem.entry[y] /\ mem'.w[y] = mem.w[y]
                \/ mem'.entry[y] = f
PROOF
  <1>1. PICK f \in mem.free :
          LET m == [mem EXCEPT !.free = @ \ {f}]
          IN IF Walks(m, s, va[1]) = {}
             THEN mem' = page_free(m, f)
             ELSE \E n \in Walks(m, s, va[1]) : mem' = page_insert(n, s, f, va, w)
    BY DEF sys_page_alloc
  <1> DEFINE m == [mem EXCEPT !.free = @ \ {f}]
             x == PteSite(s, va)
  <1>2. /\ Account(m, NoPage, f)
        /\ m.entry = mem.entry /\ m.w = mem.w /\ m.free = mem.free \ {f} /\ m.bad = mem.bad
        /\ f \in Pages
        /\ f \in Frames => page_free(m, f) = mem
    BY TakeLemma DEF IInv
  <1>3. Shape(m)
    BY <1>2, ShapeLemma DEF IInv, Shape, Clean
  <1>4. /\ m.entry[DirSite(s)] # NoPage
        /\ f \in Frames => UsesIn(m, f) = {}
        /\ ~Unmapped => f \in Frames
    <2>1. UsesIn(m, f) = UsesIn(mem, f)
      BY <1>2 DEF UsesIn
    <2> QED BY <1>2, <2>1 DEF sys_page_alloc, Exists, IInv, Account, Clean
  <1>5. CASE Walks(m, s, va[1]) = {}
    <2>1. mem' = page_free(m, f)
      BY <1>1, <1>5
    <2>2. CASE f \in Frames
      <3>1. mem' = mem
        BY <1>2, <2>1, <2>2
      <3> QED BY <3>1 DEF IInv, Account, Rooted, Clean, Private, UsesIn
    <2>3. CASE f \notin Frames
      <3>1. f = PAGE0 /\ Unmapped
        BY <1>2, <1>4, <2>3 DEF Pages
      <3>2. /\ mem'.ref = m.ref /\ mem'.entry = m.entry /\ mem'.w = m.w
            /\ mem' \in Memories
            /\ \A q \in Frames : q \in mem'.free <=> q \in m.free
        <4>1. m \in Memories
          BY <1>2 DEF Account
        <4> HIDE DEF m
        <4> QED BY <2>1, <2>3, <4>1, <1>2 DEF page_free, Memories
      <3>3. \A q \in Frames : q # f /\ UsesIn(mem', q) = UsesIn(m, q)
        BY <2>3, <3>2 DEF UsesIn
      <3> HIDE DEF m
      <3>4. Account(mem', NoPage, NoPage)
        BY <1>2, <3>2, <3>3, PageMapAssumption DEF Account
      <3>5. Rooted(mem')
        BY <1>3, <3>2, ShapeLemma DEF Shape
      <3>6. IInv'
        BY <3>1, <3>4, <3>5 DEF IInv
      <3> QED BY <1>2, <3>2, <3>6
    <2> QED BY <2>2, <2>3
  <1>6. CASE Walks(m, s, va[1]) # {}
    <2>1. PICK n \in Walks(m, s, va[1]) : mem' = page_insert(n, s, f, va, w)
      BY <1>1, <1>6
    <2>2. f \in Frames => Cardinality(UsesIn(m, f)) < REFMOD - 1
      <3>1. f \in Frames => Cardinality(UsesIn(m, f)) = 0
        BY <1>4, FS_EmptySet
      <3> QED BY <3>1, PageMapAssumption
    <2> HIDE DEF m
    <2>3. /\ Account(mem', NoPage, NoPage) /\ Shape(mem')
          /\ mem'.entry[x] = f /\ mem'.w[x] = w
          /\ \A y \in PteSites \ {x} : mem'.entry[y] = m.entry[y] /\ mem'.w[y] = m.w[y]
      BY <1>2, <1>3, <1>4, <2>1, <2>2, MapLemma
    <2>4. IInv'
      BY <2>3 DEF IInv, Shape
    <2> QED BY <1>2, <2>3, <2>4
  <1> QED BY <1>5, <1>6

\* sys_page_map, and the page that sys_ipc_try_send transfers: the page is in
\* use, and no mapping gets a permission that the source does not have.
LEMMA MapCallLemma ==
  ASSUME IInv, RefsBelow, NEW s \in Spaces, NEW srcva \in Vas, NEW d \in Spaces,
         NEW dstva \in Vas, NEW w \in BOOLEAN, sys_page_map(s, srcva, d, dstva, w)
  PROVE  /\ IInv'
         /\ LET x == PteSite(s, srcva)
                p == page_lookup(mem, s, srcva)
            IN  /\ p \in Frames => mem.entry[x] = p
                /\ w => mem.w[x]
                /\ \A y \in PteSites :
                     \/ mem'.entry[y] = mem.entry[y] /\ mem'.w[y] = mem.w[y]
                     \/ mem'.entry[y] = p /\ mem'.w[y] = w
PROOF
  <1> DEFINE x == PteSite(s, srcva)
             p == page_lookup(mem, s, srcva)
             z == PteSite(d, dstva)
  <1>0. mem \in Memories /\ x \in Sites /\ x \in PteSites /\ NoPage \notin Pages
        /\ PAGE0 \notin Frames
    BY SiteFacts, PageMapAssumption DEF IInv, Account, Pages
  <1>1. /\ p # NoPage /\ (w => mem.w[x]) /\ mem.entry[DirSite(d)] # NoPage
        /\ Unmapped \/ mem.entry[x] # NoPage
    BY DEF sys_page_map, Exists, Mapped
  <1>2. p \in Pages /\ (p \in Frames => mem.entry[x] = p) /\ (p = mem.entry[x] \/ p = PAGE0)
    BY <1>0, <1>1 DEF page_lookup, Memories, Pages
  <1>3. ~Unmapped => p \in Frames
    <2>1. ~Unmapped => p = mem.entry[x]
      BY <1>1 DEF page_lookup
    <2> QED BY <1>0, <1>2, <2>1 DEF IInv, Clean, Pages
  <1>4. PICK n \in Walks(mem, d, dstva[1]) : mem' = page_insert(n, d, p, dstva, w)
    BY DEF sys_page_map
  <1>5. p \in Frames => /\ UsesIn(mem, p) # {}
                        /\ \E y \in PteSites : mem.entry[y] = p
                        /\ Cardinality(UsesIn(mem, p)) < REFMOD - 1
    BY <1>0, <1>2 DEF UsesIn, Uses, RefsBelow
  <1>6. Account(mem, NoPage, NoPage) /\ Shape(mem)
    BY DEF IInv, Shape
  <1> HIDE DEF p, x
  <1>7. /\ Account(mem', NoPage, NoPage) /\ Shape(mem')
        /\ mem'.entry[z] = p /\ mem'.w[z] = w
        /\ \A y \in PteSites \ {z} : mem'.entry[y] = mem.entry[y] /\ mem'.w[y] = mem.w[y]
    BY <1>1, <1>2, <1>3, <1>4, <1>5, <1>6, MapLemma
  <1>8. IInv'
    BY <1>7 DEF IInv, Shape
  <1> QED BY <1>1, <1>2, <1>7, <1>8 DEF x, p

\* sys_page_unmap.
LEMMA UnmapLemma ==
  ASSUME IInv, NEW s \in Spaces, NEW va \in Vas, sys_page_unmap(s, va)
  PROVE  /\ IInv'
         /\ \A y \in PteSites :
              \/ mem'.entry[y] = mem.entry[y] /\ mem'.w[y] = mem.w[y]
              \/ mem'.entry[y] = NoPage
PROOF
  <1> DEFINE x == PteSite(s, va)
  <1>0. mem \in Memories /\ x \in Sites /\ x \in PteSites /\ NoPage \notin Pages
        /\ PAGE0 \notin Frames /\ PteSites \subseteq Sites
    BY SiteFacts, PageMapAssumption DEF IInv, Account, Pages
  <1>1. Account(mem, NoPage, NoPage) /\ Rooted(mem)
    BY DEF IInv
  <1>2. mem.entry[x] # NoPage => mem.entry[PtSite(s, va[1])] # NoPage
    <2>1. va[1] \in Dirs /\ va[2] \in Ents /\ va = <<va[1], va[2]>>
      BY DEF Vas
    <2> QED BY <1>1, <2>1 DEF Rooted
  <1>3. mem' = page_remove(mem, s, va) /\ (Unmapped \/ mem.entry[x] # NoPage)
    BY DEF sys_page_unmap, Mapped
  <1> HIDE DEF x
  <1>4. /\ Account(mem', NoPage, NoPage)
        /\ mem'.entry = [mem.entry EXCEPT ![x] = NoPage]
        /\ mem'.w \in {mem.w, [mem.w EXCEPT ![x] = FALSE]}
        /\ mem.entry[x] \in Frames /\ Clean(mem) => Clean(mem')
    BY <1>1, <1>2, <1>3, RemoveLemma DEF x
  <1>5. mem' \in Memories
    BY <1>4 DEF Account
  <1>6. Rooted(mem') /\ (Private(mem) => Private(mem'))
    BY <1>0, <1>1, <1>4, <1>5, PutLemma DEF x
  <1>7. ~Unmapped => mem.entry[x] \in Frames
    BY <1>0, <1>3 DEF IInv, Clean, Memories, Pages
  <1>8. IInv'
    BY <1>4, <1>6, <1>7 DEF IInv
  <1>9. \A y \in PteSites :
              \/ mem'.entry[y] = mem.entry[y] /\ mem'.w[y] = mem.w[y]
              \/ mem'.entry[y] = NoPage
    BY <1>0, <1>4 DEF Memories
  <1> QED BY <1>8, <1>9

\* env_free: every page loses the uses of this environment, and those that had
\* no other use are freed, each of them once.
LEMMA EnvFreeLemma ==
  ASSUME IInv, NEW s \in Spaces, env_free(s)
  PROVE  /\ IInv'
         /\ \A y \in PteSites :
              \/ mem'.entry[y] = mem.entry[y] /\ mem'.w[y] = mem.w[y]
              \/ mem'.entry[y] = NoPage
PROOF
  <1> DEFINE lost(p) == Cardinality({x \in SitesOf(s) : mem.entry[x] = p})
             freed == {p \in Pages :
                         \E k \in 1..lost(p) : (mem.ref[p] - k) % REFMOD = 0}
             n == mem'
  <1>0. /\ mem \in Memories /\ Account(mem, NoPage, NoPage) /\ Rooted(mem)
        /\ NoPage \notin Pages /\ PAGE0 \notin Frames /\ PteSites \subseteq Sites
        /\ Frames \subseteq Pages
    BY SiteFacts, PageMapAssumption DEF IInv, Account, Pages
  <1>1. /\ n.ref = [p \in Pages |-> (mem.ref[p] - lost(p)) % REFMOD]
        /\ n.free = mem.free \cup freed
        /\ n.entry = [x \in Sites |-> IF x[1] = s THEN NoPage ELSE mem.entry[x]]
        /\ n.w = [x \in PteSites |-> IF x[1] = s THEN FALSE ELSE mem.w[x]]
        /\ n.bad = (mem.bad \/ freed \cap mem.free # {})
        /\ n = [ref |-> n.ref, free |-> n.free, entry |-> n.entry, w |-> n.w, bad |-> n.bad]
    BY DEF env_free
  <1>2. \A p : /\ {x \in SitesOf(s) : mem.entry[x] = p} = UsesIn(mem, p) \cap SitesOf(s)
               /\ lost(p) = Cardinality(UsesIn(mem, p) \cap SitesOf(s))
               /\ lost(p) \in Nat
    <2> TAKE p
    <2>1. {x \in SitesOf(s) : mem.entry[x] = p} = UsesIn(mem, p) \cap SitesOf(s)
      BY DEF SitesOf, UsesIn
    <2>2. IsFiniteSet(UsesIn(mem, p) \cap SitesOf(s))
      BY UsesFinite, FS_Intersection
    <2>3. Cardinality(UsesIn(mem, p) \cap SitesOf(s)) \in Nat
      BY <2>2, FS_CardinalityType
    <2> QED BY <2>1, <2>3
  <1>3. \A q \in Pages :
          /\ UsesIn(n, q) = UsesIn(mem, q) \ SitesOf(s)
          /\ Cardinality(UsesIn(n, q)) = Cardinality(UsesIn(mem, q)) - lost(q)
    <2> TAKE q \in Pages
    <2>1. UsesIn(n, q) = UsesIn(mem, q) \ SitesOf(s)
      BY <1>0, <1>1 DEF UsesIn, SitesOf
    <2>2. IsFiniteSet(UsesIn(mem, q))
      BY UsesFinite
    <2>3. Cardinality(UsesIn(mem, q) \ SitesOf(s)) =
            Cardinality(UsesIn(mem, q)) - Cardinality(UsesIn(mem, q) \cap SitesOf(s))
      BY <2>2, FS_Difference
    <2> HIDE DEF n, lost
    <2> QED BY <1>2, <2>1, <2>3
  <1> HIDE DEF lost, n
  <1>4. n \in Memories
    <2>1. n.ref \in [Pages -> 0..(REFMOD - 1)]
      <3>1. \A p \in Pages : mem.ref[p] - lost(p) \in Int
        BY <1>0, <1>2 DEF Memories
      <3> QED BY <1>1, <3>1, ModLemma
    <2>2. n.free \in SUBSET Pages /\ n.bad \in BOOLEAN
      BY <1>0, <1>1 DEF Memories
    <2>3. n.entry \in [Sites -> Pages \cup {NoPage}]
      <3>1. mem.entry \in [Sites -> Pages \cup {NoPage}]
        BY <1>0 DEF Memories
      <3> QED BY <1>1, <3>1
    <2>4. n.w \in [PteSites -> BOOLEAN]
      <3>1. mem.w \in [PteSites -> BOOLEAN]
        BY <1>0 DEF Memories
      <3>2. \A x \in PteSites : (IF x[1] = s THEN FALSE ELSE mem.w[x]) \in BOOLEAN
        BY <3>1
      <3> QED BY <1>1, <3>2
    <2> QED BY <1>1, <2>1, <2>2, <2>3, <2>4 DEF Memories
  <1>5. \A q \in Frames :
          /\ mem.ref[q] \in 0..(REFMOD - 1)
          /\ mem.ref[q] = Cardinality(UsesIn(mem, q))
          /\ mem.ref[q] - lost(q) = Cardinality(UsesIn(n, q))
          /\ Cardinality(UsesIn(n, q)) \in Nat
    <2> TAKE q \in Frames
    <2>1. mem.ref[q] = Cardinality(UsesIn(mem, q)) + 0 /\ mem.ref[q] \in 0..(REFMOD - 1)
      BY <1>0 DEF Account, Memories
    <2>2. Cardinality(UsesIn(mem, q)) \in Nat /\ Cardinality(UsesIn(n, q)) \in Nat
      BY UsesFinite
    <2>3. Cardinality(UsesIn(n, q)) = Cardinality(UsesIn(mem, q)) - lost(q)
      BY <1>0, <1>3
    <2> QED BY <2>1, <2>2, <2>3
  <1>6. \A q \in Frames : n.ref[q] = Cardinality(UsesIn(n, q))
    <2> TAKE q \in Frames
    <2>1. mem.ref[q] - lost(q) \in 0..(REFMOD - 1)
      BY <1>2, <1>5, PageMapAssumption
    <2> QED BY <1>0, <1>1, <1>5, <2>1, ModLemma
  <1>7. \A q \in Frames : q \in freed <=> UsesIn(n, q) = {} /\ UsesIn(mem, q) # {}
    <2> TAKE q \in Frames
    <2>1. \A k \in 1..lost(q) : (mem.ref[q] - k) % REFMOD = 0 <=> k = mem.ref[q]
      <3> TAKE k \in 1..lost(q)
      <3>1. mem.ref[q] - k \in 0..(REFMOD - 1)
        BY <1>2, <1>5, PageMapAssumption
      <3>2. (mem.ref[q] - k) % REFMOD = mem.ref[q] - k
        BY <3>1, ModLemma
      <3> QED BY <1>5, <3>2
    <2>2. q \in freed <=> mem.ref[q] \in 1..lost(q)
      BY <1>0, <2>1
    <2>3. mem.ref[q] \in 1..lost(q) <=> Cardinality(UsesIn(n, q)) = 0 /\ mem.ref[q] # 0
      BY <1>2, <1>5
    <2>4. /\ Cardinality(UsesIn(n, q)) = 0 <=> UsesIn(n, q) = {}
          /\ Cardinality(UsesIn(mem, q)) = 0 <=> UsesIn(mem, q) = {}
      BY UsesFinite
    <2> QED BY <1>5, <2>2, <2>3, <2>4
  <1> HIDE DEF freed
  <1>8. Account(n, NoPage, NoPage)
    <2>1. \A q \in Frames : n.ref[q] = Cardinality(UsesIn(n, q)) + (IF q = NoPage THEN 1 ELSE 0)
      <3> TAKE q \in Frames
      <3>1. Cardinality(UsesIn(n, q)) \in Nat /\ q # NoPage
        BY <1>0, <1>5
      <3> QED BY <1>6, <3>1
    <2>2. \A q \in Frames : q \in n.free <=> UsesIn(n, q) = {} /\ q # NoPage /\ q # NoPage
      <3> TAKE q \in Frames
      <3>1. q # NoPage
        BY <1>0
      <3>2. q \in mem.free <=> UsesIn(mem, q) = {}
        BY <1>0, <3>1 DEF Account
      <3>3. UsesIn(mem, q) = {} => UsesIn(n, q) = {}
        BY <1>0, <1>3
      <3> QED BY <1>1, <1>7, <3>1, <3>2, <3>3
    <2> QED BY <1>4, <2>1, <2>2 DEF Account
  <1>9. Rooted(n)
    <2> SUFFICES ASSUME NEW z \in Spaces, NEW d \in Dirs
                 PROVE  /\ n.entry[PtSite(z, d)] # NoPage => n.entry[DirSite(z)] # NoPage
                        /\ \A t \in Ents :
                             n.entry[PteSite(z, <<d, t>>)] # NoPage =>
                               n.entry[PtSite(z, d)] # NoPage
      BY DEF Rooted
    <2>1. /\ PtSite(z, d) \in Sites /\ DirSite(z) \in Sites
          /\ \A t \in Ents : PteSite(z, <<d, t>>) \in Sites
      BY SiteFacts DEF Vas
    <2>2. PtSite(z, d)[1] = z /\ DirSite(z)[1] = z /\ \A t \in Ents : PteSite(z, <<d, t>>)[1] = z
      BY DEF PtSite, DirSite, PteSite
    <2> QED BY <1>0, <1>1, <2>1, <2>2 DEF Rooted
  <1>10. ASSUME ~Unmapped PROVE Clean(n) /\ Private(n)
    <2>1. Clean(mem) /\ Private(mem)
      BY <1>10 DEF IInv
    <2>2. PAGE0 \notin freed
      <3>1. UsesIn(mem, PAGE0) = {}
        BY <2>1 DEF Clean, UsesIn
      <3>2. UsesIn(mem, PAGE0) \cap SitesOf(s) = {}
        BY <3>1
      <3>3. lost(PAGE0) = 0
        BY <1>2, <3>2, FS_EmptySet
      <3> QED BY <3>3 DEF freed
    <2>3. freed \subseteq Frames
      BY <2>2 DEF freed, Pages
    <2>4. freed \cap mem.free = {}
      BY <1>0, <1>7, <2>3 DEF Account
    <2>5. Clean(n)
      BY <1>0, <1>1, <2>1, <2>3, <2>4, PageMapAssumption DEF Clean
    <2>6. Private(n)
      <3> SUFFICES ASSUME NEW y \in DirSites \cup PtSites, n.entry[y] # NoPage
                   PROVE  UsesIn(n, n.entry[y]) = {y}
        BY DEF Private
      <3>1. y \in Sites /\ n.entry[y] = mem.entry[y] /\ y[1] # s
        BY <1>1 DEF Sites
      <3>2. mem.entry[y] \in Pages /\ UsesIn(mem, mem.entry[y]) = {y}
        BY <1>0, <2>1, <3>1 DEF Private, Memories
      <3>3. UsesIn(n, mem.entry[y]) = UsesIn(mem, mem.entry[y]) \ SitesOf(s)
        BY <1>3, <3>2
      <3>4. y \notin SitesOf(s)
        BY <3>1 DEF SitesOf
      <3> QED BY <3>1, <3>2, <3>3, <3>4
    <2> QED BY <2>5, <2>6
  <1>11. IInv'
    BY <1>8, <1>9, <1>10 DEF IInv, n
  <1>12. \A y \in PteSites :
              \/ n.entry[y] = mem.entry[y] /\ n.w[y] = mem.w[y]
              \/ n.entry[y] = NoPage
    BY <1>0, <1>1
  <1> QED BY <1>11, <1>12 DEF n

-----------------------------------------------------------------------------
(* The theorems *)

\* The free list is full and nothing is mapped when the kernel starts.
LEMMA InitIInv == Init => IInv
PROOF
  <1> SUFFICES ASSUME Init PROVE IInv
    OBVIOUS
  <1>0. NoPage \notin Pages /\ PAGE0 \notin Frames /\ Frames \subseteq Pages /\ 0 \in 0..(REFMOD - 1)
    BY PageMapAssumption DEF Pages
  <1>1. /\ mem.ref = [p \in Pages |-> 0] /\ mem.free = Frames /\ mem.bad = FALSE
        /\ mem.entry = [x \in Sites |-> NoPage] /\ mem.w = [x \in PteSites |-> FALSE]
        /\ mem \in Memories
    BY <1>0 DEF Init, Memories
  <1>2. \A q \in Pages : UsesIn(mem, q) = {}
    BY <1>0, <1>1 DEF UsesIn
  <1>3. \A q \in Frames : mem.ref[q] = Cardinality(UsesIn(mem, q)) + (IF q = NoPage THEN 1 ELSE 0)
    <2> TAKE q \in Frames
    <2>1. q # NoPage /\ Cardinality(UsesIn(mem, q)) = 0 /\ mem.ref[q] = 0
      BY <1>0, <1>1, <1>2, FS_EmptySet
    <2> QED BY <2>1
  <1>4. Account(mem, NoPage, NoPage)
    BY <1>0, <1>1, <1>2, <1>3 DEF Account
  <1>5. Rooted(mem)
    BY <1>1, SiteFacts DEF Rooted, Vas
  <1>6. Clean(mem) /\ Private(mem)
    BY <1>0, <1>1, PageMapAssumption DEF Clean, Private, Sites
  <1> QED BY <1>4, <1>5, <1>6 DEF IInv

\* Every system call preserves the invariant, while pp_ref does not wrap.
LEMMA NextIInv == IInv /\ RefsBelow /\ [Next]_mem => IInv'
PROOF
  <1> SUFFICES ASSUME IInv, RefsBelow, [Next]_mem PROVE IInv'
    OBVIOUS
  <1>1. ASSUME NEW s \in Spaces, env_setup_vm(s) PROVE IInv'
    BY <1>1, SetupLemma
  <1>2. ASSUME NEW s \in Spaces, env_free(s) PROVE IInv'
    BY <1>2, EnvFreeLemma
  <1>3. ASSUME NEW s \in Spaces, NEW va \in Vas, NEW w \in BOOLEAN, sys_page_alloc(s, va, w)
        PROVE  IInv'
    BY <1>3, AllocLemma
  <1>4. ASSUME NEW s \in Spaces, NEW va \in Vas, sys_page_unmap(s, va) PROVE IInv'
    BY <1>4, UnmapLemma
  <1>5. ASSUME NEW s \in Spaces, NEW d \in Spaces, NEW srcva \in Vas, NEW dstva \in Vas,
               NEW w \in BOOLEAN, sys_page_map(s, srcva, d, dstva, w)
        PROVE  IInv'
    BY <1>5, MapCallLemma
  <1>6. CASE UNCHANGED mem
    BY <1>6 DEF IInv, Account, Rooted, Clean, Private, UsesIn
  <1> QED BY <1>1, <1>2, <1>3, <1>4, <1>5, <1>6 DEF Next

\* The types of struct PageInfo and of the page tables (inc/memlayout.h:174).
THEOREM MemoryTypes == Spec /\ []RefsBelow => []TypeOK
PROOF
  <1>1. IInv => TypeOK
    BY DEF IInv, Account, TypeOK
  <1> QED BY <1>1, InitIInv, NextIInv, PTL DEF Spec

\* pp_ref counts the references exactly, through every order of maps, remaps,
\* unmaps and exits, and page_free never panics (pmap.c), when addresses with
\* nothing mapped are left alone and no page collects 65535 references.
THEOREM RefTheorem == ~Unmapped => (Spec /\ []RefsBelow => []RefExact)
PROOF
  <1> SUFFICES ASSUME ~Unmapped PROVE Spec /\ []RefsBelow => []RefExact
    OBVIOUS
  <1>1. IInv => RefExact
    <2> SUFFICES ASSUME IInv PROVE RefExact
      OBVIOUS
    <2>1. \A p \in Frames : UsesIn(mem, p) = Uses(p) /\ p # NoPage
      BY PageMapAssumption DEF UsesIn, Uses
    <2>2. \A p \in Frames : mem.ref[p] = Cardinality(Uses(p)) + 0 /\ Cardinality(Uses(p)) \in Nat
      BY <2>1, UsesFinite DEF IInv, Account
    <2>3. ~mem.bad
      BY DEF IInv, Clean
    <2> QED BY <2>2, <2>3 DEF RefExact
  <1> QED BY <1>1, InitIInv, NextIInv, PTL DEF Spec

\* A page is free exactly when nothing refers to it, also when programs unmap
\* and map addresses where nothing is mapped (page_alloc, page_free,
\* sys_page_alloc's error path, env_free).
THEOREM FreeTheorem == Spec /\ []RefsBelow => []FreeExact
PROOF
  <1>1. IInv => FreeExact
    <2> SUFFICES ASSUME IInv PROVE FreeExact
      OBVIOUS
    <2>1. \A p \in Frames : UsesIn(mem, p) = Uses(p) /\ p # NoPage
      BY PageMapAssumption DEF UsesIn, Uses
    <2> QED BY <2>1 DEF IInv, Account, FreeExact
  <1> QED BY <1>1, InitIInv, NextIInv, PTL DEF Spec

\* No user gets a mapping of a page directory or page table, its own or
\* another's (page_insert, pgdir_walk, env_free).
THEOREM TablesTheorem == ~Unmapped => (Spec /\ []RefsBelow => []TablesArePrivate)
PROOF
  <1> SUFFICES ASSUME ~Unmapped PROVE Spec /\ []RefsBelow => []TablesArePrivate
    OBVIOUS
  <1>1. IInv => TablesArePrivate
    <2> SUFFICES ASSUME IInv PROVE TablesArePrivate
      OBVIOUS
    <2>1. \A p : UsesIn(mem, p) = Uses(p)
      BY DEF UsesIn, Uses
    <2>2. Private(mem) /\ Rooted(mem)
      BY DEF IInv
    <2> QED BY <2>1, <2>2 DEF TablesArePrivate, Private, Rooted, Exists, Mapped
  <1> QED BY <1>1, InitIInv, NextIInv, PTL DEF Spec

\* sys_page_map never adds PTE_W: a page that is mapped read-only everywhere
\* stays so for as long as it is in use (syscall.c:235).
THEOREM ReadOnlyTheorem == Spec /\ []RefsBelow => ReadOnlyStays
PROOF
  <1> DEFINE A == \A p \in Frames :
               Uses(p) # {} /\ ~Writable(p) => ~Writable(p)' \/ Uses(p)' = {}
  <1>1. IInv /\ RefsBelow /\ Next => A
    <2> SUFFICES ASSUME IInv, RefsBelow, Next, NEW p \in Frames, Uses(p) # {}, ~Writable(p)
                 PROVE  ~Writable(p)'
      OBVIOUS
    <2>0. p # NoPage /\ \A y \in PteSites : ~ (mem.entry[y] = p /\ mem.w[y])
      BY PageMapAssumption DEF Writable
    <2>f. p \notin mem.free
      <3>1. UsesIn(mem, p) = Uses(p)
        BY DEF UsesIn, Uses
      <3> QED BY <3>1 DEF IInv, Account
    <2> SUFFICES \A y \in PteSites : ~ (mem'.entry[y] = p /\ mem'.w[y])
      BY DEF Writable
    <2>1. ASSUME NEW s \in Spaces, env_setup_vm(s)
          PROVE  \A y \in PteSites : ~ (mem'.entry[y] = p /\ mem'.w[y])
      BY <2>0, <2>1, SetupLemma
    <2>2. ASSUME NEW s \in Spaces, env_free(s)
          PROVE  \A y \in PteSites : ~ (mem'.entry[y] = p /\ mem'.w[y])
      BY <2>0, <2>2, EnvFreeLemma
    <2>3. ASSUME NEW s \in Spaces, NEW va \in Vas, NEW w \in BOOLEAN, sys_page_alloc(s, va, w)
          PROVE  \A y \in PteSites : ~ (mem'.entry[y] = p /\ mem'.w[y])
      BY <2>0, <2>f, <2>3, AllocLemma
    <2>4. ASSUME NEW s \in Spaces, NEW va \in Vas, sys_page_unmap(s, va)
          PROVE  \A y \in PteSites : ~ (mem'.entry[y] = p /\ mem'.w[y])
      BY <2>0, <2>4, UnmapLemma
    <2>5. ASSUME NEW s \in Spaces, NEW d \in Spaces, NEW srcva \in Vas, NEW dstva \in Vas,
                 NEW w \in BOOLEAN, sys_page_map(s, srcva, d, dstva, w)
          PROVE  \A y \in PteSites : ~ (mem'.entry[y] = p /\ mem'.w[y])
      <3> DEFINE x == PteSite(s, srcva)
                 q == page_lookup(mem, s, srcva)
      <3>1. /\ q \in Frames => mem.entry[x] = q
            /\ w => mem.w[x]
            /\ \A y \in PteSites :
                 \/ mem'.entry[y] = mem.entry[y] /\ mem'.w[y] = mem.w[y]
                 \/ mem'.entry[y] = q /\ mem'.w[y] = w
        BY <2>5, MapCallLemma
      <3>2. x \in PteSites
        BY SiteFacts
      <3> HIDE DEF x, q
      <3> QED BY <2>0, <3>1, <3>2
    <2> QED BY <2>1, <2>2, <2>3, <2>4, <2>5 DEF Next
  <1>2. IInv /\ RefsBelow /\ [Next]_mem => IInv' /\ [A]_mem
    BY <1>1, NextIInv
  <1> HIDE DEF A
  <1>3. Spec /\ []RefsBelow => [][A]_mem
    BY <1>2, InitIInv, PTL DEF Spec
  <1> QED BY <1>3 DEF A, ReadOnlyStays
=============================================================================
