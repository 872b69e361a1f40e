--------------------------- MODULE CowFork_proofs ---------------------------
(***************************************************************************)
(* Theorems about CowFork, for any number of environments, pages and       *)
(* frames: a frame that is writable is private but for two windows inside  *)
(* the library, and copy-on-write fork implements the memories of          *)
(* ForkSpec.                                                               *)
(***************************************************************************)
EXTENDS CowFork, SequenceTheorems, WellFoundedInduction, TLAPS

\* The trap frame on top of the exception stack of e is at one of the steps S.
AtStep(e, S) == fault[e] # <<>> /\ fault[e][Depth(e)].step \in S

\* fork() as e executes it: who is not running is not in fork, the child of a
\* fork in progress is an embryo, fork's own faults are on the stack.
ForkShape(e) ==
  /\ status[e] \in {"free", "embryo", "gone"} =>
       pc[e] = "user" /\ fault[e] = <<>> /\ op[e] = NoOp
  /\ pc[e] \in {"uxstack", "dup", "mark"} <=> child[e] # NoEnv
  /\ child[e] # NoEnv => status[child[e]] = "embryo"
  /\ pc[e] # "user" => op[e] = NoOp /\ \A i \in 1..Depth(e) : fault[e][i].va = "stack"
  /\ op[e] # NoOp => op[e].v # Zero

\* What the loop of fork has done: pages that are no longer to do are mapped in
\* the child, those with data in the same frame.
LoopShape(e) ==
  pc[e] \in {"dup", "mark"} =>
    /\ "ux" \notin todo[e]
    /\ \A va \in Program \ todo[e] : pte[child[e]][va] # NoPte
    /\ \A d \in Data \ todo[e] : pte[child[e]][d].frame = pte[e][d].frame

\* Between the two calls of duppage: the child has the page already.
MarkShape(e) ==
  pc[e] = "mark" =>
    /\ fault[e] = <<>> /\ CanPush(e)
    /\ todo[e] # {} /\ "pftemp" \notin todo[e]
    /\ pte[e][NextPage(e)].perm \in {"w", "cow"}
    /\ pte[child[e]][NextPage(e)] = Pte(pte[e][NextPage(e)].frame, "cow")

\* The page tables: what a place may hold.
PteShape(e) ==
  /\ status[e] = "free" => \A va \in Vas : pte[e][va] = NoPte
  /\ status[e] \in {"live", "stuck"} => \A va \in Program : pte[e][va] # NoPte
  /\ \A va \in ReadOnly : pte[e][va].perm \in {"none", "r"}
  /\ \A va \in Data \cup {"stack"} :
       /\ pte[e][va].perm \in {"none", "w", "cow"}
       /\ status[e] = "embryo" => pte[e][va].perm # "w"
  /\ pte[e]["ux"].perm \in {"none", "w"}
  /\ pte[e]["pftemp"].perm \in {"none", "w"}
  /\ pte[e]["pftemp"] # NoPte <=> AtStep(e, {"copy", "map", "unmap"})

\* The trap frames: there are at most two, the outer one waits to return, a
\* word lies between them, and the page that is being copied is copy-on-write.
\* The exception stack stays writable, so that nothing faults on it.
FaultShape(e) ==
  /\ Depth(e) <= 2
  /\ Depth(e) >= 1 =>
       pte[e]["ux"].perm = "w" /\ fault[e][1].at = UxWords - UTrapWords
  /\ Depth(e) = 2 =>
       fault[e][1].step = "ret" /\ fault[e][2].at = UxWords - 2 * UTrapWords - 1
  /\ AtStep(e, {"copy", "map"}) => pte[e][FaultVa(e)].perm = "cow"

\* What does not depend on the contents of memory.
EnvShape(e) ==
  ForkShape(e) /\ LoopShape(e) /\ MarkShape(e) /\ PteShape(e) /\ FaultShape(e)

\* PFTEMP holds a copy of the page until it takes its place.
CopyInv(e) ==
  AtStep(e, {"map"}) => mem[pte[e]["pftemp"].frame] = mem[pte[e][FaultVa(e)].frame]

\* Two forks do not build the same child.
OneParent ==
  \A e, o \in Envs : child[e] # NoEnv /\ child[e] = child[o] => e = o

\* The inductive invariant.
IInv ==
  /\ TypeOK
  /\ WritableIsPrivate
  /\ OneParent
  /\ \A e \in Envs : EnvShape(e) /\ CopyInv(e)

-----------------------------------------------------------------------------
(* Trap frames, pages and places *)

TrapFrames == [va : Program, step : FaultSteps, at : Nat]

\* The trap frames s once the handler of the topmost is at step x.
TopAt(s, x) == [s EXCEPT ![Len(s)].step = x]

\* An exception stack that is not empty has a topmost trap frame.
LEMMA TopLemma ==
  ASSUME NEW s \in Seq(TrapFrames), s # <<>>
  PROVE  Len(s) \in Nat /\ Len(s) > 0 /\ s[Len(s)] \in TrapFrames
PROOF OBVIOUS

\* Advancing the handler touches the step of the topmost trap frame only.
LEMMA TopAtLemma ==
  ASSUME NEW s \in Seq(TrapFrames), s # <<>>, NEW x \in FaultSteps
  PROVE  /\ TopAt(s, x) \in Seq(TrapFrames) /\ TopAt(s, x) # <<>>
         /\ Len(TopAt(s, x)) = Len(s)
         /\ TopAt(s, x)[Len(s)].step = x
         /\ \A i \in 1..Len(s) : TopAt(s, x)[i].va = s[i].va /\ TopAt(s, x)[i].at = s[i].at
         /\ \A i \in 1..Len(s) : i # Len(s) => TopAt(s, x)[i] = s[i]
PROOF
  <1> DEFINE top == [s[Len(s)] EXCEPT !.step = x]
  <1>1. Len(s) \in 1..Len(s) /\ s[Len(s)] \in TrapFrames BY TopLemma
  <1>2. top \in TrapFrames /\ top.step = x /\ top.va = s[Len(s)].va /\ top.at = s[Len(s)].at
    BY <1>1 DEF TrapFrames
  <1>3. TopAt(s, x) = [s EXCEPT ![Len(s)] = top] BY DEF TopAt
  <1> HIDE DEF top
  <1> QED BY <1>1, <1>2, <1>3

\* Pushing a trap frame.
LEMMA PushLemma ==
  ASSUME NEW s \in Seq(TrapFrames), NEW f \in TrapFrames
  PROVE  /\ Append(s, f) \in Seq(TrapFrames) /\ Append(s, f) # <<>>
         /\ Len(Append(s, f)) = Len(s) + 1
         /\ Append(s, f)[Len(s) + 1] = f
         /\ \A i \in 1..Len(s) : Append(s, f)[i] = s[i]
PROOF OBVIOUS

\* Returning from a fault.
LEMMA PopLemma ==
  ASSUME NEW s \in Seq(TrapFrames), s # <<>>
  PROVE  /\ SubSeq(s, 1, Len(s) - 1) \in Seq(TrapFrames)
         /\ Len(SubSeq(s, 1, Len(s) - 1)) = Len(s) - 1
         /\ \A i \in 1..(Len(s) - 1) : SubSeq(s, 1, Len(s) - 1)[i] = s[i]
         /\ Len(s) = 1 => SubSeq(s, 1, Len(s) - 1) = <<>>
PROOF
  <1> DEFINE n == Len(s) - 1
  <1>1. n \in Int /\ n >= 0 /\ \A i \in 1..n : s[i] \in TrapFrames BY TopLemma
  <1> HIDE DEF n
  <1>2. /\ SubSeq(s, 1, n) \in Seq(TrapFrames)
        /\ Len(SubSeq(s, 1, n)) = IF 1 <= n THEN n - 1 + 1 ELSE 0
        /\ \A i \in 1..(n - 1 + 1) : SubSeq(s, 1, n)[i] = s[1 + i - 1]
    BY <1>1, SubSeqProperties
  <1>3. Len(SubSeq(s, 1, n)) = n BY <1>1, <1>2
  <1>4. \A i \in 1..n : SubSeq(s, 1, n)[i] = s[i] BY <1>1, <1>2
  <1>5. n = 0 => SubSeq(s, 1, n) = <<>> BY <1>2, <1>3
  <1>6. Len(s) = 1 => n = 0 BY DEF n
  <1> QED BY <1>2, <1>3, <1>4, <1>5, <1>6 DEF n

\* The page fork copies next is a function of the pages to do.
PageOf(S) ==
  IF "pftemp" \in S THEN "pftemp"
  ELSE IF S = {"stack"} THEN "stack"
  ELSE CHOOSE va \in S : va # "stack"

\* fork copies one of the pages that are to do, PFTEMP first.
LEMMA NextPageLemma ==
  ASSUME NEW e
  PROVE  /\ NextPage(e) = PageOf(todo[e])
         /\ todo[e] # {} => NextPage(e) \in todo[e]
         /\ "pftemp" \in todo[e] => NextPage(e) = "pftemp"
PROOF BY DEF NextPage, PageOf

\* The places of an address space.
LEMMA VasLemma ==
  /\ Program \subseteq Vas /\ Data \subseteq Program /\ ReadOnly \subseteq Program
  /\ "stack" \in Program /\ "ux" \in Vas /\ "pftemp" \in Vas
  /\ "ux" \notin Program /\ "pftemp" \notin Program
  /\ Vas = Program \cup {"ux", "pftemp"}
  /\ "stack" \notin Data /\ "stack" \notin ReadOnly
  /\ \A d \in Data : d \notin ReadOnly
PROOF BY CowForkAssumption DEF Vas, Program

\* What an entry of a page table holds.
LEMMA PteLemma ==
  /\ \A f \in Frames, p \in {"r", "w", "cow"} :
       Pte(f, p) \in Ptes /\ Pte(f, p).frame = f /\ Pte(f, p).perm = p /\ Pte(f, p) # NoPte
  /\ NoPte \in Ptes /\ NoPte.frame = 0 /\ NoPte.perm = "none"
  /\ \A x \in Ptes : /\ x.perm = "none" <=> x = NoPte
                     /\ x # NoPte => x.frame \in Frames /\ x.perm \in {"r", "w", "cow"}
                     /\ x # NoPte => x = Pte(x.frame, x.perm)
  /\ 0 \notin Frames
PROOF
  <1>1. \A f \in Frames, p \in {"r", "w", "cow"} :
       Pte(f, p) \in Ptes /\ Pte(f, p).frame = f /\ Pte(f, p).perm = p
    BY DEF Pte, Ptes
  <1>2. 0 \notin Frames BY CowForkAssumption DEF Frames
  <1>3. NoPte \in Ptes /\ NoPte.frame = 0 /\ NoPte.perm = "none" BY DEF NoPte, Ptes
  <1>4. ASSUME NEW x \in Ptes, x # NoPte
        PROVE  x.frame \in Frames /\ x.perm \in {"r", "w", "cow"} /\ x = Pte(x.frame, x.perm)
    BY <1>4 DEF Ptes, Pte
  <1> QED BY <1>1, <1>2, <1>3, <1>4

\* The frame the kernel hands out is mapped nowhere.
LEMMA NextFrameLemma ==
  ASSUME FreeFrames # {}
  PROVE  /\ NextFrame \in Frames
         /\ \A e \in Envs, va \in Vas : pte[e][va].frame # NextFrame
PROOF
  <1> DEFINE Less == OpToRel(<, Nat)
  <1>1. FreeFrames \subseteq Nat BY CowForkAssumption DEF FreeFrames, Frames
  <1>2. \A x, y \in Nat : y < x => <<y, x>> \in Less BY DEF OpToRel
  <1>3. IsWellFoundedOn(Less, Nat) BY NatLessThanWellFounded
  <1> HIDE DEF Less
  <1>4. PICK f \in FreeFrames : \A g \in FreeFrames : ~(<<g, f>> \in Less)
    BY <1>1, <1>3, WFMin
  <1>5. ASSUME NEW g \in FreeFrames PROVE f <= g
    <2>1. ~(g < f) BY <1>1, <1>2, <1>4, Zenon
    <2> QED BY <1>1, <2>1
  <1> QED BY <1>5 DEF NextFrame, FreeFrames

-----------------------------------------------------------------------------
(* Environments that a step leaves alone *)

\* A step does not change what belongs to o.
Same(o) ==
  /\ status'[o] = status[o] /\ pte'[o] = pte[o]
  /\ pc'[o] = pc[o] /\ child'[o] = child[o] /\ todo'[o] = todo[o]
  /\ op'[o] = op[o] /\ fault'[o] = fault[o]

\* A step does not change what is in the frames that o has mapped.
Keeps(o) ==
  \A va \in Vas : pte[o][va] # NoPte => mem'[pte[o][va].frame] = mem[pte[o][va].frame]

\* The shape of an environment depends on its own state and on its child's.
LEMMA BystanderLemma ==
  ASSUME NEW o \in Envs, EnvShape(o), Same(o), child[o] # NoEnv => Same(child[o])
  PROVE  EnvShape(o)'
PROOF
  <1>1. NextPage(o)' = NextPage(o)
    <2>1. NextPage(o) = PageOf(todo[o]) BY NextPageLemma
    <2>2. NextPage(o)' = PageOf(todo'[o]) BY DEF NextPage, PageOf
    <2> QED BY <2>1, <2>2 DEF Same
  <1>2. \A S : AtStep(o, S)' <=> AtStep(o, S) BY DEF AtStep, Depth, Same
  <1>3. ForkShape(o)' BY DEF ForkShape, EnvShape, Same, Depth
  <1>4. LoopShape(o)' BY DEF ForkShape, LoopShape, EnvShape, Same
  <1>5. MarkShape(o)'
    <2> SUFFICES ASSUME pc[o] = "mark"
                 PROVE  /\ fault'[o] = <<>> /\ CanPush(o)'
                        /\ todo'[o] # {} /\ "pftemp" \notin todo'[o]
                        /\ pte'[o][NextPage(o)].perm \in {"w", "cow"}
                        /\ pte'[child[o]][NextPage(o)] = Pte(pte'[o][NextPage(o)].frame, "cow")
      BY <1>1 DEF MarkShape, Same
    <2>1. child[o] # NoEnv BY DEF ForkShape, EnvShape
    <2> QED BY <2>1 DEF MarkShape, EnvShape, Same, CanPush
  <1>6. PteShape(o)' BY <1>2 DEF PteShape, EnvShape, Same
  <1>7. FaultShape(o)' BY <1>2 DEF FaultShape, EnvShape, Same, Depth, FaultVa
  <1> QED BY <1>3, <1>4, <1>5, <1>6, <1>7 DEF EnvShape

\* A copy in progress and the memory of an environment depend on its frames.
LEMMA KeptLemma ==
  ASSUME TypeOK, NEW o \in Envs, EnvShape(o), CopyInv(o), Same(o), Keeps(o)
  PROVE  CopyInv(o)' /\ Memory(o)' = Memory(o)
PROOF
  <1>1. CopyInv(o)'
    <2> SUFFICES ASSUME AtStep(o, {"map"})
                 PROVE  mem'[pte[o]["pftemp"].frame] = mem'[pte[o][FaultVa(o)].frame]
      BY DEF CopyInv, Same, AtStep, FaultVa, Depth
    <2>1. FaultVa(o) \in Vas
      BY TopLemma, VasLemma DEF AtStep, FaultVa, Depth, TypeOK, TrapFrames
    <2>2. pte[o]["pftemp"] # NoPte BY DEF AtStep, EnvShape, PteShape
    <2>3. pte[o][FaultVa(o)] # NoPte
      BY PteLemma DEF AtStep, EnvShape, FaultShape
    <2> QED BY <2>1, <2>2, <2>3, VasLemma DEF Keeps, CopyInv
  <1>2. Memory(o)' = Memory(o)
    <2>1. CASE status[o] \in {"live", "stuck"}
      <3>1. \A d \in Data : pte[o][d] # NoPte
        BY <2>1, VasLemma DEF EnvShape, PteShape
      <3>2. \A d \in Data : mem'[pte[o][d].frame] = mem[pte[o][d].frame]
        BY <3>1, VasLemma DEF Keeps
      <3>3. Memory(o)' = [d \in Data |-> mem'[pte[o][d].frame]]
        BY <2>1 DEF Memory, Same
      <3>4. Memory(o) = [d \in Data |-> mem[pte[o][d].frame]]
        BY <2>1 DEF Memory
      <3> QED BY <3>2, <3>3, <3>4
    <2>2. CASE status[o] \notin {"live", "stuck"}
      BY <2>2 DEF Memory, Same
    <2> QED BY <2>1, <2>2
  <1> QED BY <1>1, <1>2

\* What is left to show for a step of e, which may also act on the child c it
\* makes or builds (NoEnv: on none).
LEMMA StepLemma ==
  ASSUME IInv, NEW e \in Envs, status[e] \in {"live", "stuck"},
         NEW c, c = NoEnv \/ c = child[e] \/ (c \in Envs /\ status[c] = "free"),
         \A o \in Envs \ {e, c} : Same(o) /\ Keeps(o),
         child'[e] \in {child[e], c, NoEnv},
         TypeOK', WritableIsPrivate', EnvShape(e)', CopyInv(e)',
         c # NoEnv => EnvShape(c)' /\ CopyInv(c)' /\ child'[c] = NoEnv
  PROVE  /\ IInv'
         /\ \A o \in Envs \ {e, c} : Memory(o)' = Memory(o)
PROOF
  <1>1. ASSUME NEW o \in Envs \ {e, c}, child[o] # NoEnv
        PROVE  child[o] \in Envs \ {e, c}
    <2>1. child[o] \in Envs /\ status[child[o]] = "embryo"
      BY <1>1 DEF IInv, TypeOK, EnvShape, ForkShape
    <2>2. child[o] # e BY <2>1
    <2>3. child[o] # c
      <3>1. CASE c = child[e]
        BY <3>1, <1>1 DEF IInv, OneParent
      <3> QED BY <3>1, <2>1, <1>1
    <2> QED BY <2>1, <2>2, <2>3
  <1>2. ASSUME NEW o \in Envs \ {e, c}
        PROVE  EnvShape(o)' /\ CopyInv(o)' /\ Memory(o)' = Memory(o)
    <2>1. EnvShape(o) /\ CopyInv(o) /\ TypeOK BY DEF IInv
    <2>2. EnvShape(o)' BY <1>1, <2>1, BystanderLemma
    <2> QED BY <2>1, <2>2, KeptLemma
  <1>3. OneParent'
    <2> SUFFICES ASSUME NEW x \in Envs, NEW y \in Envs,
                        child'[x] # NoEnv, child'[x] = child'[y], x # y
                 PROVE  FALSE
      BY DEF OneParent
    <2>1. x # c /\ y # c BY CowForkAssumption
    <2>2. \A o \in Envs \ {e, c} : child'[o] = child[o] BY DEF Same
    <2>3. CASE x # e /\ y # e BY <2>1, <2>2, <2>3 DEF IInv, OneParent
    <2>4. ASSUME NEW o \in Envs \ {e, c}, child'[o] = child'[e], child'[o] # NoEnv
          PROVE  FALSE
      <3>1. child[o] = child'[e] /\ child[o] # NoEnv BY <2>2, <2>4
      <3>2. child[o] # c BY <3>1, <1>1
      <3>3. child[o] = child[e] BY <3>1, <3>2
      <3> QED BY <3>1, <3>3 DEF IInv, OneParent
    <2> QED BY <2>1, <2>3, <2>4
  <1>4. \A o \in Envs : EnvShape(o)' /\ CopyInv(o)' BY <1>2, CowForkAssumption
  <1> QED BY <1>2, <1>3, <1>4 DEF IInv

\* One entry of one page table is written.
LEMMA MapLemma ==
  ASSUME TypeOK, NEW x \in Envs, NEW va \in Vas, NEW p \in Ptes,
         pte' = [pte EXCEPT ![x][va] = p]
  PROVE  /\ pte' \in [Envs -> [Vas -> Ptes]]
         /\ pte'[x][va] = p
         /\ \A ov \in Vas \ {va} : pte'[x][ov] = pte[x][ov]
         /\ \A o \in Envs \ {x} : pte'[o] = pte[o]
PROOF
  <1>1. pte \in [Envs -> [Vas -> Ptes]] BY DEF TypeOK
  <1> QED BY <1>1

-----------------------------------------------------------------------------
(* Writable frames *)

\* Outside the two windows a place that is writable has its frame for itself.
LEMMA PrivateLemma ==
  ASSUME WritableIsPrivate, NEW e \in Envs, NEW va \in Vas, pte[e][va].perm = "w",
         pc[e] # "mark", ~AtStep(e, {"unmap"}),
         NEW o \in Envs, NEW ov \in Vas, pte[o][ov].frame = pte[e][va].frame
  PROVE  o = e /\ ov = va
PROOF BY DEF WritableIsPrivate, AtStep

\* The two windows: place ov of o may share the frame of place va of e, which
\* is writable.
Window(e, va, o, ov) ==
  \/ pc[e] = "mark" /\ o = child[e] /\ ov = va /\ va = NextPage(e)
  \/ /\ e = o /\ fault[e] # <<>> /\ fault[e][Depth(e)].step = "unmap"
     /\ {va, ov} = {"pftemp", FaultVa(e)}

\* The places of a and b share a frame, and a may write it.
SharesWritable(a, av, b, bv) ==
  pte[a][av].perm = "w" /\ pte[b][bv].frame = pte[a][av].frame /\ <<a, av>> # <<b, bv>>

\* WritableIsPrivate in these words.
LEMMA WindowLemma ==
  WritableIsPrivate <=>
    \A a, b \in Envs, av, bv \in Vas : SharesWritable(a, av, b, bv) => Window(a, av, b, bv)
PROOF BY DEF WritableIsPrivate, SharesWritable, Window

\* The windows of an environment are its own.
LEMMA WindowStays ==
  ASSUME NEW x, pc'[x] = pc[x], child'[x] = child[x], todo'[x] = todo[x],
         fault'[x] = fault[x], NEW va, NEW o, NEW ov, Window(x, va, o, ov)
  PROVE  Window(x, va, o, ov)'
PROOF
  <1>1. NextPage(x) = PageOf(todo[x]) BY NextPageLemma
  <1>2. NextPage(x)' = PageOf(todo'[x]) BY DEF NextPage, PageOf
  <1> QED BY <1>1, <1>2 DEF Window, Depth, FaultVa

\* A step of e keeps writable frames private if what is shared after it was
\* shared before it, outside e's own windows, or is in a window.
LEMMA PrivateStep ==
  ASSUME WritableIsPrivate, NEW e,
         \A o \in Envs \ {e} : pc'[o] = pc[o] /\ child'[o] = child[o]
                               /\ todo'[o] = todo[o] /\ fault'[o] = fault[o],
         \A a, b \in Envs, av, bv \in Vas :
           SharesWritable(a, av, b, bv)' =>
             \/ Window(a, av, b, bv)'
             \/ a # e /\ SharesWritable(a, av, b, bv)
  PROVE  WritableIsPrivate'
PROOF
  <1> SUFFICES ASSUME NEW a \in Envs, NEW b \in Envs, NEW av \in Vas, NEW bv \in Vas,
                      SharesWritable(a, av, b, bv)'
               PROVE  Window(a, av, b, bv)'
    BY DEF WritableIsPrivate, SharesWritable, Window
  <1>1. CASE a # e /\ SharesWritable(a, av, b, bv)
    <2>1. Window(a, av, b, bv) BY <1>1, WindowLemma
    <2> QED BY <1>1, <2>1, WindowStays
  <1> QED BY <1>1

\* Outside the windows an environment shares nothing it may write.
LEMMA NothingShared ==
  ASSUME WritableIsPrivate, NEW e \in Envs, pc[e] # "mark", ~AtStep(e, {"unmap"}),
         NEW b \in Envs, NEW av \in Vas, NEW bv \in Vas
  PROVE  ~SharesWritable(e, av, b, bv)
PROOF BY PrivateLemma DEF SharesWritable

\* A step of e outside the windows that maps nothing opens no window.
LEMMA NothingMapped ==
  ASSUME WritableIsPrivate, NEW e \in Envs, pte' = pte, pc[e] # "mark",
         ~AtStep(e, {"unmap"}),
         \A o \in Envs \ {e} : pc'[o] = pc[o] /\ child'[o] = child[o]
                               /\ todo'[o] = todo[o] /\ fault'[o] = fault[o]
  PROVE  WritableIsPrivate'
PROOF
  <1>1. ASSUME NEW a \in Envs, NEW b \in Envs, NEW av \in Vas, NEW bv \in Vas,
               SharesWritable(a, av, b, bv)'
        PROVE  a # e /\ SharesWritable(a, av, b, bv)
    <2>1. SharesWritable(a, av, b, bv) BY <1>1 DEF SharesWritable
    <2> QED BY <2>1, NothingShared
  <1> QED BY <1>1, PrivateStep

\* A page that was free is mapped at one place of x, a step of e outside the
\* windows.
LEMMA FreshMapped ==
  ASSUME TypeOK, WritableIsPrivate, NEW e \in Envs, pc[e] # "mark",
         ~AtStep(e, {"unmap"}),
         NEW x \in Envs, NEW va \in Vas, FreeFrames # {},
         pte' = [pte EXCEPT ![x][va] = Pte(NextFrame, "w")],
         \A o \in Envs \ {e} : pc'[o] = pc[o] /\ child'[o] = child[o]
                               /\ todo'[o] = todo[o] /\ fault'[o] = fault[o]
  PROVE  WritableIsPrivate'
PROOF
  <1>1. pte'[x][va].frame = NextFrame
    BY NextFrameLemma, PteLemma DEF TypeOK
  <1>2. \A o \in Envs, ov \in Vas : <<o, ov>> # <<x, va>> => pte'[o][ov] = pte[o][ov]
    BY DEF TypeOK
  <1>3. ASSUME NEW a \in Envs, NEW b \in Envs, NEW av \in Vas, NEW bv \in Vas,
               SharesWritable(a, av, b, bv)'
        PROVE  a # e /\ SharesWritable(a, av, b, bv)
    <2>1. <<a, av>> # <<x, va>> /\ <<b, bv>> # <<x, va>>
      BY <1>1, <1>2, <1>3, NextFrameLemma DEF SharesWritable
    <2>2. SharesWritable(a, av, b, bv) BY <1>2, <1>3, <2>1 DEF SharesWritable
    <2> QED BY <2>2, NothingShared
  <1> QED BY <1>3, PrivateStep

-----------------------------------------------------------------------------
(* What the steps are made of: panic, a fault, the end, a store *)

\* No memory changes that a program can see.
Quiet == \A o \in Envs : Memory(o)' = Memory(o)

\* panic, wherever the library calls it.
LEMMA PanicLemma ==
  ASSUME IInv, NEW e \in Envs, status[e] = "live", panic(e), pc[e] # "mark",
         ~AtStep(e, {"unmap"}),
         UNCHANGED <<pte, mem, upcall, handler, child, todo, op, fault>>,
         \/ pc' = pc
         \/ /\ pc[e] = "user" /\ op[e] = NoOp /\ fault[e] = <<>>
            /\ pc' = [pc EXCEPT ![e] = "exofork"]
  PROVE  IInv' /\ Quiet
PROOF
  <1>1. TypeOK /\ WritableIsPrivate /\ EnvShape(e) /\ CopyInv(e) BY DEF IInv
  <1>2. TypeOK' BY <1>1 DEF TypeOK, panic, Phases
  <1>3. status'[e] = "stuck" /\ \A o \in Envs \ {e} : status'[o] = status[o]
    BY <1>1 DEF TypeOK, panic
  <1>4. \A o \in Envs \ {e} : pc'[o] = pc[o] BY <1>1 DEF TypeOK
  <1>5. \/ pc'[e] = pc[e]
        \/ pc[e] = "user" /\ op[e] = NoOp /\ fault[e] = <<>> /\ pc'[e] = "exofork"
    BY <1>1 DEF TypeOK
  <1>6. /\ pc'[e] \in {"uxstack", "dup", "mark"} <=> pc[e] \in {"uxstack", "dup", "mark"}
        /\ pc'[e] \in {"dup", "mark"} => pc[e] \in {"dup", "mark"}
        /\ pc'[e] # "mark"
    BY <1>5
  <1>7. ASSUME NEW o \in Envs \ {e} PROVE Same(o) /\ Keeps(o)
    BY <1>3, <1>4 DEF Same, Keeps
  <1>8. WritableIsPrivate'
    BY <1>1, <1>4, NothingMapped
  <1>9. EnvShape(e)'
    <2>1. ForkShape(e)'
      <3>1. child[e] # NoEnv => child[e] \in Envs /\ child[e] # e /\ status'[child[e]] = "embryo"
        BY <1>1, <1>3 DEF EnvShape, ForkShape, TypeOK
      <3>2. pc'[e] # "user" => op[e] = NoOp /\ \A i \in 1..Depth(e) : fault[e][i].va = "stack"
        BY <1>1, <1>5 DEF EnvShape, ForkShape, Depth
      <3> QED BY <1>1, <1>3, <1>6, <3>1, <3>2 DEF EnvShape, ForkShape, Depth
    <2>2. LoopShape(e)' BY <1>1, <1>6 DEF EnvShape, LoopShape
    <2>3. MarkShape(e)' BY <1>6 DEF MarkShape
    <2>4. PteShape(e)' BY <1>1, <1>3 DEF EnvShape, PteShape, AtStep, Depth
    <2>5. FaultShape(e)' BY <1>1 DEF EnvShape, FaultShape, AtStep, Depth, FaultVa
    <2> QED BY <2>1, <2>2, <2>3, <2>4, <2>5 DEF EnvShape
  <1>10. CopyInv(e)' BY <1>1 DEF CopyInv, AtStep, Depth, FaultVa
  <1>11. Memory(e)' = Memory(e) BY <1>3 DEF Memory
  <1>12. IInv' /\ \A o \in Envs \ {e, NoEnv} : Memory(o)' = Memory(o)
    BY <1>2, <1>7, <1>8, <1>9, <1>10, StepLemma
  <1> QED BY <1>11, <1>12, CowForkAssumption DEF Quiet

\* The kernel pushes a trap frame: a fault of user code, of fork's own stack,
\* or of the upcall that returns.
LEMMA FaultLemma ==
  ASSUME IInv, NEW e \in Envs, status[e] = "live", pc[e] # "mark",
         NEW va \in Program, NEW instr \in Ops,
         Depth(e) < 2, fault[e] # <<>> => fault[e][Depth(e)].step = "ret",
         instr # NoOp => instr.v # Zero /\ pc[e] = "user",
         pc[e] # "user" => va = "stack",
         user_mem_assert(e),
         fault' = [fault EXCEPT ![e] = Append(@, [va |-> va, step |-> "alloc",
                                                  at |-> FrameAt(e)])],
         op' = [op EXCEPT ![e] = instr],
         UNCHANGED <<status, pte, mem, upcall, handler, forkVars>>
  PROVE  IInv' /\ Quiet
PROOF
  <1> DEFINE f == [va |-> va, step |-> "alloc", at |-> FrameAt(e)]
  <1>1. TypeOK /\ WritableIsPrivate /\ EnvShape(e) /\ CopyInv(e) BY DEF IInv
  <1>3. fault[e] \in Seq(TrapFrames) BY <1>1 DEF TypeOK, TrapFrames
  <1>0. FrameAt(e) \in Nat
    <2>1. Depth(e) \in Nat BY <1>3 DEF Depth
    <2>4. Depth(e) > 0 => fault[e][Depth(e)].at \in Nat
      <3> SUFFICES ASSUME Depth(e) > 0 PROVE fault[e][Depth(e)].at \in Nat
        OBVIOUS
      <3>1. fault[e] # <<>> BY <1>3 DEF Depth
      <3>2. fault[e][Depth(e)] \in TrapFrames BY <1>3, <3>1, TopLemma DEF Depth
      <3> QED BY <3>2 DEF TrapFrames
    <2>2. UxWords \in Nat BY CowForkAssumption
    <2>3. FrameTop(e) \in Int BY <2>1, <2>2, <2>4 DEF FrameTop
    <2> QED BY <2>3 DEF FrameAt, user_mem_assert, UTrapWords
  <1>2. f \in TrapFrames /\ f.va = va /\ f.step = "alloc" /\ f.at = FrameAt(e)
    BY <1>0 DEF TrapFrames, FaultSteps
  <1>4. fault'[e] = Append(fault[e], f) /\ op'[e] = instr BY <1>1 DEF TypeOK
  <1>5. \A o \in Envs \ {e} : fault'[o] = fault[o] /\ op'[o] = op[o] BY <1>1 DEF TypeOK
  <1>6. Append(fault[e], f) \in Seq(TrapFrames) BY <1>2, <1>3, PushLemma
  <1>7. TypeOK' BY <1>1, <1>6 DEF TypeOK, TrapFrames, forkVars
  <1> HIDE DEF f
  <1>8. /\ fault'[e] # <<>> /\ Len(fault'[e]) = Depth(e) + 1
        /\ fault'[e][Depth(e) + 1] = f
        /\ \A i \in 1..Depth(e) : fault'[e][i] = fault[e][i]
    BY <1>2, <1>3, <1>4, PushLemma DEF Depth
  <1>9. Depth(e) \in Nat /\ Depth(e)' = Depth(e) + 1 BY <1>3, <1>8 DEF Depth
  <1>10. fault'[e][Depth(e)'].step = "alloc" BY <1>2, <1>8, <1>9
  <1>11. ~AtStep(e, {"copy", "map", "unmap"}) /\ ~AtStep(e, {"unmap"})
    BY DEF AtStep
  <1>12. /\ ~AtStep(e, {"copy", "map", "unmap"})' /\ ~AtStep(e, {"copy", "map"})'
         /\ ~AtStep(e, {"map"})'
    BY <1>10 DEF AtStep
  <1>13. ASSUME NEW o \in Envs \ {e} PROVE Same(o) /\ Keeps(o)
    BY <1>5 DEF Same, Keeps, forkVars
  <1>14. WritableIsPrivate'
    BY <1>1, <1>5, <1>11, NothingMapped DEF forkVars
  <1>15. EnvShape(e)'
    <2>1. pc[e] # "user" => \A i \in 1..Depth(e)' : fault'[e][i].va = "stack"
      <3> SUFFICES ASSUME pc[e] # "user", NEW i \in 1..(Depth(e) + 1)
                   PROVE  fault'[e][i].va = "stack"
        BY <1>9
      <3>1. CASE i = Depth(e) + 1 BY <3>1, <1>8, <1>2
      <3>2. CASE i # Depth(e) + 1
        <4>1. i \in 1..Depth(e) BY <3>2, <1>9
        <4> QED BY <4>1, <1>1, <1>8 DEF EnvShape, ForkShape
      <3> QED BY <3>1, <3>2
    <2>2. ForkShape(e)' BY <1>1, <1>4, <2>1 DEF EnvShape, ForkShape, forkVars
    <2>3. LoopShape(e)' BY <1>1 DEF EnvShape, LoopShape, forkVars
    <2>4. MarkShape(e)' BY DEF MarkShape, forkVars
    <2>5. PteShape(e)' BY <1>1, <1>11, <1>12 DEF EnvShape, PteShape
    <2>6. FaultShape(e)'
      <3>1. Depth(e)' <= 2 BY <1>9
      <3>2. CASE Depth(e) = 0
        <4>1. Depth(e)' = 1 /\ fault'[e][1] = f BY <1>8, <1>9, <3>2
        <4>2. fault'[e][1].at = UxWords - UTrapWords
          BY <1>2, <3>2, <4>1 DEF FrameAt, FrameTop
        <4> QED BY <1>12, <4>1, <4>2 DEF FaultShape, user_mem_assert
      <3>3. CASE Depth(e) = 1
        <4>1. Depth(e)' = 2 /\ fault'[e][2] = f /\ fault'[e][1] = fault[e][1]
          BY <1>8, <1>9, <3>3
        <4>2. fault[e][1].at = UxWords - UTrapWords /\ fault[e][1].step = "ret"
          BY <1>1, <1>3, <3>3 DEF EnvShape, FaultShape, Depth
        <4>3. fault'[e][2].at = UxWords - 2 * UTrapWords - 1
          BY <1>2, <3>3, <4>1, <4>2, CowForkAssumption DEF FrameAt, FrameTop, UTrapWords
        <4> QED BY <1>12, <4>1, <4>2, <4>3 DEF FaultShape, user_mem_assert
      <3> QED BY <1>9, <3>2, <3>3
    <2> QED BY <2>2, <2>3, <2>4, <2>5, <2>6 DEF EnvShape
  <1>16. CopyInv(e)' BY <1>12 DEF CopyInv
  <1>17. Memory(e)' = Memory(e) BY DEF Memory
  <1>18. child'[e] = child[e] BY DEF forkVars
  <1>19. IInv' /\ \A o \in Envs \ {e, NoEnv} : Memory(o)' = Memory(o)
    BY <1>7, <1>13, <1>14, <1>15, <1>16, <1>18, StepLemma
  <1> QED BY <1>17, <1>19, CowForkAssumption DEF Quiet

\* The end of an environment, with everything it has mapped.
LEMMA DestroyLemma ==
  ASSUME IInv, NEW e \in Envs, status[e] \in {"live", "stuck"}, env_destroy(e)
  PROVE  /\ IInv'
         /\ \A o \in Envs \ {e} : Memory(o)' = Memory(o)
         /\ Memory(e)' = Dead
PROOF
  <1>1. TypeOK /\ WritableIsPrivate /\ EnvShape(e) /\ CopyInv(e) BY DEF IInv
  <1>2. TypeOK'
    <2>1. mem' \in [Frames -> Values] BY <1>1, CowForkAssumption DEF TypeOK, env_destroy
    <2>2. pte' \in [Envs -> [Vas -> Ptes]] BY <1>1, PteLemma DEF TypeOK, env_destroy
    <2>3. fault' \in [Envs -> Seq([va : Program, step : FaultSteps, at : Nat])]
      <3> DEFINE T == [va : Program, step : FaultSteps, at : Nat]
      <3>1. fault \in [Envs -> Seq(T)] BY <1>1 DEF TypeOK
      <3>2. fault' = [fault EXCEPT ![e] = <<>>] BY DEF env_destroy
      <3> HIDE DEF T
      <3>3. <<>> \in Seq(T) OBVIOUS
      <3>4. fault' \in [Envs -> Seq(T)] BY <3>1, <3>2, <3>3
      <3> QED BY <3>4 DEF T
    <2>4. op' \in [Envs -> Ops] BY <1>1 DEF TypeOK, env_destroy, Ops
    <2> QED BY <1>1, <2>1, <2>2, <2>3, <2>4 DEF TypeOK, env_destroy, Phases
  <1>3. /\ status'[e] = "gone" /\ pte'[e] = [va \in Vas |-> NoPte] /\ pc'[e] = "user"
        /\ child'[e] = NoEnv /\ todo'[e] = {} /\ op'[e] = NoOp /\ fault'[e] = <<>>
    BY <1>1 DEF TypeOK, env_destroy
  <1>4. ASSUME NEW o \in Envs \ {e} PROVE Same(o)
    BY <1>1 DEF TypeOK, env_destroy, Same
  <1>5. ASSUME NEW o \in Envs \ {e} PROVE Keeps(o)
    <2> SUFFICES ASSUME NEW va \in Vas, pte[o][va] # NoPte
                 PROVE  mem'[pte[o][va].frame] = mem[pte[o][va].frame]
      BY DEF Keeps
    <2>1. pte[o][va].frame \in Frames BY <1>1, PteLemma DEF TypeOK
    <2>2. ~MappedOnlyBy(e, pte[o][va].frame) BY DEF MappedOnlyBy
    <2> QED BY <2>1, <2>2 DEF env_destroy
  <1>6. \A va \in Vas : pte'[e][va] = NoPte BY <1>3
  <1>7. WritableIsPrivate'
    <2>1. ASSUME NEW a \in Envs, NEW b \in Envs, NEW av \in Vas, NEW bv \in Vas,
                 SharesWritable(a, av, b, bv)'
          PROVE  a # e /\ SharesWritable(a, av, b, bv)
      <3>1. a # e BY <1>6, <2>1, PteLemma DEF SharesWritable
      <3>2. pte'[a] = pte[a] BY <1>4, <3>1 DEF Same
      <3>3. pte[a][av].frame \in Frames
        BY <1>1, <2>1, <3>2, PteLemma DEF TypeOK, SharesWritable
      <3>4. b # e BY <1>6, <2>1, <3>2, <3>3, PteLemma DEF SharesWritable
      <3>5. pte'[b] = pte[b] BY <1>4, <3>4 DEF Same
      <3> QED BY <2>1, <3>1, <3>2, <3>5 DEF SharesWritable
    <2>2. \A o \in Envs \ {e} : pc'[o] = pc[o] /\ child'[o] = child[o]
                               /\ todo'[o] = todo[o] /\ fault'[o] = fault[o]
      BY <1>4 DEF Same
    <2> QED BY <1>1, <2>1, <2>2, PrivateStep
  <1>8. Depth(e)' = 0 /\ \A S : ~AtStep(e, S)' BY <1>3 DEF Depth, AtStep
  <1>9. EnvShape(e)'
    <2>1. ForkShape(e)' BY <1>3 DEF ForkShape
    <2>2. LoopShape(e)' /\ MarkShape(e)' BY <1>3 DEF LoopShape, MarkShape
    <2>3. PteShape(e)' BY <1>3, <1>6, <1>8, PteLemma, VasLemma DEF PteShape
    <2>4. FaultShape(e)' BY <1>8 DEF FaultShape
    <2> QED BY <2>1, <2>2, <2>3, <2>4 DEF EnvShape
  <1>10. CopyInv(e)' BY <1>8 DEF CopyInv
  <1>11. Memory(e)' = Dead BY <1>3 DEF Memory
  <1>12. IInv' /\ \A o \in Envs \ {e, NoEnv} : Memory(o)' = Memory(o)
    BY <1>2, <1>3, <1>4, <1>5, <1>7, <1>9, <1>10, StepLemma
  <1> QED BY <1>11, <1>12, CowForkAssumption

\* A store of user code changes one page of one memory.
LEMMA StoreLemma ==
  ASSUME IInv, NEW e \in Envs, Executing(e), pc[e] = "user",
         NEW va \in Program, NEW v \in Values, execute(e, va, v)
  PROVE  /\ IInv'
         /\ \A o \in Envs \ {e} : Memory(o)' = Memory(o)
         /\ \/ Memory(e)' = Memory(e)
            \/ va \in Data /\ Memory(e)' = [Memory(e) EXCEPT ![va] = v]
PROOF
  <1>1. TypeOK /\ WritableIsPrivate /\ EnvShape(e) /\ CopyInv(e) BY DEF IInv
  <1>2. va \in Vas /\ pte[e][va].perm = "w" BY VasLemma DEF execute
  <1>3. pte[e][va].frame \in Frames BY <1>1, <1>2, PteLemma DEF TypeOK
  <1>4. UNCHANGED <<status, pte, upcall, handler, forkVars, fault>>
    BY DEF execute
  <1>5. op'[e] = NoOp /\ \A o \in Envs \ {e} : op'[o] = op[o]
    BY <1>1 DEF TypeOK, execute
  <1>6. TypeOK'
    <2>1. mem' \in [Frames -> Values] BY <1>1 DEF TypeOK, execute
    <2>2. op' \in [Envs -> Ops] BY <1>1 DEF TypeOK, execute, Ops
    <2> QED BY <1>1, <1>4, <2>1, <2>2 DEF TypeOK, forkVars
  <1>7. status[e] = "live" /\ fault[e] = <<>> BY DEF Executing
  <1>8. \A S : ~AtStep(e, S) BY <1>7 DEF AtStep
  <1>9. \A f \in Frames : f # pte[e][va].frame => mem'[f] = mem[f]
    BY <1>1 DEF TypeOK, execute
  <1>10. ASSUME NEW o \in Envs, NEW ov \in Vas, pte[o][ov] # NoPte, <<o, ov>> # <<e, va>>
         PROVE  mem'[pte[o][ov].frame] = mem[pte[o][ov].frame]
    <2>1. pte[o][ov].frame \in Frames BY <1>1, <1>10, PteLemma DEF TypeOK
    <2>2. pte[o][ov].frame # pte[e][va].frame
      BY <1>1, <1>2, <1>8, <1>10, PrivateLemma
    <2> QED BY <1>9, <2>1, <2>2
  <1>11. ASSUME NEW o \in Envs \ {e} PROVE Same(o) /\ Keeps(o)
    BY <1>4, <1>5, <1>10 DEF Same, Keeps, forkVars
  <1>12. WritableIsPrivate' BY <1>1, <1>4, <1>8, NothingMapped DEF forkVars
  <1>13. EnvShape(e)'
    <2>1. ForkShape(e)' BY <1>1, <1>4, <1>5 DEF EnvShape, ForkShape, Depth, forkVars
    <2>2. LoopShape(e)' /\ MarkShape(e)' BY <1>4 DEF LoopShape, MarkShape, forkVars
    <2>3. PteShape(e)' BY <1>1, <1>4 DEF EnvShape, PteShape, AtStep, Depth
    <2>4. FaultShape(e)' BY <1>1, <1>4 DEF EnvShape, FaultShape, AtStep, Depth, FaultVa
    <2> QED BY <2>1, <2>2, <2>3, <2>4 DEF EnvShape
  <1>14. CopyInv(e)' BY <1>4, <1>8 DEF CopyInv, AtStep, Depth
  <1>15. Memory(e)' = Memory(e) \/ (va \in Data /\ Memory(e)' = [Memory(e) EXCEPT ![va] = v])
    <2>1. Memory(e) = [d \in Data |-> mem[pte[e][d].frame]]
      BY <1>7 DEF Memory
    <2>2. Memory(e)' = [d \in Data |-> mem'[pte[e][d].frame]]
      BY <1>4, <1>7 DEF Memory
    <2>3. \A d \in Data : pte[e][d] # NoPte /\ d \in Vas
      BY <1>1, <1>7, VasLemma DEF EnvShape, PteShape
    <2>4. \A d \in Data \ {va} : mem'[pte[e][d].frame] = mem[pte[e][d].frame]
      BY <2>3, <1>10
    <2>5. CASE va \in Data
      <3>1. mem'[pte[e][va].frame] = v BY <1>1, <1>3, <2>5 DEF TypeOK, execute
      <3> QED BY <2>1, <2>2, <2>4, <2>5, <3>1
    <2>6. CASE va \notin Data
      BY <2>1, <2>2, <2>4, <2>6
    <2> QED BY <2>5, <2>6
  <1>16. child'[e] = child[e] BY <1>4 DEF forkVars
  <1>17. IInv' /\ \A o \in Envs \ {e, NoEnv} : Memory(o)' = Memory(o)
    BY <1>6, <1>7, <1>11, <1>12, <1>13, <1>14, <1>16, StepLemma
  <1> QED BY <1>15, <1>17, CowForkAssumption

-----------------------------------------------------------------------------
(* The page fault handler *)

\* What the next step of the handler does to the trap frames.
LEMMA SetStepLemma ==
  ASSUME TypeOK, NEW e \in Envs, fault[e] # <<>>, NEW x \in FaultSteps, SetStep(e, x)
  PROVE  /\ fault' \in [Envs -> Seq(TrapFrames)]
         /\ \A o \in Envs \ {e} : fault'[o] = fault[o]
         /\ fault'[e] # <<>> /\ Depth(e)' = Depth(e) /\ FaultVa(e)' = FaultVa(e)
         /\ \A S : AtStep(e, S)' <=> x \in S
         /\ \A i \in 1..Depth(e) : fault'[e][i].va = fault[e][i].va
                                  /\ fault'[e][i].at = fault[e][i].at
         /\ Depth(e) = 2 => fault'[e][1] = fault[e][1]
         /\ Depth(e) \in Nat /\ Depth(e) > 0 /\ FaultVa(e) \in Program
PROOF
  <1>1. fault[e] \in Seq(TrapFrames) BY DEF TypeOK, TrapFrames
  <1>2. fault'[e] = TopAt(fault[e], x) BY DEF TypeOK, SetStep, TopAt, Depth
  <1>3. \A o \in Envs \ {e} : fault'[o] = fault[o] BY DEF TypeOK, SetStep
  <1>4. DOMAIN fault' = Envs /\ fault' = [o \in Envs |-> fault'[o]] BY DEF TypeOK, SetStep
  <1>5. TopAt(fault[e], x) \in Seq(TrapFrames) BY <1>1, TopAtLemma
  <1>6. \A o \in Envs : fault'[o] \in Seq(TrapFrames)
    BY <1>2, <1>3, <1>5 DEF TypeOK, TrapFrames
  <1>7. fault' \in [Envs -> Seq(TrapFrames)] BY <1>4, <1>6
  <1>8. Depth(e) \in Nat /\ Depth(e) > 0 /\ fault[e][Depth(e)] \in TrapFrames
    BY <1>1, TopLemma DEF Depth
  <1>9. /\ TopAt(fault[e], x) # <<>>
        /\ Len(TopAt(fault[e], x)) = Len(fault[e])
        /\ TopAt(fault[e], x)[Len(fault[e])].step = x
        /\ \A i \in 1..Len(fault[e]) : TopAt(fault[e], x)[i].va = fault[e][i].va
                                     /\ TopAt(fault[e], x)[i].at = fault[e][i].at
        /\ \A i \in 1..Len(fault[e]) : i # Len(fault[e]) => TopAt(fault[e], x)[i] = fault[e][i]
    BY <1>1, TopAtLemma
  <1>10. fault'[e] # <<>> /\ Depth(e)' = Depth(e) BY <1>2, <1>9 DEF Depth
  <1>11. FaultVa(e)' = FaultVa(e) /\ FaultVa(e) \in Program
    BY <1>2, <1>8, <1>9, <1>10 DEF FaultVa, Depth, TrapFrames
  <1>12. \A S : AtStep(e, S)' <=> x \in S BY <1>2, <1>9, <1>10 DEF AtStep, Depth
  <1>13. \A i \in 1..Depth(e) : fault'[e][i].va = fault[e][i].va
                                /\ fault'[e][i].at = fault[e][i].at
    BY <1>2, <1>9, Zenon DEF Depth
  <1>14. Depth(e) = 2 => fault'[e][1] = fault[e][1]
    <2>1. Depth(e) = 2 => 1 \in 1..Len(fault[e]) /\ 1 # Len(fault[e]) BY <1>8 DEF Depth
    <2> QED BY <1>2, <1>9, <2>1, Zenon
  <1> QED BY <1>3, <1>7, <1>8, <1>10, <1>11, <1>12, <1>13, <1>14

\* What is left to show for a step of the handler.
LEMMA HandlerLemma ==
  ASSUME IInv, NEW e \in Envs, status[e] = "live", fault[e] # <<>>,
         NEW x \in FaultSteps, SetStep(e, x),
         UNCHANGED <<status, upcall, handler, forkVars, op>>,
         pte' \in [Envs -> [Vas -> Ptes]], mem' \in [Frames -> Values],
         \A o \in Envs \ {e} : pte'[o] = pte[o] /\ Keeps(o),
         WritableIsPrivate', PteShape(e)', CopyInv(e)', pte'[e]["ux"] = pte[e]["ux"],
         x \in {"copy", "map"} => pte'[e][FaultVa(e)].perm = "cow",
         pc[e] # "user" => \A d \in Data : pte'[e][d].frame = pte[e][d].frame
  PROVE  /\ IInv'
         /\ \A o \in Envs \ {e} : Memory(o)' = Memory(o)
PROOF
  <1>1. TypeOK /\ WritableIsPrivate /\ EnvShape(e) /\ CopyInv(e) BY DEF IInv
  <1>2. /\ fault' \in [Envs -> Seq(TrapFrames)]
        /\ \A o \in Envs \ {e} : fault'[o] = fault[o]
        /\ fault'[e] # <<>> /\ Depth(e)' = Depth(e) /\ FaultVa(e)' = FaultVa(e)
        /\ \A S : AtStep(e, S)' <=> x \in S
        /\ \A i \in 1..Depth(e) : fault'[e][i].va = fault[e][i].va
                                 /\ fault'[e][i].at = fault[e][i].at
        /\ Depth(e) = 2 => fault'[e][1] = fault[e][1]
    BY <1>1, SetStepLemma
  <1>3. TypeOK' BY <1>1, <1>2 DEF TypeOK, TrapFrames, forkVars
  <1>4. ASSUME NEW o \in Envs \ {e} PROVE Same(o) /\ Keeps(o)
    BY <1>2 DEF Same, forkVars
  <1>5. pc[e] # "mark" BY <1>1 DEF EnvShape, MarkShape
  <1>6. child[e] # NoEnv => child[e] \in Envs \ {e} /\ pte'[child[e]] = pte[child[e]]
    BY <1>1 DEF EnvShape, ForkShape, TypeOK
  <1>7. EnvShape(e)'
    <2>1. ForkShape(e)' BY <1>1, <1>2 DEF EnvShape, ForkShape, forkVars
    <2>2. LoopShape(e)'
      BY <1>1, <1>6 DEF EnvShape, LoopShape, ForkShape, forkVars
    <2>3. MarkShape(e)' BY <1>5 DEF MarkShape, forkVars
    <2>4. FaultShape(e)'
      <3>1. Depth(e) \in Nat BY <1>1 DEF TypeOK, Depth
      <3>2. Depth(e)' >= 1 => pte'[e]["ux"].perm = "w" /\ fault'[e][1].at = UxWords - UTrapWords
        BY <1>1, <1>2, <3>1 DEF EnvShape, FaultShape
      <3>3. Depth(e)' = 2 => fault'[e][1].step = "ret"
                             /\ fault'[e][2].at = UxWords - 2 * UTrapWords - 1
        BY <1>1, <1>2, <3>1 DEF EnvShape, FaultShape
      <3> QED BY <1>1, <1>2, <3>2, <3>3 DEF EnvShape, FaultShape
    <2> QED BY <2>1, <2>2, <2>3, <2>4 DEF EnvShape
  <1>8. child'[e] = child[e] BY DEF forkVars
  <1>9. IInv' /\ \A o \in Envs \ {e, NoEnv} : Memory(o)' = Memory(o)
    BY <1>3, <1>4, <1>7, <1>8, StepLemma
  <1> QED BY <1>9, CowForkAssumption

\* The new page at PFTEMP.
LEMMA AllocLemma ==
  ASSUME IInv, NEW e \in Envs, pgfault_alloc(e)
  PROVE  IInv' /\ Quiet
PROOF
  <1>1. TypeOK /\ WritableIsPrivate /\ EnvShape(e) /\ CopyInv(e) BY DEF IInv
  <1>2. status[e] = "live" /\ fault[e] # <<>> /\ fault[e][Depth(e)].step = "alloc"
    BY DEF pgfault_alloc, Handling
  <1>3. pc[e] # "mark" /\ ~AtStep(e, {"unmap"}) /\ ~AtStep(e, {"copy", "map", "unmap"})
    BY <1>1, <1>2 DEF EnvShape, MarkShape, AtStep
  <1>4. CASE pte[e][FaultVa(e)].perm # "cow" \/ FreeFrames = {}
    <2>1. panic(e) /\ UNCHANGED <<pte, mem, fault, upcall, handler, forkVars, op>>
      BY <1>4 DEF pgfault_alloc
    <2> QED BY <1>2, <1>3, <2>1, PanicLemma DEF forkVars
  <1>5. CASE pte[e][FaultVa(e)].perm = "cow" /\ FreeFrames # {}
    <2>1. /\ pte' = [pte EXCEPT ![e]["pftemp"] = Pte(NextFrame, "w")]
          /\ mem' = [mem EXCEPT ![NextFrame] = Zero]
          /\ SetStep(e, "copy")
          /\ UNCHANGED <<status, upcall, handler, forkVars, op>>
      BY <1>5 DEF pgfault_alloc
    <2>2. NextFrame \in Frames /\ \A o \in Envs, va \in Vas : pte[o][va].frame # NextFrame
      BY <1>5, NextFrameLemma
    <2>3. Pte(NextFrame, "w") \in Ptes BY <2>2, PteLemma
    <2>4. mem' \in [Frames -> Values] BY <1>1, <2>1, CowForkAssumption DEF TypeOK
    <2>5. /\ pte' \in [Envs -> [Vas -> Ptes]]
          /\ pte'[e]["pftemp"] = Pte(NextFrame, "w")
          /\ \A va \in Vas \ {"pftemp"} : pte'[e][va] = pte[e][va]
          /\ \A o \in Envs \ {e} : pte'[o] = pte[o]
      BY <1>1, <2>1, <2>3, VasLemma, MapLemma
    <2>6. \A o \in Envs : Keeps(o)
      BY <1>1, <2>1, <2>2, PteLemma DEF TypeOK, Keeps
    <2>7. "copy" \in FaultSteps BY DEF FaultSteps
    <2>8. /\ \A o \in Envs \ {e} : fault'[o] = fault[o]
          /\ FaultVa(e)' = FaultVa(e) /\ FaultVa(e) \in Program
          /\ \A S : AtStep(e, S)' <=> "copy" \in S
      BY <1>1, <1>2, <2>1, <2>7, SetStepLemma
    <2>9. WritableIsPrivate'
      BY <1>1, <1>3, <1>5, <2>1, <2>8, VasLemma, FreshMapped DEF forkVars
    <2>10. PteShape(e)'
      BY <1>1, <1>2, <2>1, <2>2, <2>5, <2>8, PteLemma, VasLemma DEF EnvShape, PteShape
    <2>11. CopyInv(e)' BY <2>8 DEF CopyInv
    <2>12. pte'[e][FaultVa(e)].perm = "cow" BY <1>5, <2>5, <2>8, VasLemma
    <2>13. \A d \in Data : pte'[e][d] = pte[e][d] BY <2>5, VasLemma
    <2>14. IInv' /\ \A o \in Envs \ {e} : Memory(o)' = Memory(o)
      BY <1>2, <2>1, <2>3, <2>4, <2>5, <2>6, <2>7, <2>9, <2>10, <2>11, <2>12, <2>13,
         HandlerLemma
    <2>15. Memory(e)' = Memory(e)
      <3>1. \A d \in Data : mem'[pte[e][d].frame] = mem[pte[e][d].frame]
        BY <1>1, <1>2, <2>6, VasLemma DEF Keeps, EnvShape, PteShape
      <3> QED BY <1>2, <2>1, <2>13, <3>1 DEF Memory
    <2> QED BY <2>14, <2>15 DEF Quiet
  <1> QED BY <1>4, <1>5

\* The copy.
LEMMA CopyLemma ==
  ASSUME IInv, NEW e \in Envs, pgfault_copy(e)
  PROVE  IInv' /\ Quiet
PROOF
  <1>1. TypeOK /\ WritableIsPrivate /\ EnvShape(e) /\ CopyInv(e) BY DEF IInv
  <1>2. status[e] = "live" /\ fault[e] # <<>> /\ fault[e][Depth(e)].step = "copy"
    BY DEF pgfault_copy, Handling
  <1>3. pc[e] # "mark" /\ ~AtStep(e, {"unmap"}) /\ AtStep(e, {"copy", "map", "unmap"})
        /\ AtStep(e, {"copy", "map"})
    BY <1>1, <1>2 DEF EnvShape, MarkShape, AtStep
  <1> DEFINE new == pte[e]["pftemp"].frame
             old == pte[e][FaultVa(e)].frame
  <1>4. /\ mem' = [mem EXCEPT ![new] = mem[old]] /\ SetStep(e, "map")
        /\ UNCHANGED <<status, pte, upcall, handler, forkVars, op>>
    BY DEF pgfault_copy
  <1>5. "map" \in FaultSteps BY DEF FaultSteps
  <1>6. /\ \A o \in Envs \ {e} : fault'[o] = fault[o]
        /\ FaultVa(e)' = FaultVa(e) /\ FaultVa(e) \in Program
        /\ \A S : AtStep(e, S)' <=> "map" \in S
    BY <1>1, <1>2, <1>4, <1>5, SetStepLemma
  <1>7. pte[e]["pftemp"] # NoPte /\ pte[e]["pftemp"].perm = "w" /\ new \in Frames
    BY <1>1, <1>3, PteLemma, VasLemma DEF TypeOK, EnvShape, PteShape
  <1>8. pte[e][FaultVa(e)].perm = "cow" /\ FaultVa(e) \in Vas \ {"pftemp"} /\ old \in Frames
    BY <1>1, <1>3, <1>6, PteLemma, VasLemma DEF TypeOK, EnvShape, FaultShape
  <1>9. \A o \in Envs, ov \in Vas : pte[o][ov].frame = new => o = e /\ ov = "pftemp"
    BY <1>1, <1>3, <1>7, VasLemma, PrivateLemma
  <1>10. mem' \in [Frames -> Values] BY <1>1, <1>4, <1>7, <1>8 DEF TypeOK
  <1>11. \A f \in Frames : f # new => mem'[f] = mem[f] BY <1>1, <1>4 DEF TypeOK
  <1>12. mem'[new] = mem[old] BY <1>1, <1>4, <1>7 DEF TypeOK
  <1> HIDE DEF new, old
  <1>13. ASSUME NEW o \in Envs, NEW ov \in Vas, pte[o][ov] # NoPte, <<o, ov>> # <<e, "pftemp">>
         PROVE  mem'[pte[o][ov].frame] = mem[pte[o][ov].frame]
    <2>1. pte[o][ov].frame \in Frames BY <1>1, <1>13, PteLemma DEF TypeOK
    <2>2. pte[o][ov].frame # new BY <1>9, <1>13
    <2> QED BY <1>11, <2>1, <2>2
  <1>14. \A o \in Envs \ {e} : Keeps(o) BY <1>13 DEF Keeps
  <1>15. WritableIsPrivate' BY <1>1, <1>3, <1>4, <1>6, NothingMapped DEF forkVars
  <1>16. PteShape(e)' BY <1>1, <1>3, <1>4, <1>6 DEF EnvShape, PteShape
  <1>17. CopyInv(e)'
    <2>1. old # new BY <1>8, <1>9 DEF old
    <2>2. mem'[old] = mem[old] BY <1>8, <1>11, <2>1
    <2> QED BY <1>4, <1>6, <1>12, <2>2 DEF CopyInv, new, old
  <1>18. IInv' /\ \A o \in Envs \ {e} : Memory(o)' = Memory(o)
    BY <1>1, <1>2, <1>4, <1>5, <1>8, <1>10, <1>14, <1>15, <1>16, <1>17, HandlerLemma DEF TypeOK
  <1>19. Memory(e)' = Memory(e)
    <2>1. \A d \in Data : mem'[pte[e][d].frame] = mem[pte[e][d].frame]
      BY <1>1, <1>2, <1>13, VasLemma DEF EnvShape, PteShape
    <2> QED BY <1>2, <1>4, <2>1 DEF Memory
  <1> QED BY <1>18, <1>19 DEF Quiet

\* The copy takes the place of the page that is shared.
LEMMA MapCopyLemma ==
  ASSUME IInv, NEW e \in Envs, pgfault_map(e)
  PROVE  IInv' /\ Quiet
PROOF
  <1>1. TypeOK /\ WritableIsPrivate /\ EnvShape(e) /\ CopyInv(e) BY DEF IInv
  <1>2. status[e] = "live" /\ fault[e] # <<>> /\ fault[e][Depth(e)].step = "map"
    BY DEF pgfault_map, Handling
  <1>3. pc[e] # "mark" /\ ~AtStep(e, {"unmap"}) /\ AtStep(e, {"copy", "map", "unmap"})
        /\ AtStep(e, {"copy", "map"}) /\ AtStep(e, {"map"})
    BY <1>1, <1>2 DEF EnvShape, MarkShape, AtStep
  <1>0. PICK va, new : va = FaultVa(e) /\ new = pte[e]["pftemp"].frame OBVIOUS
  <1>4. /\ pte' = [pte EXCEPT ![e][va] = Pte(new, "w")] /\ SetStep(e, "unmap")
        /\ UNCHANGED <<status, mem, upcall, handler, forkVars, op>>
    BY <1>0 DEF pgfault_map
  <1>5. "unmap" \in FaultSteps BY DEF FaultSteps
  <1>6. /\ \A o \in Envs \ {e} : fault'[o] = fault[o]
        /\ FaultVa(e)' = va /\ va \in Program /\ fault'[e] # <<>>
        /\ \A S : AtStep(e, S)' <=> "unmap" \in S
        /\ Depth(e) \in Nat /\ Depth(e) > 0
    BY <1>0, <1>1, <1>2, <1>4, <1>5, SetStepLemma
  <1>7. pte[e]["pftemp"] # NoPte /\ pte[e]["pftemp"].perm = "w" /\ new \in Frames
    BY <1>0, <1>1, <1>3, PteLemma, VasLemma DEF TypeOK, EnvShape, PteShape
  <1>8. pte[e][va].perm = "cow" /\ va \in Vas \ {"pftemp", "ux"} /\ va \notin ReadOnly
        /\ va \in Data \cup {"stack"}
    BY <1>0, <1>1, <1>3, <1>6, PteLemma, VasLemma DEF EnvShape, FaultShape, PteShape, Program
  <1>9. \A o \in Envs, ov \in Vas : pte[o][ov].frame = new => o = e /\ ov = "pftemp"
    BY <1>0, <1>1, <1>3, <1>7, VasLemma, PrivateLemma
  <1>10. Pte(new, "w") \in Ptes /\ Pte(new, "w").frame = new /\ Pte(new, "w").perm = "w"
         /\ Pte(new, "w") # NoPte
    BY <1>7, PteLemma
  <1>11. /\ pte' \in [Envs -> [Vas -> Ptes]]
         /\ pte'[e][va] = Pte(new, "w")
         /\ \A ov \in Vas \ {va} : pte'[e][ov] = pte[e][ov]
         /\ \A o \in Envs \ {e} : pte'[o] = pte[o]
    BY <1>1, <1>4, <1>8, <1>10, MapLemma
  <1>12. mem[new] = mem[pte[e][va].frame] BY <1>0, <1>1, <1>3 DEF CopyInv
  <1>13. pc[e] # "user" => va = "stack"
    BY <1>0, <1>1, <1>6 DEF EnvShape, ForkShape, FaultVa
  <1>14. \A S : AtStep(e, S)' <=> "unmap" \in S BY <1>6
  <1>15. Window(e, va, e, "pftemp")' /\ Window(e, "pftemp", e, va)'
    <2>1. AtStep(e, {"unmap"})' BY <1>6
    <2>2. fault'[e] # <<>> /\ fault'[e][Depth(e)'].step = "unmap" BY <2>1 DEF AtStep
    <2> QED BY <1>6, <2>2 DEF Window
  <1>17. \A o \in Envs \ {e} : pc'[o] = pc[o] /\ child'[o] = child[o]
                              /\ todo'[o] = todo[o] /\ fault'[o] = fault[o]
    BY <1>4, <1>6 DEF forkVars
  <1>18. WritableIsPrivate'
    <2>1. \A o \in Envs, ov \in Vas : <<o, ov>> # <<e, va>> => pte'[o][ov] = pte[o][ov]
      BY <1>11
    <2>2. ASSUME NEW a \in Envs, NEW b \in Envs, NEW av \in Vas, NEW bv \in Vas,
                 SharesWritable(a, av, b, bv)'
          PROVE  Window(a, av, b, bv)' \/ (a # e /\ SharesWritable(a, av, b, bv))
      <3>1. CASE a = e /\ av = va
        <4>1. pte'[b][bv].frame = new /\ <<b, bv>> # <<e, va>>
          BY <2>2, <3>1, <1>10, <1>11 DEF SharesWritable
        <4>2. b = e /\ bv = "pftemp" BY <4>1, <2>1, <1>9
        <4> QED BY <3>1, <4>2, <1>15
      <3>2. CASE b = e /\ bv = va /\ <<a, av>> # <<e, va>>
        <4>1. pte[a][av].frame = new
          BY <2>1, <2>2, <3>2, <1>10, <1>11 DEF SharesWritable
        <4>2. a = e /\ av = "pftemp" BY <4>1, <1>9
        <4> QED BY <3>2, <4>2, <1>15
      <3>3. CASE <<a, av>> # <<e, va>> /\ <<b, bv>> # <<e, va>>
        <4>1. SharesWritable(a, av, b, bv) BY <2>1, <2>2, <3>3 DEF SharesWritable
        <4> QED BY <4>1, <1>1, <1>3, NothingShared
      <3> QED BY <3>1, <3>2, <3>3
    <2> QED BY <1>1, <1>17, <2>2, PrivateStep
  <1>19. \A o \in Envs \ {e} : Keeps(o) BY <1>4 DEF Keeps
  <1>20. PteShape(e)'
    BY <1>1, <1>2, <1>3, <1>4, <1>8, <1>10, <1>11, <1>14, PteLemma, VasLemma
       DEF EnvShape, PteShape
  <1>21. CopyInv(e)' BY <1>14 DEF CopyInv
  <1>22. mem' \in [Frames -> Values] BY <1>1, <1>4 DEF TypeOK
  <1>23. pc[e] # "user" => \A d \in Data : pte'[e][d].frame = pte[e][d].frame
    BY <1>11, <1>13, VasLemma
  <1>24. pte'[e]["ux"] = pte[e]["ux"] /\ ~("unmap" \in {"copy", "map"})
    BY <1>8, <1>11, VasLemma
  <1>25. IInv' /\ \A o \in Envs \ {e} : Memory(o)' = Memory(o)
    BY <1>2, <1>4, <1>5, <1>8, <1>11, <1>24, <1>18, <1>19, <1>20, <1>21, <1>22, <1>23, HandlerLemma
  <1>26. Memory(e)' = Memory(e)
    <2>1. \A d \in Data : mem[pte'[e][d].frame] = mem[pte[e][d].frame]
      BY <1>10, <1>11, <1>12, VasLemma
    <2>2. Memory(e) = [d \in Data |-> mem[pte[e][d].frame]] BY <1>2 DEF Memory
    <2>3. Memory(e)' = [d \in Data |-> mem[pte'[e][d].frame]] BY <1>2, <1>4 DEF Memory
    <2> QED BY <2>1, <2>2, <2>3
  <1> QED BY <1>25, <1>26 DEF Quiet

\* PFTEMP is free again.
LEMMA UnmapLemma ==
  ASSUME IInv, NEW e \in Envs, pgfault_unmap(e)
  PROVE  IInv' /\ Quiet
PROOF
  <1>1. TypeOK /\ WritableIsPrivate /\ EnvShape(e) /\ CopyInv(e) BY DEF IInv
  <1>2. status[e] = "live" /\ fault[e] # <<>> /\ fault[e][Depth(e)].step = "unmap"
    BY DEF pgfault_unmap, Handling
  <1>3. pc[e] # "mark" BY <1>1, <1>2 DEF EnvShape, MarkShape
  <1>4. /\ pte' = [pte EXCEPT ![e]["pftemp"] = NoPte] /\ SetStep(e, "ret")
        /\ UNCHANGED <<status, mem, upcall, handler, forkVars, op>>
    BY DEF pgfault_unmap
  <1>5. "ret" \in FaultSteps BY DEF FaultSteps
  <1>6. /\ \A o \in Envs \ {e} : fault'[o] = fault[o]
        /\ \A S : AtStep(e, S)' <=> "ret" \in S
    BY <1>1, <1>2, <1>4, <1>5, SetStepLemma
  <1>7. /\ pte' \in [Envs -> [Vas -> Ptes]]
        /\ pte'[e]["pftemp"] = NoPte
        /\ \A ov \in Vas \ {"pftemp"} : pte'[e][ov] = pte[e][ov]
        /\ \A o \in Envs \ {e} : pte'[o] = pte[o]
    BY <1>1, <1>4, VasLemma, PteLemma, MapLemma
  <1>8. \A o \in Envs \ {e} : pc'[o] = pc[o] /\ child'[o] = child[o]
                             /\ todo'[o] = todo[o] /\ fault'[o] = fault[o]
    BY <1>4, <1>6 DEF forkVars
  <1>9. WritableIsPrivate'
    <2>1. \A o \in Envs, ov \in Vas : <<o, ov>> # <<e, "pftemp">> => pte'[o][ov] = pte[o][ov]
      BY <1>7
    <2>2. ASSUME NEW a \in Envs, NEW b \in Envs, NEW av \in Vas, NEW bv \in Vas,
                 SharesWritable(a, av, b, bv)'
          PROVE  a # e /\ SharesWritable(a, av, b, bv)
      <3>1. <<a, av>> # <<e, "pftemp">> BY <2>2, <1>7, PteLemma DEF SharesWritable
      <3>2. pte[a][av].frame \in Frames
        BY <1>1, <2>1, <2>2, <3>1, PteLemma DEF SharesWritable, TypeOK
      <3>3. <<b, bv>> # <<e, "pftemp">>
        BY <2>1, <2>2, <3>1, <3>2, <1>7, PteLemma DEF SharesWritable
      <3>4. SharesWritable(a, av, b, bv) BY <2>1, <2>2, <3>1, <3>3 DEF SharesWritable
      <3>5. Window(a, av, b, bv) BY <1>1, <3>4, WindowLemma
      <3>6. a # e BY <1>3, <3>1, <3>3, <3>5 DEF Window
      <3> QED BY <3>4, <3>6
    <2> QED BY <1>1, <1>8, <2>2, PrivateStep
  <1>10. \A o \in Envs \ {e} : Keeps(o) BY <1>4 DEF Keeps
  <1>11. PteShape(e)'
    BY <1>1, <1>2, <1>4, <1>6, <1>7, PteLemma, VasLemma DEF EnvShape, PteShape
  <1>12. CopyInv(e)' BY <1>6 DEF CopyInv
  <1>13. mem' \in [Frames -> Values] BY <1>1, <1>4 DEF TypeOK
  <1>14. \A d \in Data : pte'[e][d] = pte[e][d] BY <1>7, VasLemma
  <1>15. IInv' /\ \A o \in Envs \ {e} : Memory(o)' = Memory(o)
    BY <1>2, <1>4, <1>5, <1>7, <1>9, <1>10, <1>11, <1>12, <1>13, <1>14, HandlerLemma
  <1>16. Memory(e)' = Memory(e) BY <1>2, <1>4, <1>14 DEF Memory
  <1> QED BY <1>15, <1>16 DEF Quiet

\* The upcall returns.
LEMMA ReturnLemma ==
  ASSUME IInv, NEW e \in Envs, Handling(e, "ret"),
         fault' = [fault EXCEPT ![e] = SubSeq(@, 1, Depth(e) - 1)],
         UNCHANGED <<status, pte, mem, upcall, handler, forkVars, op>>
  PROVE  IInv' /\ Quiet
PROOF
  <1>1. TypeOK /\ WritableIsPrivate /\ EnvShape(e) /\ CopyInv(e) BY DEF IInv
  <1>2. status[e] = "live" /\ fault[e] # <<>> /\ fault[e][Depth(e)].step = "ret"
    BY DEF Handling
  <1>3. pc[e] # "mark" /\ ~AtStep(e, {"unmap"}) /\ ~AtStep(e, {"copy", "map", "unmap"})
    BY <1>1, <1>2 DEF EnvShape, MarkShape, AtStep
  <1> DEFINE s == SubSeq(fault[e], 1, Len(fault[e]) - 1)
  <1>4. fault[e] \in Seq(TrapFrames) BY <1>1 DEF TypeOK, TrapFrames
  <1>5. fault'[e] = s /\ \A o \in Envs \ {e} : fault'[o] = fault[o]
    BY <1>1 DEF TypeOK, Depth
  <1>6. /\ s \in Seq(TrapFrames) /\ Len(s) = Len(fault[e]) - 1
        /\ \A i \in 1..(Len(fault[e]) - 1) : s[i] = fault[e][i]
        /\ Len(fault[e]) = 1 => s = <<>>
    BY <1>2, <1>4, PopLemma
  <1>7. fault' = [fault EXCEPT ![e] = s] BY DEF Depth
  <1> HIDE DEF s
  <1>8. TypeOK' BY <1>1, <1>6, <1>7 DEF TypeOK, TrapFrames, forkVars
  <1>9. Depth(e) \in {1, 2} /\ Depth(e)' = Depth(e) - 1
        /\ \A i \in 1..Depth(e)' : fault'[e][i] = fault[e][i]
    <2>1. Depth(e) \in Nat /\ Depth(e) > 0 BY <1>2, <1>4, TopLemma DEF Depth
    <2>2. Depth(e) <= 2 BY <1>1 DEF EnvShape, FaultShape
    <2>3. Depth(e)' = Depth(e) - 1 BY <1>5, <1>6 DEF Depth
    <2>4. \A i \in 1..(Depth(e) - 1) : fault'[e][i] = fault[e][i]
      BY <1>5, <1>6 DEF Depth
    <2> QED BY <2>1, <2>2, <2>3, <2>4
  <1>10. fault'[e] # <<>> => Depth(e) = 2 /\ fault'[e][Depth(e)'].step = "ret"
    BY <1>1, <1>2, <1>5, <1>6, <1>9 DEF Depth, EnvShape, FaultShape
  <1>11. /\ ~AtStep(e, {"copy", "map", "unmap"})' /\ ~AtStep(e, {"copy", "map"})'
         /\ ~AtStep(e, {"map"})'
    BY <1>10 DEF AtStep
  <1>12. ASSUME NEW o \in Envs \ {e} PROVE Same(o) /\ Keeps(o)
    BY <1>5 DEF Same, Keeps, forkVars
  <1>13. WritableIsPrivate' BY <1>1, <1>3, <1>5, NothingMapped DEF forkVars
  <1>14. EnvShape(e)'
    <2>1. ForkShape(e)'
      <3>1. pc[e] # "user" => \A i \in 1..Depth(e)' : fault'[e][i].va = "stack"
        BY <1>1, <1>9 DEF EnvShape, ForkShape
      <3> QED BY <1>1, <1>2, <3>1 DEF EnvShape, ForkShape, forkVars
    <2>2. LoopShape(e)' BY <1>1 DEF EnvShape, LoopShape, forkVars
    <2>3. MarkShape(e)' BY <1>3 DEF MarkShape, forkVars
    <2>4. PteShape(e)' BY <1>1, <1>3, <1>11 DEF EnvShape, PteShape
    <2>5. FaultShape(e)'
      <3>1. Depth(e)' <= 1 BY <1>9
      <3>2. Depth(e)' >= 1 => pte'[e]["ux"].perm = "w" /\ fault'[e][1].at = UxWords - UTrapWords
        BY <1>1, <1>9 DEF EnvShape, FaultShape
      <3>3. ~(Depth(e)' = 2) BY <1>9
      <3>4. Depth(e)' <= 2 BY <1>9
      <3> QED BY <3>2, <3>3, <3>4, <1>11 DEF FaultShape
    <2> QED BY <2>1, <2>2, <2>3, <2>4, <2>5 DEF EnvShape
  <1>15. CopyInv(e)' BY <1>11 DEF CopyInv
  <1>16. Memory(e)' = Memory(e) BY DEF Memory
  <1>17. child'[e] = child[e] BY DEF forkVars
  <1>18. IInv' /\ \A o \in Envs \ {e, NoEnv} : Memory(o)' = Memory(o)
    BY <1>2, <1>8, <1>12, <1>13, <1>14, <1>15, <1>17, StepLemma
  <1> QED BY <1>16, <1>18, CowForkAssumption DEF Quiet

-----------------------------------------------------------------------------
(* fork *)

\* The child that a fork builds does nothing itself.
LEMMA ChildLemma ==
  ASSUME IInv, NEW e \in Envs, status[e] = "live", child[e] # NoEnv
  PROVE  /\ child[e] \in Envs /\ child[e] # e /\ status[child[e]] = "embryo"
         /\ pc[child[e]] = "user" /\ fault[child[e]] = <<>> /\ op[child[e]] = NoOp
         /\ child[child[e]] = NoEnv
         /\ EnvShape(child[e]) /\ CopyInv(child[e])
PROOF
  <1>1. child[e] \in Envs /\ status[child[e]] = "embryo"
    BY DEF IInv, TypeOK, EnvShape, ForkShape
  <1>2. EnvShape(child[e]) /\ CopyInv(child[e]) BY <1>1 DEF IInv
  <1>3. pc[child[e]] = "user" /\ fault[child[e]] = <<>> /\ op[child[e]] = NoOp
    BY <1>1, <1>2 DEF EnvShape, ForkShape
  <1> QED BY <1>1, <1>2, <1>3 DEF EnvShape, ForkShape

\* An environment without faults.
LEMMA CalmLemma ==
  ASSUME NEW e, fault[e] = <<>>
  PROVE  Depth(e) = 0 /\ \A S : ~AtStep(e, S)
PROOF BY DEF Depth, AtStep

\* The page fault handler is in place, the fork begins.
LEMMA StartLemma ==
  ASSUME IInv, NEW e \in Envs, fork_start(e)
  PROVE  IInv' /\ Quiet
PROOF
  <1>1. TypeOK /\ WritableIsPrivate /\ EnvShape(e) /\ CopyInv(e) BY DEF IInv
  <1>2. /\ status[e] = "live" /\ fault[e] = <<>> /\ pc[e] = "user" /\ op[e] = NoOp
        /\ pc' = [pc EXCEPT ![e] = "exofork"] /\ UNCHANGED <<child, todo, op, fault>>
    BY DEF fork_start, InFork, Executing
  <1>3. Depth(e) = 0 /\ \A S : ~AtStep(e, S) BY <1>2, CalmLemma
  <1>4. pc'[e] = "exofork" /\ \A o \in Envs \ {e} : pc'[o] = pc[o]
    BY <1>1, <1>2 DEF TypeOK
  <1>5. child[e] = NoEnv BY <1>1, <1>2 DEF EnvShape, ForkShape
  <1>6. CASE panic(e) /\ UNCHANGED <<pte, mem, upcall, handler>>
    BY <1>2, <1>3, <1>6, PanicLemma
  <1>7. ASSUME status' = status, TypeOK', WritableIsPrivate', \A o \in Envs : Keeps(o),
               \A o \in Envs \ {e} : pte'[o] = pte[o],
               \A va \in Vas \ {"ux"} : pte'[e][va] = pte[e][va],
               pte'[e]["ux"].perm \in {"none", "w"}
        PROVE  IInv' /\ Quiet
    <2>1. \A o \in Envs \ {e} : Same(o) BY <1>2, <1>4, <1>7 DEF Same
    <2>2. fault'[e] = <<>> BY <1>2
    <2>3. Depth(e)' = 0 /\ \A S : ~AtStep(e, S)' BY <2>2 DEF Depth, AtStep
    <2>4. EnvShape(e)'
      <3>1. ForkShape(e)' BY <1>2, <1>4, <1>5, <1>7, <2>3 DEF ForkShape
      <3>2. LoopShape(e)' /\ MarkShape(e)' BY <1>4 DEF LoopShape, MarkShape
      <3>3. PteShape(e)'
        BY <1>1, <1>2, <1>3, <1>7, <2>3, VasLemma DEF EnvShape, PteShape
      <3>4. FaultShape(e)' BY <2>3 DEF FaultShape
      <3> QED BY <3>1, <3>2, <3>3, <3>4 DEF EnvShape
    <2>5. CopyInv(e)' BY <2>3 DEF CopyInv
    <2>6. IInv' /\ \A o \in Envs \ {e, NoEnv} : Memory(o)' = Memory(o)
      BY <1>2, <1>7, <2>1, <2>4, <2>5, StepLemma
    <2>7. Memory(e)' = Memory(e)
      <3>1. \A d \in Data : pte'[e][d] = pte[e][d] BY <1>7, VasLemma
      <3>2. \A d \in Data : mem'[pte[e][d].frame] = mem[pte[e][d].frame]
        BY <1>1, <1>2, <1>7, VasLemma DEF Keeps, EnvShape, PteShape
      <3> QED BY <1>2, <1>7, <3>1, <3>2 DEF Memory
    <2> QED BY <2>6, <2>7, CowForkAssumption DEF Quiet
  <1>8. CASE UNCHANGED <<status, pte, mem, upcall, handler>>
    <2>1. TypeOK' BY <1>1, <1>2, <1>8 DEF TypeOK, Phases
    <2>2. WritableIsPrivate' BY <1>1, <1>2, <1>3, <1>4, <1>8, NothingMapped
    <2>3. \A o \in Envs : Keeps(o) BY <1>8 DEF Keeps
    <2>4. pte[e]["ux"].perm \in {"none", "w"} BY <1>1 DEF EnvShape, PteShape
    <2> QED BY <1>7, <1>8, <2>1, <2>2, <2>3, <2>4
  <1>9. CASE /\ FreeFrames # {}
             /\ pte' = [pte EXCEPT ![e]["ux"] = Pte(NextFrame, "w")]
             /\ mem' = [mem EXCEPT ![NextFrame] = Zero]
             /\ upcall' = [upcall EXCEPT ![e] = TRUE]
             /\ handler' = [handler EXCEPT ![e] = TRUE]
             /\ UNCHANGED status
    <2>1. NextFrame \in Frames /\ \A o \in Envs, va \in Vas : pte[o][va].frame # NextFrame
      BY <1>9, NextFrameLemma
    <2>2. Pte(NextFrame, "w") \in Ptes /\ Pte(NextFrame, "w").perm = "w" BY <2>1, PteLemma
    <2>3. /\ pte' \in [Envs -> [Vas -> Ptes]]
          /\ pte'[e]["ux"] = Pte(NextFrame, "w")
          /\ \A va \in Vas \ {"ux"} : pte'[e][va] = pte[e][va]
          /\ \A o \in Envs \ {e} : pte'[o] = pte[o]
      BY <1>1, <1>9, <2>2, VasLemma, MapLemma
    <2>4. mem' \in [Frames -> Values] BY <1>1, <1>9, CowForkAssumption DEF TypeOK
    <2>5. TypeOK' BY <1>1, <1>2, <1>9, <2>3, <2>4 DEF TypeOK, Phases
    <2>6. \A o \in Envs : Keeps(o) BY <1>1, <1>9, <2>1, PteLemma DEF TypeOK, Keeps
    <2>7. WritableIsPrivate' BY <1>1, <1>2, <1>3, <1>4, <1>9, VasLemma, FreshMapped
    <2> QED BY <1>7, <1>9, <2>2, <2>3, <2>5, <2>6, <2>7
  <1> QED BY <1>6, <1>8, <1>9 DEF fork_start, set_pgfault_handler

\* A slot becomes the embryo of a child.
LEMMA ExoforkLemma ==
  ASSUME IInv, NEW e \in Envs, fork_exofork(e)
  PROVE  IInv' /\ Quiet
PROOF
  <1>1. TypeOK /\ WritableIsPrivate /\ EnvShape(e) /\ CopyInv(e) BY DEF IInv
  <1>2. /\ status[e] = "live" /\ fault[e] = <<>> /\ pc[e] = "exofork"
        /\ UNCHANGED <<pte, mem, todo, op, fault>>
    BY DEF fork_exofork, InFork, Executing
  <1>3. Depth(e) = 0 /\ \A S : ~AtStep(e, S) BY <1>2, CalmLemma
  <1>4. CASE panic(e) /\ UNCHANGED <<upcall, handler, child, pc>>
    BY <1>2, <1>3, <1>4, PanicLemma
  <1>5. ASSUME NEW c \in Envs, status[c] = "free",
               status' = [status EXCEPT ![c] = "embryo"],
               upcall' = [upcall EXCEPT ![c] = TRUE],
               handler' = [handler EXCEPT ![c] = handler[e]],
               child' = [child EXCEPT ![e] = c],
               pc' = [pc EXCEPT ![e] = "uxstack"]
        PROVE  IInv' /\ Quiet
    <2>1. TypeOK' BY <1>1, <1>2, <1>5 DEF TypeOK, Phases
    <2>2. c # e /\ EnvShape(c) /\ CopyInv(c) BY <1>2, <1>5 DEF IInv
    <2>3. /\ status'[c] = "embryo" /\ \A o \in Envs \ {c} : status'[o] = status[o]
          /\ child'[e] = c /\ \A o \in Envs \ {e} : child'[o] = child[o]
          /\ pc'[e] = "uxstack" /\ \A o \in Envs \ {e} : pc'[o] = pc[o]
      BY <1>1, <1>5 DEF TypeOK
    <2>4. \A o \in Envs \ {e, c} : Same(o) /\ Keeps(o) BY <1>2, <2>3 DEF Same, Keeps
    <2>5. WritableIsPrivate' BY <1>1, <1>2, <1>3, <2>3, NothingMapped
    <2>6. fault[c] = <<>> /\ pc[c] = "user" /\ op[c] = NoOp /\ child[c] = NoEnv
      BY <1>5, <2>2 DEF EnvShape, ForkShape
    <2>7. EnvShape(e)'
      <3>1. ForkShape(e)'
        BY <1>1, <1>2, <1>5, <2>2, <2>3, CowForkAssumption DEF EnvShape, ForkShape, Depth
      <3>2. LoopShape(e)' /\ MarkShape(e)' BY <2>3 DEF LoopShape, MarkShape
      <3>3. PteShape(e)' BY <1>1, <1>2, <2>2, <2>3 DEF EnvShape, PteShape, AtStep, Depth
      <3>4. FaultShape(e)' BY <1>1, <1>2 DEF EnvShape, FaultShape, AtStep, Depth, FaultVa
      <3> QED BY <3>1, <3>2, <3>3, <3>4 DEF EnvShape
    <2>8. EnvShape(c)'
      <3>1. ForkShape(c)' BY <1>2, <2>2, <2>3, <2>6 DEF EnvShape, ForkShape, Depth
      <3>2. LoopShape(c)' /\ MarkShape(c)' BY <2>2, <2>3, <2>6 DEF LoopShape, MarkShape
      <3>3. \A va \in Vas : pte[c][va] = NoPte BY <1>5, <2>2 DEF EnvShape, PteShape
      <3>4. PteShape(c)'
        BY <1>2, <2>2, <2>3, <3>3, PteLemma, VasLemma DEF EnvShape, PteShape, AtStep, Depth
      <3>5. FaultShape(c)' BY <1>2, <2>2 DEF EnvShape, FaultShape, AtStep, Depth, FaultVa
      <3> QED BY <3>1, <3>2, <3>4, <3>5 DEF EnvShape
    <2>9. CopyInv(e)' /\ CopyInv(c)'
      BY <1>1, <1>2, <2>2 DEF CopyInv, AtStep, Depth, FaultVa
    <2>10. IInv' /\ \A o \in Envs \ {e, c} : Memory(o)' = Memory(o)
      BY <1>2, <1>5, <2>1, <2>2, <2>3, <2>4, <2>5, <2>6, <2>7, <2>8, <2>9, StepLemma
    <2>11. Memory(e)' = Memory(e) /\ Memory(c)' = Memory(c)
      BY <1>2, <1>5, <2>2, <2>3 DEF Memory
    <2> QED BY <2>10, <2>11 DEF Quiet
  <1> QED BY <1>4, <1>5 DEF fork_exofork

\* The exception stack of the child, if there is memory for it.
LEMMA UxStackLemma ==
  ASSUME IInv, NEW e \in Envs, fork_uxstack(e)
  PROVE  IInv' /\ Quiet
PROOF
  <1>1. TypeOK /\ WritableIsPrivate /\ EnvShape(e) /\ CopyInv(e) BY DEF IInv
  <1>2. /\ status[e] = "live" /\ fault[e] = <<>> /\ pc[e] = "uxstack" /\ CanPush(e)
        /\ todo' = [todo EXCEPT ![e] = Vas \ {"ux"}]
        /\ pc' = [pc EXCEPT ![e] = "dup"]
        /\ UNCHANGED <<status, upcall, handler, child, op, fault>>
    BY DEF fork_uxstack, InFork, Executing
  <1>3. Depth(e) = 0 /\ \A S : ~AtStep(e, S) BY <1>2, CalmLemma
  <1>4. child[e] # NoEnv BY <1>1, <1>2 DEF EnvShape, ForkShape
  <1>5. PICK c \in Envs : c = child[e] BY <1>1, <1>4 DEF TypeOK
  <1>6. /\ c # e /\ status[c] = "embryo" /\ pc[c] = "user" /\ fault[c] = <<>>
        /\ op[c] = NoOp /\ child[c] = NoEnv /\ EnvShape(c) /\ CopyInv(c)
    BY <1>2, <1>4, <1>5, ChildLemma
  <1>7. /\ todo'[e] = Vas \ {"ux"} /\ \A o \in Envs \ {e} : todo'[o] = todo[o]
        /\ pc'[e] = "dup" /\ \A o \in Envs \ {e} : pc'[o] = pc[o]
    BY <1>1, <1>2 DEF TypeOK
  <1>8. /\ pte' \in [Envs -> [Vas -> Ptes]] /\ mem' \in [Frames -> Values]
        /\ \A o \in Envs \ {c} : pte'[o] = pte[o]
        /\ \A va \in Vas \ {"ux"} : pte'[c][va] = pte[c][va]
        /\ pte'[c]["ux"].perm \in {"none", "w"}
        /\ \A o \in Envs : Keeps(o)
        /\ WritableIsPrivate'
    <2>1. CASE FreeFrames # {}
      <3>1. /\ pte' = [pte EXCEPT ![c]["ux"] = Pte(NextFrame, "w")]
            /\ mem' = [mem EXCEPT ![NextFrame] = Zero]
        BY <2>1, <1>5 DEF fork_uxstack
      <3>2. NextFrame \in Frames /\ \A o \in Envs, va \in Vas : pte[o][va].frame # NextFrame
        BY <2>1, NextFrameLemma
      <3>3. Pte(NextFrame, "w") \in Ptes /\ Pte(NextFrame, "w").perm = "w" BY <3>2, PteLemma
      <3>4. /\ pte' \in [Envs -> [Vas -> Ptes]]
            /\ pte'[c]["ux"] = Pte(NextFrame, "w")
            /\ \A va \in Vas \ {"ux"} : pte'[c][va] = pte[c][va]
            /\ \A o \in Envs \ {c} : pte'[o] = pte[o]
        BY <1>1, <3>1, <3>3, VasLemma, MapLemma
      <3>5. mem' \in [Frames -> Values] BY <1>1, <3>1, CowForkAssumption DEF TypeOK
      <3>6. \A o \in Envs : Keeps(o) BY <1>1, <3>1, <3>2, PteLemma DEF TypeOK, Keeps
      <3>7. WritableIsPrivate'
        BY <1>1, <1>2, <1>3, <1>7, <2>1, <3>1, VasLemma, FreshMapped
      <3> QED BY <3>3, <3>4, <3>5, <3>6, <3>7
    <2>2. CASE FreeFrames = {}
      <3>1. pte' = pte /\ mem' = mem BY <2>2 DEF fork_uxstack
      <3>2. \A o \in Envs : Keeps(o) BY <3>1 DEF Keeps
      <3>3. WritableIsPrivate' BY <1>1, <1>2, <1>3, <1>7, <3>1, NothingMapped
      <3> QED BY <1>1, <1>6, <3>1, <3>2, <3>3 DEF TypeOK, EnvShape, PteShape
    <2> QED BY <2>1, <2>2
  <1>9. TypeOK' BY <1>1, <1>2, <1>8 DEF TypeOK, Phases
  <1>10. \A o \in Envs \ {e, c} : Same(o) /\ Keeps(o) BY <1>2, <1>7, <1>8 DEF Same
  <1>11. EnvShape(e)'
    <2>1. ForkShape(e)'
      BY <1>1, <1>2, <1>4, <1>7 DEF EnvShape, ForkShape, Depth
    <2>2. LoopShape(e)' BY <1>7, VasLemma DEF LoopShape
    <2>3. MarkShape(e)' BY <1>7 DEF MarkShape
    <2>4. PteShape(e)' BY <1>1, <1>2, <1>6, <1>8 DEF EnvShape, PteShape, AtStep, Depth
    <2>5. FaultShape(e)'
      BY <1>1, <1>2, <1>6, <1>8 DEF EnvShape, FaultShape, AtStep, Depth, FaultVa
    <2> QED BY <2>1, <2>2, <2>3, <2>4, <2>5 DEF EnvShape
  <1>12. EnvShape(c)'
    <2>1. ForkShape(c)' BY <1>2, <1>6, <1>7 DEF EnvShape, ForkShape, Depth
    <2>2. LoopShape(c)' /\ MarkShape(c)' BY <1>6, <1>7 DEF LoopShape, MarkShape
    <2>3. PteShape(c)'
      BY <1>2, <1>6, <1>8, VasLemma DEF EnvShape, PteShape, AtStep, Depth
    <2>4. FaultShape(c)' BY <1>2, <1>6 DEF FaultShape, AtStep, Depth
    <2> QED BY <2>1, <2>2, <2>3, <2>4 DEF EnvShape
  <1>13. CopyInv(e)' /\ CopyInv(c)' BY <1>2, <1>6 DEF CopyInv, AtStep, Depth
  <1>14. IInv' /\ \A o \in Envs \ {e, c} : Memory(o)' = Memory(o)
    BY <1>2, <1>5, <1>6, <1>8, <1>9, <1>10, <1>11, <1>12, <1>13, StepLemma
  <1>15. Memory(c)' = Memory(c) BY <1>2, <1>6 DEF Memory
  <1>16. Memory(e)' = Memory(e)
    <2>1. pte'[e] = pte[e] BY <1>6, <1>8
    <2>2. \A d \in Data : mem'[pte[e][d].frame] = mem[pte[e][d].frame]
      BY <1>1, <1>2, <1>8, VasLemma DEF Keeps, EnvShape, PteShape
    <2> QED BY <1>2, <2>1, <2>2 DEF Memory
  <1> QED BY <1>14, <1>15, <1>16 DEF Quiet

\* A page goes to the child.
LEMMA DuppageLemma ==
  ASSUME IInv, NEW e \in Envs, duppage(e)
  PROVE  IInv' /\ Quiet
PROOF
  <1>1. TypeOK /\ WritableIsPrivate /\ EnvShape(e) /\ CopyInv(e) BY DEF IInv
  <1>2. /\ status[e] = "live" /\ fault[e] = <<>> /\ pc[e] = "dup" /\ CanPush(e)
        /\ todo[e] # {}
        /\ UNCHANGED <<status, mem, upcall, handler, child, op, fault>>
    BY DEF duppage, InFork, Executing
  <1>3. Depth(e) = 0 /\ \A S : ~AtStep(e, S) BY <1>2, CalmLemma
  <1>4. child[e] # NoEnv BY <1>1, <1>2 DEF EnvShape, ForkShape
  <1>5. PICK c \in Envs : c = child[e] BY <1>1, <1>4 DEF TypeOK
  <1>6. /\ c # e /\ status[c] = "embryo" /\ pc[c] = "user" /\ fault[c] = <<>>
        /\ op[c] = NoOp /\ child[c] = NoEnv /\ EnvShape(c) /\ CopyInv(c)
    BY <1>2, <1>4, <1>5, ChildLemma
  <1>7. PICK va, my : va = NextPage(e) /\ my = pte[e][va] OBVIOUS
  <1>8. va \in todo[e] /\ va \in Vas /\ va # "ux" /\ todo[e] \subseteq Vas
    <2>1. va \in todo[e] BY <1>2, <1>7, NextPageLemma
    <2> QED BY <2>1, <1>1, <1>2 DEF TypeOK, EnvShape, LoopShape
  <1>9. my \in Ptes BY <1>1, <1>7, <1>8 DEF TypeOK
  <1>10. pte[e]["pftemp"] = NoPte BY <1>1, <1>3 DEF EnvShape, PteShape
  <1>11. my # NoPte => va \in Program /\ "pftemp" \notin todo[e]
    BY <1>7, <1>8, <1>10, NextPageLemma, VasLemma
  <1>12. va \in Program => my # NoPte BY <1>1, <1>2, <1>7 DEF EnvShape, PteShape
  <1> DEFINE new == Pte(my.frame, IF my.perm = "r" THEN "r" ELSE "cow")
  <1>13. my # NoPte => /\ new \in Ptes /\ new # NoPte /\ new.frame = my.frame
                       /\ new.perm = (IF my.perm = "r" THEN "r" ELSE "cow")
    BY <1>9, PteLemma
  <1>14. IF my = NoPte THEN pte' = pte ELSE pte' = [pte EXCEPT ![c][va] = new]
    BY <1>5, <1>7 DEF duppage
  <1>15. my.perm \in {"w", "cow"} => new = Pte(my.frame, "cow") OBVIOUS
  <1>16. IF my.perm \in {"w", "cow"}
         THEN pc' = [pc EXCEPT ![e] = "mark"] /\ todo' = todo
         ELSE todo' = [todo EXCEPT ![e] = @ \ {va}] /\ pc' = pc
    BY <1>7 DEF duppage
  <1>17. PICK n : n = new OBVIOUS
  <1> HIDE DEF new
  <1>18. /\ pte' \in [Envs -> [Vas -> Ptes]]
         /\ my # NoPte => pte'[c][va] = n
         /\ my = NoPte => pte'[c][va] = pte[c][va]
         /\ \A ov \in Vas \ {va} : pte'[c][ov] = pte[c][ov]
         /\ \A o \in Envs \ {c} : pte'[o] = pte[o]
    <2>1. CASE my = NoPte BY <2>1, <1>1, <1>14 DEF TypeOK
    <2>2. CASE my # NoPte BY <2>2, <1>1, <1>8, <1>13, <1>14, <1>17, MapLemma
    <2> QED BY <2>1, <2>2
  <1>19. /\ \A o \in Envs \ {e} : pc'[o] = pc[o] /\ todo'[o] = todo[o]
         /\ my.perm \in {"w", "cow"} => pc'[e] = "mark" /\ todo'[e] = todo[e]
         /\ my.perm \notin {"w", "cow"} => pc'[e] = "dup" /\ todo'[e] = todo[e] \ {va}
    BY <1>1, <1>2, <1>16 DEF TypeOK
  <1>20. TypeOK'
    <2>1. pc' \in [Envs -> Phases] /\ todo' \in [Envs -> SUBSET Vas]
      <3>1. pc \in [Envs -> Phases] /\ todo \in [Envs -> SUBSET Vas] BY <1>1 DEF TypeOK
      <3>2. CASE my.perm \in {"w", "cow"} BY <3>1, <3>2, <1>16 DEF Phases
      <3>3. CASE my.perm \notin {"w", "cow"} BY <3>1, <3>3, <1>16
      <3> QED BY <3>2, <3>3
    <2> QED BY <1>1, <1>2, <1>18, <2>1 DEF TypeOK
  <1>21. \A o \in Envs \ {e, c} : Same(o) /\ Keeps(o)
    BY <1>2, <1>18, <1>19 DEF Same, Keeps
  <1>22. pte'[e] = pte[e] BY <1>6, <1>18
  <1>23. NextPage(e)' = va \/ my.perm \notin {"w", "cow"}
    <2>1. NextPage(e) = PageOf(todo[e]) BY NextPageLemma
    <2>2. NextPage(e)' = PageOf(todo'[e]) BY DEF NextPage, PageOf
    <2> QED BY <1>7, <1>19, <2>1, <2>2
  <1>24. WritableIsPrivate'
    <2>1. \A o \in Envs, ov \in Vas : <<o, ov>> # <<c, va>> => pte'[o][ov] = pte[o][ov]
      BY <1>18
    <2>2. ASSUME my # NoPte, NEW a \in Envs, NEW b \in Envs, NEW av \in Vas, NEW bv \in Vas,
                 SharesWritable(a, av, b, bv)'
          PROVE  Window(a, av, b, bv)' \/ (a # e /\ SharesWritable(a, av, b, bv))
      <3>1. <<a, av>> # <<c, va>>
        BY <2>2, <1>13, <1>17, <1>18 DEF SharesWritable
      <3>2. pte[a][av].perm = "w" BY <2>1, <2>2, <3>1 DEF SharesWritable
      <3>3. CASE <<b, bv>> # <<c, va>>
        <4>1. SharesWritable(a, av, b, bv) BY <2>1, <2>2, <3>1, <3>3 DEF SharesWritable
        <4> QED BY <4>1, <1>1, <1>2, <1>3, NothingShared
      <3>4. CASE b = c /\ bv = va
        <4>1. pte[a][av].frame = pte[e][va].frame
          BY <2>1, <2>2, <3>1, <3>4, <1>7, <1>13, <1>17, <1>18 DEF SharesWritable
        <4>2. CASE a = e /\ av = va
          <5>1. my.perm = "w" BY <3>2, <4>2, <1>7
          <5>2. pc'[e] = "mark" /\ NextPage(e)' = va /\ child'[e] = c
            BY <5>1, <1>2, <1>5, <1>19, <1>23
          <5> QED BY <3>4, <4>2, <5>2 DEF Window
        <4>3. CASE <<a, av>> # <<e, va>>
          <5>1. SharesWritable(a, av, e, va) BY <3>2, <4>1, <4>3 DEF SharesWritable
          <5>2. Window(a, av, e, va) BY <1>1, <1>8, <5>1, WindowLemma
          <5>3. a # e BY <5>1, <1>1, <1>2, <1>3, <1>8, NothingShared
          <5>4. child[a] = e /\ child[a] # NoEnv BY <5>2, <5>3, CowForkAssumption DEF Window
          <5>5. status[e] = "embryo" BY <5>4 DEF IInv, EnvShape, ForkShape
          <5> QED BY <5>5, <1>2
        <4> QED BY <4>2, <4>3
      <3> QED BY <3>3, <3>4
    <2>3. CASE my = NoPte
      <3>1. pte' = pte BY <2>3, <1>14
      <3> QED BY <3>1, <1>1, <1>2, <1>3, <1>19, NothingMapped
    <2>4. CASE my # NoPte
      BY <2>2, <2>4, <1>1, <1>2, <1>19, PrivateStep
    <2> QED BY <2>3, <2>4
  <1>25. LoopShape(e)'
    <2>1. /\ "ux" \notin todo[e]
          /\ \A ov \in Program \ todo[e] : pte[c][ov] # NoPte
          /\ \A d \in Data \ todo[e] : pte[c][d].frame = pte[e][d].frame
      BY <1>1, <1>2, <1>5 DEF EnvShape, LoopShape
    <2>2. "ux" \notin todo'[e] BY <1>19, <2>1
    <2>3. \A ov \in Program \ todo'[e] : pte'[c][ov] # NoPte
      BY <2>1, <1>8, <1>12, <1>13, <1>17, <1>18, <1>19, VasLemma
    <2>4. \A d \in Data \ todo'[e] : pte'[c][d].frame = pte[e][d].frame
      BY <2>1, <1>7, <1>8, <1>12, <1>13, <1>17, <1>18, <1>19, VasLemma
    <2> QED BY <2>2, <2>3, <2>4, <1>2, <1>5, <1>22 DEF LoopShape
  <1>26. MarkShape(e)'
    <2> SUFFICES ASSUME my.perm \in {"w", "cow"}
                 PROVE  /\ fault'[e] = <<>> /\ CanPush(e)'
                        /\ todo'[e] # {} /\ "pftemp" \notin todo'[e]
                        /\ pte'[e][va].perm \in {"w", "cow"}
                        /\ pte'[c][va] = Pte(pte'[e][va].frame, "cow")
      BY <1>2, <1>5, <1>19, <1>23 DEF MarkShape
    <2>1. my # NoPte BY PteLemma
    <2> QED BY <2>1, <1>2, <1>7, <1>11, <1>15, <1>17, <1>18, <1>19, <1>22 DEF CanPush
  <1>27. EnvShape(e)'
    <2>1. ForkShape(e)'
      BY <1>1, <1>2, <1>4, <1>19 DEF EnvShape, ForkShape, Depth
    <2>2. PteShape(e)' BY <1>1, <1>2, <1>22 DEF EnvShape, PteShape, AtStep, Depth
    <2>3. FaultShape(e)'
      BY <1>1, <1>2, <1>22 DEF EnvShape, FaultShape, AtStep, Depth, FaultVa
    <2> QED BY <2>1, <2>2, <2>3, <1>25, <1>26 DEF EnvShape
  <1>28. EnvShape(c)'
    <2>1. ForkShape(c)' BY <1>2, <1>6, <1>19 DEF EnvShape, ForkShape, Depth
    <2>2. LoopShape(c)' /\ MarkShape(c)' BY <1>6, <1>19 DEF LoopShape, MarkShape
    <2>3. PteShape(c)'
      <3>1. CASE my = NoPte
        <4>1. pte'[c] = pte[c] BY <3>1, <1>14
        <4> QED BY <4>1, <1>2, <1>6 DEF EnvShape, PteShape, AtStep, Depth
      <3>2. CASE my # NoPte
        <4>1. va \in ReadOnly => n.perm = "r"
          BY <3>2, <1>1, <1>7, <1>9, <1>13, <1>17, PteLemma DEF EnvShape, PteShape
        <4>2. va \in Data \cup {"stack"} => n.perm = "cow"
          BY <3>2, <1>1, <1>7, <1>9, <1>13, <1>17, PteLemma DEF EnvShape, PteShape
        <4>3. va # "pftemp" /\ va # "ux" BY <3>2, <1>11, VasLemma
        <4> QED BY <3>2, <4>1, <4>2, <4>3, <1>2, <1>6, <1>18, VasLemma
                   DEF EnvShape, PteShape, AtStep, Depth
      <3> QED BY <3>1, <3>2
    <2>4. FaultShape(c)' BY <1>2, <1>6 DEF FaultShape, AtStep, Depth
    <2> QED BY <2>1, <2>2, <2>3, <2>4 DEF EnvShape
  <1>29. CopyInv(e)' /\ CopyInv(c)' BY <1>2, <1>6 DEF CopyInv, AtStep, Depth
  <1>30. IInv' /\ \A o \in Envs \ {e, c} : Memory(o)' = Memory(o)
    BY <1>2, <1>5, <1>6, <1>20, <1>21, <1>24, <1>27, <1>28, <1>29, StepLemma
  <1>31. Memory(c)' = Memory(c) /\ Memory(e)' = Memory(e)
    BY <1>2, <1>6, <1>22 DEF Memory
  <1> QED BY <1>30, <1>31 DEF Quiet

\* The page of the parent becomes copy-on-write.
LEMMA MarkLemma ==
  ASSUME IInv, NEW e \in Envs, duppage_mark(e)
  PROVE  IInv' /\ Quiet
PROOF
  <1>1. TypeOK /\ WritableIsPrivate /\ EnvShape(e) /\ CopyInv(e) BY DEF IInv
  <1>2. /\ status[e] = "live" /\ fault[e] = <<>> /\ pc[e] = "mark"
        /\ pc' = [pc EXCEPT ![e] = "dup"]
        /\ UNCHANGED <<status, mem, upcall, handler, child, op, fault>>
    BY DEF duppage_mark, InFork, Executing
  <1>3. Depth(e) = 0 /\ \A S : ~AtStep(e, S) BY <1>2, CalmLemma
  <1>4. child[e] # NoEnv BY <1>1, <1>2 DEF EnvShape, ForkShape
  <1>5. PICK c \in Envs : c = child[e] BY <1>1, <1>4 DEF TypeOK
  <1>6. c # e BY <1>2, <1>4, <1>5, ChildLemma
  <1>7. PICK va, f : va = NextPage(e) /\ f = pte[e][va].frame OBVIOUS
  <1>8. va \in todo[e] /\ va \in Vas /\ va # "ux" /\ va # "pftemp"
    <2>1. todo[e] # {} /\ "pftemp" \notin todo[e] BY <1>1, <1>2 DEF EnvShape, MarkShape
    <2>2. va \in todo[e] BY <2>1, <1>7, NextPageLemma
    <2> QED BY <2>1, <2>2, <1>1, <1>2 DEF TypeOK, EnvShape, LoopShape
  <1>9. pte[e][va].perm \in {"w", "cow"} /\ pte[c][va] = Pte(f, "cow")
    BY <1>1, <1>2, <1>5, <1>7 DEF EnvShape, MarkShape
  <1>10. f \in Frames BY <1>1, <1>7, <1>8, <1>9, PteLemma DEF TypeOK
  <1>11. [pte[e][va] EXCEPT !.perm = "cow"] = Pte(f, "cow")
    <2>0. pte[e][va] \in Ptes BY <1>1, <1>8 DEF TypeOK
    <2>1. pte[e][va] = Pte(f, pte[e][va].perm) BY <2>0, <1>7, <1>9, PteLemma
    <2>2. \A p : [Pte(f, p) EXCEPT !.perm = "cow"] = Pte(f, "cow") BY DEF Pte
    <2> QED BY <2>1, <2>2
  <1>12. pte' = [pte EXCEPT ![e][va] = Pte(f, "cow")]
    <2>1. pte' = [pte EXCEPT ![e][va].perm = "cow"] BY <1>7 DEF duppage_mark
    <2>2. pte' = [pte EXCEPT ![e][va] = [pte[e][va] EXCEPT !.perm = "cow"]]
      BY <2>1, <1>1, <1>8 DEF TypeOK
    <2> QED BY <2>2, <1>11
  <1>13. Pte(f, "cow") \in Ptes /\ Pte(f, "cow").frame = f /\ Pte(f, "cow").perm = "cow"
         /\ Pte(f, "cow") # NoPte
    BY <1>10, PteLemma
  <1>14. /\ pte' \in [Envs -> [Vas -> Ptes]]
         /\ pte'[e][va] = Pte(f, "cow")
         /\ \A ov \in Vas \ {va} : pte'[e][ov] = pte[e][ov]
         /\ \A o \in Envs \ {e} : pte'[o] = pte[o]
    BY <1>1, <1>8, <1>12, <1>13, MapLemma
  <1>15. \A ov \in Vas : pte'[e][ov].frame = pte[e][ov].frame
    BY <1>7, <1>13, <1>14
  <1>16. /\ todo'[e] = todo[e] \ {va} /\ \A o \in Envs \ {e} : todo'[o] = todo[o]
         /\ pc'[e] = "dup" /\ \A o \in Envs \ {e} : pc'[o] = pc[o]
    BY <1>1, <1>2, <1>7 DEF TypeOK, duppage_mark
  <1>17. TypeOK'
    <2>1. todo' \in [Envs -> SUBSET Vas] BY <1>1, <1>7 DEF TypeOK, duppage_mark
    <2> QED BY <1>1, <1>2, <1>14, <2>1 DEF TypeOK, Phases
  <1>18. \A o \in Envs \ {e} : Same(o) /\ Keeps(o)
    BY <1>2, <1>14, <1>16 DEF Same, Keeps
  <1>19. WritableIsPrivate'
    <2>1. ASSUME NEW a \in Envs, NEW b \in Envs, NEW av \in Vas, NEW bv \in Vas,
                 SharesWritable(a, av, b, bv)'
          PROVE  a # e /\ SharesWritable(a, av, b, bv)
      <3>1. <<a, av>> # <<e, va>> BY <2>1, <1>13, <1>14 DEF SharesWritable
      <3>2. pte'[a][av] = pte[a][av] BY <3>1, <1>14
      <3>3. pte'[b][bv].frame = pte[b][bv].frame BY <1>14, <1>15
      <3>4. SharesWritable(a, av, b, bv) BY <2>1, <3>2, <3>3 DEF SharesWritable
      <3>5. Window(a, av, b, bv) BY <1>1, <3>4, WindowLemma
      <3>6. a # e BY <1>2, <1>7, <3>1, <3>5 DEF Window
      <3> QED BY <3>4, <3>6
    <2> QED BY <1>1, <1>2, <1>16, <2>1, PrivateStep
  <1>20. EnvShape(e)'
    <2>1. ForkShape(e)' BY <1>1, <1>2, <1>4, <1>16 DEF EnvShape, ForkShape, Depth
    <2>2. LoopShape(e)'
      <3>1. /\ "ux" \notin todo[e]
            /\ \A ov \in Program \ todo[e] : pte[c][ov] # NoPte
            /\ \A d \in Data \ todo[e] : pte[c][d].frame = pte[e][d].frame
        BY <1>1, <1>2, <1>5 DEF EnvShape, LoopShape
      <3>2. pte'[c] = pte[c] BY <1>6, <1>14
      <3>3. \A ov \in Program \ todo'[e] : pte'[c][ov] # NoPte
        BY <3>1, <3>2, <1>9, <1>13, <1>16
      <3>4. \A d \in Data \ todo'[e] : pte'[c][d].frame = pte'[e][d].frame
        BY <3>1, <3>2, <1>7, <1>9, <1>13, <1>15, <1>16, VasLemma
      <3> QED BY <3>1, <3>3, <3>4, <1>2, <1>5, <1>16 DEF LoopShape
    <2>3. MarkShape(e)' BY <1>16 DEF MarkShape
    <2>4. PteShape(e)'
      BY <1>1, <1>2, <1>8, <1>9, <1>13, <1>14, VasLemma DEF EnvShape, PteShape, AtStep, Depth
    <2>5. FaultShape(e)' BY <1>2 DEF FaultShape, AtStep, Depth
    <2> QED BY <2>1, <2>2, <2>3, <2>4, <2>5 DEF EnvShape
  <1>21. CopyInv(e)' BY <1>2 DEF CopyInv, AtStep, Depth
  <1>22. IInv' /\ \A o \in Envs \ {e, NoEnv} : Memory(o)' = Memory(o)
    BY <1>2, <1>17, <1>18, <1>19, <1>20, <1>21, StepLemma
  <1>23. Memory(e)' = Memory(e) BY <1>2, <1>15, VasLemma DEF Memory
  <1> QED BY <1>22, <1>23, CowForkAssumption DEF Quiet

\* The child runs, with its parent's memory.
LEMMA ReleaseLemma ==
  ASSUME IInv, NEW e \in Envs, fork_release(e)
  PROVE  /\ IInv'
         /\ \E c \in Envs \ {e} :
              /\ Memory(c) = Dead /\ Memory(c)' = Memory(e)
              /\ \A o \in Envs \ {c} : Memory(o)' = Memory(o)
PROOF
  <1>1. TypeOK /\ WritableIsPrivate /\ EnvShape(e) /\ CopyInv(e) BY DEF IInv
  <1>2. /\ status[e] = "live" /\ fault[e] = <<>> /\ pc[e] = "dup" /\ todo[e] = {}
        /\ pc' = [pc EXCEPT ![e] = "user"] /\ child' = [child EXCEPT ![e] = NoEnv]
        /\ UNCHANGED <<pte, mem, upcall, handler, todo, op, fault>>
    BY DEF fork_release, InFork, Executing
  <1>3. Depth(e) = 0 /\ \A S : ~AtStep(e, S) BY <1>2, CalmLemma
  <1>4. child[e] # NoEnv BY <1>1, <1>2 DEF EnvShape, ForkShape
  <1>5. PICK c \in Envs : c = child[e] BY <1>1, <1>4 DEF TypeOK
  <1>6. /\ c # e /\ status[c] = "embryo" /\ pc[c] = "user" /\ fault[c] = <<>>
        /\ op[c] = NoOp /\ child[c] = NoEnv /\ EnvShape(c) /\ CopyInv(c)
    BY <1>2, <1>4, <1>5, ChildLemma
  <1>7. status' = [status EXCEPT ![c] = "live"] BY <1>5 DEF fork_release
  <1>8. /\ status'[c] = "live" /\ \A o \in Envs \ {c} : status'[o] = status[o]
        /\ pc'[e] = "user" /\ \A o \in Envs \ {e} : pc'[o] = pc[o]
        /\ child'[e] = NoEnv /\ \A o \in Envs \ {e} : child'[o] = child[o]
    BY <1>1, <1>2, <1>7 DEF TypeOK
  <1>9. TypeOK' BY <1>1, <1>2, <1>7 DEF TypeOK, Phases
  <1>10. \A o \in Envs \ {e, c} : Same(o) /\ Keeps(o) BY <1>2, <1>8 DEF Same, Keeps
  <1>11. WritableIsPrivate' BY <1>1, <1>2, <1>3, <1>8, NothingMapped
  <1>12. /\ \A va \in Program : pte[c][va] # NoPte
         /\ \A d \in Data : pte[c][d].frame = pte[e][d].frame
    BY <1>1, <1>2, <1>5 DEF EnvShape, LoopShape
  <1>13. EnvShape(e)'
    <2>1. op[e] = NoOp BY <1>1, <1>2 DEF EnvShape, ForkShape
    <2>2. ForkShape(e)' BY <1>2, <1>6, <1>8, <2>1 DEF ForkShape
    <2>3. LoopShape(e)' /\ MarkShape(e)' BY <1>8 DEF LoopShape, MarkShape
    <2>4. PteShape(e)' BY <1>1, <1>2, <1>6, <1>8 DEF EnvShape, PteShape, AtStep, Depth
    <2>5. FaultShape(e)' BY <1>2 DEF FaultShape, AtStep, Depth
    <2> QED BY <2>2, <2>3, <2>4, <2>5 DEF EnvShape
  <1>14. EnvShape(c)'
    <2>1. ForkShape(c)' BY <1>2, <1>6, <1>8 DEF ForkShape
    <2>2. LoopShape(c)' /\ MarkShape(c)' BY <1>6, <1>8 DEF LoopShape, MarkShape
    <2>3. PteShape(c)' BY <1>2, <1>6, <1>8, <1>12 DEF EnvShape, PteShape, AtStep, Depth
    <2>4. FaultShape(c)' BY <1>2, <1>6 DEF FaultShape, AtStep, Depth
    <2> QED BY <2>1, <2>2, <2>3, <2>4 DEF EnvShape
  <1>15. CopyInv(e)' /\ CopyInv(c)' BY <1>2, <1>6 DEF CopyInv, AtStep, Depth
  <1>16. IInv' /\ \A o \in Envs \ {e, c} : Memory(o)' = Memory(o)
    BY <1>2, <1>5, <1>6, <1>8, <1>9, <1>10, <1>11, <1>13, <1>14, <1>15, StepLemma
  <1>17. Memory(e)' = Memory(e) BY <1>2, <1>6, <1>8 DEF Memory
  <1>18. Memory(c) = Dead BY <1>6 DEF Memory
  <1>19. Memory(c)' = Memory(e) BY <1>2, <1>8, <1>12 DEF Memory
  <1> QED BY <1>6, <1>16, <1>17, <1>18, <1>19

-----------------------------------------------------------------------------
(* The initial state, and all steps together *)

\* The memory of an environment that runs.
LEMMA AliveLemma ==
  ASSUME IInv, NEW e \in Envs, status[e] \in {"live", "stuck"}
  PROVE  Memory(e) \in [Data -> Values] /\ Memory(e) # Dead
PROOF
  <1>1. \A d \in Data : pte[e][d] # NoPte /\ d \in Vas
    BY VasLemma DEF IInv, EnvShape, PteShape
  <1>2. \A d \in Data : pte[e][d].frame \in Frames
    BY <1>1, PteLemma DEF IInv, TypeOK
  <1>3. Memory(e) = [d \in Data |-> mem[pte[e][d].frame]] BY DEF Memory
  <1>4. Memory(e) \in [Data -> Values] BY <1>2, <1>3 DEF IInv, TypeOK
  <1> QED BY <1>4, CowForkAssumption

\* What a step does to the memories: nothing, one store, one end, one fork.
Stored(e) ==
  /\ Memory(e) # Dead
  /\ \E d \in Data, v \in Values \ {Zero} : Memory(e)' = [Memory(e) EXCEPT ![d] = v]
  /\ \A o \in Envs \ {e} : Memory(o)' = Memory(o)
Ended(e) ==
  /\ Memory(e) # Dead /\ Memory(e)' = Dead
  /\ \A o \in Envs \ {e} : Memory(o)' = Memory(o)
Forked(e) ==
  /\ Memory(e) # Dead
  /\ \E c \in Envs \ {e} :
       /\ Memory(c) = Dead /\ Memory(c)' = Memory(e)
       /\ \A o \in Envs \ {c} : Memory(o)' = Memory(o)

\* The end of an environment, as a step of the memories.
LEMMA EndLemma ==
  ASSUME IInv, NEW e \in Envs, status[e] \in {"live", "stuck"}, env_destroy(e)
  PROVE  IInv' /\ Ended(e)
PROOF BY DestroyLemma, AliveLemma DEF Ended

\* The kernel's page fault handler.
LEMMA PageFaultLemma ==
  ASSUME IInv, NEW e \in Envs, status[e] = "live", pc[e] # "mark",
         NEW va \in Program, NEW instr \in Ops,
         Depth(e) < 2, fault[e] # <<>> => fault[e][Depth(e)].step = "ret",
         instr # NoOp => instr.v # Zero /\ pc[e] = "user",
         pc[e] # "user" => va = "stack",
         page_fault_handler(e, va, instr)
  PROVE  IInv' /\ (Quiet \/ Ended(e))
PROOF
  <1>1. CASE upcall[e] /\ user_mem_assert(e)
    <2>1. /\ fault' = [fault EXCEPT ![e] = Append(@, [va |-> va, step |-> "alloc",
                                                       at |-> FrameAt(e)])]
          /\ user_mem_assert(e)
          /\ op' = [op EXCEPT ![e] = instr]
          /\ UNCHANGED <<status, pte, mem, upcall, handler, forkVars>>
      BY <1>1 DEF page_fault_handler
    <2> QED BY <2>1, FaultLemma
  <1>2. CASE ~(upcall[e] /\ user_mem_assert(e))
    <2>1. env_destroy(e) BY <1>2 DEF page_fault_handler
    <2> QED BY <2>1, EndLemma
  <1> QED BY <1>1, <1>2

\* A store of user code that goes through.
LEMMA ExecuteLemma ==
  ASSUME IInv, NEW e \in Envs, Executing(e), pc[e] = "user",
         NEW va \in Program, NEW v \in Values, v # Zero, execute(e, va, v)
  PROVE  IInv' /\ (Quiet \/ Stored(e))
PROOF
  <1>1. /\ IInv'
        /\ \A o \in Envs \ {e} : Memory(o)' = Memory(o)
        /\ \/ Memory(e)' = Memory(e)
           \/ va \in Data /\ Memory(e)' = [Memory(e) EXCEPT ![va] = v]
    BY StoreLemma
  <1>2. Memory(e) # Dead BY AliveLemma DEF Executing
  <1>3. CASE Memory(e)' = Memory(e) BY <1>1, <1>3 DEF Quiet
  <1>4. CASE va \in Data /\ Memory(e)' = [Memory(e) EXCEPT ![va] = v]
    BY <1>1, <1>2, <1>4 DEF Stored
  <1> QED BY <1>1, <1>3, <1>4

\* Every step preserves the invariant and does one of the four.
LEMMA NextLemma ==
  ASSUME IInv, NEW e \in Envs,
         Step(e) \/ write(e) \/ fork_start(e) \/ exit(e) \/ sys_env_destroy(e)
  PROVE  IInv' /\ (Quiet \/ Stored(e) \/ Ended(e) \/ Forked(e))
PROOF
  <1>1. TypeOK /\ EnvShape(e) BY DEF IInv
  <1>2. op[e] # NoOp => op[e].va \in Program /\ op[e].v \in Values /\ op[e].v # Zero
                        /\ pc[e] = "user"
    BY <1>1 DEF TypeOK, Ops, EnvShape, ForkShape
  <1>3. NoOp \in Ops /\ op[e] \in Ops BY <1>1 DEF TypeOK, Ops
  <1>4. fault[e] = <<>> => Depth(e) < 2 BY CalmLemma
  <1>5. CASE write_again(e)
    <2>1. Executing(e) /\ op[e] # NoOp /\ status[e] = "live" /\ fault[e] = <<>>
      BY <1>5 DEF write_again, Executing
    <2>2. CASE execute(e, op[e].va, op[e].v) BY <1>2, <2>1, <2>2, ExecuteLemma
    <2>3. CASE page_fault_handler(e, op[e].va, op[e])
      BY <1>2, <1>3, <1>4, <2>1, <2>3, PageFaultLemma
    <2> QED BY <1>5, <2>2, <2>3 DEF write_again
  <1>6. CASE push_fault(e)
    <2>1. /\ status[e] = "live" /\ fault[e] = <<>> /\ pc[e] # "user" /\ ~CanPush(e)
          /\ page_fault_handler(e, "stack", op[e])
      BY <1>6 DEF push_fault, Executing
    <2>2. pc[e] # "mark" BY <1>1, <2>1 DEF EnvShape, MarkShape
    <2>3. op[e] = NoOp BY <1>2, <2>1
    <2> QED BY <1>3, <1>4, <2>1, <2>2, <2>3, VasLemma, PageFaultLemma
  <1>7. CASE pgfault_alloc(e) BY <1>7, AllocLemma
  <1>8. CASE pgfault_copy(e) BY <1>8, CopyLemma
  <1>9. CASE pgfault_map(e) BY <1>9, MapCopyLemma
  <1>10. CASE pgfault_unmap(e) BY <1>10, UnmapLemma
  <1>11. CASE _pgfault_upcall(e)
    <2>1. Handling(e, "ret") BY <1>11 DEF _pgfault_upcall
    <2>2. CASE /\ fault' = [fault EXCEPT ![e] = SubSeq(@, 1, Depth(e) - 1)]
               /\ UNCHANGED <<status, pte, mem, upcall, handler, forkVars, op>>
      BY <2>1, <2>2, ReturnLemma
    <2>3. CASE /\ pte[e][TrapStack(e)].perm # "w"
               /\ page_fault_handler(e, TrapStack(e), op[e])
      <3>1. status[e] = "live" /\ fault[e] # <<>> /\ fault[e][Depth(e)].step = "ret"
        BY <2>1 DEF Handling
      <3>2. pc[e] # "mark" BY <1>1, <3>1 DEF EnvShape, MarkShape
      <3>3. Depth(e) < 2
        <4>1. Depth(e) \in Nat BY <1>1 DEF TypeOK, Depth
        <4>2. Depth(e) >= 1 => pte[e]["ux"].perm = "w" BY <1>1 DEF EnvShape, FaultShape
        <4> QED BY <2>3, <4>1, <4>2 DEF TrapStack
      <3>4. TrapStack(e) = "stack"
        BY <1>1, <3>3 DEF TrapStack, TypeOK, Depth
      <3>5. page_fault_handler(e, "stack", op[e]) BY <2>3, <3>4
      <3> QED BY <1>2, <1>3, <3>1, <3>2, <3>3, <3>5, VasLemma, PageFaultLemma
    <2> QED BY <1>11, <2>2, <2>3 DEF _pgfault_upcall
  <1>12. CASE fork_exofork(e) BY <1>12, ExoforkLemma
  <1>13. CASE fork_uxstack(e) BY <1>13, UxStackLemma
  <1>14. CASE duppage(e) BY <1>14, DuppageLemma
  <1>15. CASE duppage_mark(e) BY <1>15, MarkLemma
  <1>16. CASE fork_nomem(e)
    <2>1. /\ status[e] = "live" /\ fault[e] = <<>> /\ pc[e] # "mark" /\ panic(e)
          /\ UNCHANGED <<pte, mem, upcall, handler, forkVars, op, fault>>
      BY <1>16 DEF fork_nomem, Executing
    <2>2. ~AtStep(e, {"unmap"}) BY <2>1, CalmLemma
    <2> QED BY <2>1, <2>2, PanicLemma DEF forkVars
  <1>17. CASE fork_release(e)
    <2>1. Memory(e) # Dead BY <1>17, AliveLemma DEF fork_release, InFork, Executing
    <2> QED BY <1>17, <2>1, ReleaseLemma DEF Forked
  <1>18. CASE write(e)
    <2>1. Executing(e) /\ pc[e] = "user" /\ status[e] = "live" /\ fault[e] = <<>>
      BY <1>18 DEF write, Executing
    <2>2. PICK va \in Program, v \in Values \ {Zero} :
            \/ execute(e, va, v)
            \/ page_fault_handler(e, va, [va |-> va, v |-> v])
      BY <1>18 DEF write
    <2>3. CASE execute(e, va, v) BY <2>1, <2>3, ExecuteLemma
    <2>4. CASE page_fault_handler(e, va, [va |-> va, v |-> v])
      <3>1. PICK instr : instr = [va |-> va, v |-> v] OBVIOUS
      <3>2. instr \in Ops /\ instr.v # Zero BY <3>1 DEF Ops
      <3>3. page_fault_handler(e, va, instr) BY <2>4, <3>1
      <3> QED BY <1>4, <2>1, <3>2, <3>3, PageFaultLemma
    <2> QED BY <2>2, <2>3, <2>4
  <1>19. CASE fork_start(e) BY <1>19, StartLemma
  <1>20. CASE exit(e) BY <1>20, EndLemma DEF exit, InFork, Executing
  <1>21. CASE sys_env_destroy(e) BY <1>21, EndLemma DEF sys_env_destroy
  <1> QED BY <1>5, <1>6, <1>7, <1>8, <1>9, <1>10, <1>11, <1>12, <1>13, <1>14, <1>15,
             <1>16, <1>17, <1>18, <1>19, <1>20, <1>21 DEF Step

\* Where the program is loaded.
At == CHOOSE a \in [Program -> Frames] : \A x, y \in Program : x # y => a[x] # a[y]

\* The invariant holds when the program starts.
LEMMA InitLemma ==
  ASSUME Init
  PROVE  IInv /\ \A e \in Envs : Memory(e) = IF e = Root THEN [d \in Data |-> Zero] ELSE Dead
PROOF
  <1>1. At \in [Program -> Frames] /\ \A x, y \in Program : x # y => At[x] # At[y]
    <2>1. \E a \in [Program -> Frames] : \A x, y \in Program : x # y => a[x] # a[y]
      BY CowForkAssumption
    <2> QED BY <2>1 DEF At
  <1>2. pte = [e \in Envs |-> [va \in Vas |->
                 IF e = Root /\ va \in Program
                 THEN Pte(At[va], IF va \in ReadOnly THEN "r" ELSE "w")
                 ELSE NoPte]]
    BY DEF Init, At
  <1> DEFINE perm(va) == IF va \in ReadOnly THEN "r" ELSE "w"
  <1>3. \A va \in Program : /\ Pte(At[va], perm(va)) \in Ptes /\ Pte(At[va], perm(va)) # NoPte
                            /\ Pte(At[va], perm(va)).frame = At[va]
                            /\ Pte(At[va], perm(va)).perm = perm(va)
    BY <1>1, PteLemma
  <1>4. \A va \in Program : /\ pte[Root][va] \in Ptes /\ pte[Root][va] # NoPte
                            /\ pte[Root][va].frame = At[va]
                            /\ pte[Root][va].perm = perm(va)
    BY <1>2, <1>3, VasLemma, CowForkAssumption
  <1>5. \A e \in Envs, va \in Vas : e # Root \/ va \notin Program => pte[e][va] = NoPte
    BY <1>2
  <1>6. pte \in [Envs -> [Vas -> Ptes]]
    <2>1. \A e \in Envs, va \in Vas : pte[e][va] \in Ptes BY <1>4, <1>5, PteLemma
    <2> QED BY <1>2, <2>1
  <1>7. /\ \A e \in Envs : pc[e] = "user" /\ child[e] = NoEnv /\ fault[e] = <<>>
                           /\ op[e] = NoOp
        /\ status[Root] = "live" /\ \A e \in Envs \ {Root} : status[e] = "free"
    BY CowForkAssumption DEF Init
  <1>8. TypeOK
    <2>1. fault \in [Envs -> Seq([va : Program, step : FaultSteps, at : Nat])]
      <3> DEFINE T == [va : Program, step : FaultSteps, at : Nat]
      <3> HIDE DEF T
      <3>1. <<>> \in Seq(T) OBVIOUS
      <3>2. fault \in [Envs -> Seq(T)] BY <3>1 DEF Init
      <3> QED BY <3>2 DEF T
    <2>2. /\ status \in [Envs -> {"free", "embryo", "live", "stuck", "gone"}]
          /\ mem \in [Frames -> Values]
          /\ upcall \in [Envs -> BOOLEAN] /\ handler \in [Envs -> BOOLEAN]
          /\ pc \in [Envs -> Phases] /\ child \in [Envs -> Envs \cup {NoEnv}]
          /\ todo \in [Envs -> SUBSET Vas]
      BY CowForkAssumption DEF Init, Phases
    <2>3. op \in [Envs -> Ops] BY DEF Init, Ops
    <2> QED BY <1>6, <2>1, <2>2, <2>3 DEF TypeOK
  <1>9. WritableIsPrivate
    <2> SUFFICES ASSUME NEW a \in Envs, NEW b \in Envs, NEW av \in Vas, NEW bv \in Vas,
                        SharesWritable(a, av, b, bv)
                 PROVE  FALSE
      BY WindowLemma
    <2>1. a = Root /\ av \in Program BY <1>5, PteLemma DEF SharesWritable
    <2>2. pte[b][bv].frame = At[av] /\ At[av] \in Frames BY <1>1, <1>4, <2>1 DEF SharesWritable
    <2>3. b = Root /\ bv \in Program BY <1>5, <2>2, PteLemma
    <2> QED BY <1>1, <1>4, <2>1, <2>2, <2>3 DEF SharesWritable
  <1>10. OneParent BY <1>7 DEF OneParent
  <1>11. ASSUME NEW e \in Envs PROVE EnvShape(e) /\ CopyInv(e)
    <2>1. Depth(e) = 0 /\ \A S : ~AtStep(e, S) BY <1>7, CalmLemma
    <2>2. ForkShape(e) BY <1>7, <2>1 DEF ForkShape
    <2>3. LoopShape(e) /\ MarkShape(e) BY <1>7 DEF LoopShape, MarkShape
    <2>4. PteShape(e)
      <3>1. CASE e = Root BY <3>1, <1>4, <1>5, <1>7, <2>1, PteLemma, VasLemma DEF PteShape
      <3>2. CASE e # Root BY <3>2, <1>5, <1>7, <2>1, PteLemma, VasLemma DEF PteShape
      <3> QED BY <3>1, <3>2
    <2>5. FaultShape(e) BY <2>1 DEF FaultShape
    <2> QED BY <2>1, <2>2, <2>3, <2>4, <2>5 DEF EnvShape, CopyInv
  <1>12. ASSUME NEW e \in Envs
         PROVE  Memory(e) = IF e = Root THEN [d \in Data |-> Zero] ELSE Dead
    <2>1. CASE e # Root BY <2>1, <1>7 DEF Memory
    <2>2. CASE e = Root
      <3>1. \A d \in Data : mem[pte[e][d].frame] = Zero
        <4>1. mem = [f \in Frames |-> Zero] BY DEF Init
        <4>2. \A d \in Data : pte[e][d].frame \in Frames BY <2>2, <1>1, <1>4, VasLemma
        <4> QED BY <4>1, <4>2
      <3> QED BY <2>2, <3>1, <1>7 DEF Memory
    <2> QED BY <2>1, <2>2
  <1> QED BY <1>8, <1>9, <1>10, <1>11, <1>12 DEF IInv

\* A step that changes nothing changes no memory.
LEMMA StutterLemma ==
  ASSUME IInv, UNCHANGED vars
  PROVE  IInv' /\ Quiet
PROOF
  <1>1. TypeOK' BY DEF IInv, TypeOK, vars
  <1>2. \A o \in Envs : Same(o) /\ Keeps(o) BY DEF Same, Keeps, vars
  <1>3. ASSUME NEW o \in Envs PROVE EnvShape(o)' /\ CopyInv(o)' /\ Memory(o)' = Memory(o)
    <2>1. TypeOK /\ EnvShape(o) /\ CopyInv(o) BY DEF IInv
    <2>2. child[o] # NoEnv => child[o] \in Envs BY <2>1 DEF TypeOK
    <2> QED BY <1>2, <2>1, <2>2, BystanderLemma, KeptLemma
  <1>4. OneParent' BY DEF IInv, OneParent, vars
  <1>5. WritableIsPrivate'
    <2>1. \A a, b \in Envs, av, bv \in Vas :
            SharesWritable(a, av, b, bv)' => a # NoEnv /\ SharesWritable(a, av, b, bv)
      BY CowForkAssumption DEF SharesWritable, vars
    <2>2. \A o \in Envs \ {NoEnv} : pc'[o] = pc[o] /\ child'[o] = child[o]
                                    /\ todo'[o] = todo[o] /\ fault'[o] = fault[o]
      BY DEF vars
    <2> QED BY <2>1, <2>2, PrivateStep DEF IInv
  <1> QED BY <1>1, <1>3, <1>4, <1>5 DEF IInv, Quiet

\* The invariant is inductive.
THEOREM InvariantTheorem == Spec => []IInv
PROOF
  <1>1. Init => IInv BY InitLemma
  <1>2. IInv /\ [Next]_vars => IInv' BY NextLemma, StutterLemma DEF Next
  <1> QED BY <1>1, <1>2, PTL DEF Spec

-----------------------------------------------------------------------------
(* Theorems *)

\* Every step of fork.c, pgfault.c and the kernel's page_fault_handler keeps
\* the state well formed.
THEOREM CowTypes == Spec => []TypeOK
PROOF
  <1>1. IInv => TypeOK BY DEF IInv
  <1> QED BY <1>1, InvariantTheorem, PTL

\* A frame that somebody may write is mapped once, but for the page duppage is
\* at and the copy that pgfault moves into place, for any number of
\* environments that fork and fault at the same time.
THEOREM PrivateTheorem == Spec => []WritableIsPrivate
PROOF
  <1>1. IInv => WritableIsPrivate BY DEF IInv
  <1> QED BY <1>1, InvariantTheorem, PTL

\* However large the exception stack is, trap frames do not overlap and the
\* return from a nested one pushes into the word that the kernel has left for
\* it (trap.c:394, pfentry.S:44): the stack the handler runs on stays writable,
\* so there are never more than two.
THEOREM TrapFramesTheorem == Spec => []TrapFramesIntact
PROOF
  <1>1. IInv => TrapFramesIntact
    <2> SUFFICES ASSUME IInv, NEW e \in Envs, NEW i \in 1..Depth(e), NEW j \in 1..Depth(e)
                 PROVE  /\ FrameWords(e, i) \subseteq 0..(UxWords - 1)
                        /\ i # j => FrameWords(e, i) \cap FrameWords(e, j) = {}
                        /\ i > 1 => ReturnWord(e, i) \notin FrameWords(e, j)
      BY DEF TrapFramesIntact
    <2>1. /\ Depth(e) \in Nat /\ Depth(e) <= 2 /\ UxWords \in Nat
          /\ \A k \in 1..Depth(e) : fault[e][k].at \in Nat
      <3>1. fault[e] \in Seq(TrapFrames) /\ FaultShape(e)
        BY DEF IInv, TypeOK, EnvShape, TrapFrames
      <3>2. Depth(e) \in Nat /\ \A k \in 1..Depth(e) : fault[e][k] \in TrapFrames
        BY <3>1 DEF Depth
      <3>3. \A k \in 1..Depth(e) : fault[e][k].at \in Nat BY <3>2 DEF TrapFrames
      <3> QED BY <3>1, <3>2, <3>3, CowForkAssumption DEF FaultShape
    <2>2. /\ fault[e][1].at = UxWords - 13
          /\ Depth(e) = 2 => fault[e][2].at = UxWords - 27
      BY <2>1 DEF IInv, EnvShape, FaultShape, UTrapWords
    <2>3. \A k \in 1..Depth(e) : k = 1 \/ (k = 2 /\ Depth(e) = 2) BY <2>1
    <2>4. FrameWords(e, i) \subseteq 0..(UxWords - 1)
      BY <2>1, <2>2, <2>3 DEF FrameWords, UTrapWords
    <2>5. i # j => FrameWords(e, i) \cap FrameWords(e, j) = {}
      BY <2>1, <2>2, <2>3 DEF FrameWords, UTrapWords
    <2>6. i > 1 => ReturnWord(e, i) \notin FrameWords(e, j)
      BY <2>1, <2>2, <2>3 DEF FrameWords, ReturnWord, UTrapWords
    <2> QED BY <2>4, <2>5, <2>6
  <1> QED BY <1>1, InvariantTheorem, PTL

\* Copy-on-write fork implements ForkSpec: the child starts with a copy of its
\* parent's memory, and from then on a store changes the memory of the one who
\* made it.
THEOREM IsolationTheorem == Spec => ForkIsolates
PROOF
  <1> DEFINE m == [e \in Envs |-> Memory(e)]
  <1>1. Init => Abstract!ForkInit
    BY InitLemma DEF Abstract!ForkInit
  <1>2. IInv /\ [Next]_vars => [Abstract!ForkNext]_m
    <2> SUFFICES ASSUME IInv, [Next]_vars PROVE Abstract!ForkNext \/ m' = m
      OBVIOUS
    <2>1. Quiet => m' = m BY DEF Quiet
    <2>2. ASSUME NEW e \in Envs, Stored(e) PROVE Abstract!AWrite(e)
      <3>1. PICK d \in Data, v \in Values \ {Zero} : Memory(e)' = [Memory(e) EXCEPT ![d] = v]
        BY <2>2 DEF Stored
      <3>2. m' = [m EXCEPT ![e] = [Memory(e) EXCEPT ![d] = v]] BY <2>2, <3>1 DEF Stored
      <3>3. m' = [m EXCEPT ![e][d] = v] BY <3>2
      <3>4. m[e] # Dead BY <2>2 DEF Stored
      <3> QED BY <3>3, <3>4 DEF Abstract!AWrite, Abstract!Alive
    <2>3. ASSUME NEW e \in Envs, Ended(e) PROVE Abstract!AExit(e)
      <3>1. m[e] # Dead BY <2>3 DEF Ended
      <3>2. Memory(e)' = Dead /\ \A o \in Envs \ {e} : Memory(o)' = m[o] BY <2>3 DEF Ended
      <3>3. m' = [o \in Envs |-> IF o = e THEN Dead ELSE m[o]]
        BY <3>2
      <3>4. m' = [m EXCEPT ![e] = Dead] BY <3>3
      <3> QED BY <3>1, <3>4 DEF Abstract!AExit, Abstract!Alive
    <2>4. ASSUME NEW e \in Envs, Forked(e) PROVE Abstract!AFork(e)
      <3>1. PICK c \in Envs \ {e} :
              /\ Memory(c) = Dead /\ Memory(c)' = Memory(e)
              /\ \A o \in Envs \ {c} : Memory(o)' = Memory(o)
        BY <2>4 DEF Forked
      <3>2. m' = [m EXCEPT ![c] = m[e]] /\ m[c] = Dead BY <3>1
      <3>3. m[e] # Dead BY <2>4 DEF Forked
      <3> QED BY <3>2, <3>3 DEF Abstract!AFork, Abstract!Alive
    <2>5. CASE UNCHANGED vars BY <2>1, <2>5, StutterLemma
    <2>6. CASE Next
      <3>1. PICK e \in Envs :
              Step(e) \/ write(e) \/ fork_start(e) \/ exit(e) \/ sys_env_destroy(e)
        BY <2>6 DEF Next
      <3>2. Quiet \/ Stored(e) \/ Ended(e) \/ Forked(e) BY <3>1, NextLemma
      <3> QED BY <2>1, <2>2, <2>3, <2>4, <3>2 DEF Abstract!ForkNext
    <2> QED BY <2>5, <2>6
  <1> QED BY <1>1, <1>2, InvariantTheorem, PTL
         DEF Spec, ForkIsolates, Abstract!IsolatedMemory
=============================================================================
