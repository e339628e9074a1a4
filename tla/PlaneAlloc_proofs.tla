--------------------------- MODULE PlaneAlloc_proofs ---------------------------
(***************************************************************************)
(* Proofs about PlaneAlloc, for any number of KMS and of hardware planes   *)
(* and commits that touch any number of them; and about Probe, for all of  *)
(* its boards, any order of probes and any number of failing calls.        *)
(***************************************************************************)
EXTENDS PlaneAlloc, Probe, WellFoundedInduction, FiniteSetTheorems, TLAPS

--------------------------------------------------------------------------------
(* The inductive invariant                                                   *)

\* A plane state that is settled has hardware planes exactly if it is visible.
Settled(s) == s.n = 0 <=> s.hw = -1

\* The new states are the current ones outside of a check, and during one tell
\* what is left to do: planes still to be allocated are visible and have none.
WorkInv ==
  /\ \A p \in Planes : Settled(plane[p])
  /\ ~checking => new = plane /\ work = {}
  /\ checking => \A p \in Planes :
       IF p \in work THEN new[p].n # 0 /\ new[p].hw = -1 ELSE Settled(new[p])

\* What a check changes belongs to the CRTCs it has locked, and planes that keep
\* their number of hardware planes keep these.
ChangeInv ==
  checking => \A p \in Planes :
    /\ new[p].n # 0 => new[p].crtc \in scope \/ new[p] = plane[p]
    /\ plane[p].n # 0 /\ new[p].n = plane[p].n => new[p].hw = plane[p].hw

IInv ==
  /\ TypeOK
  /\ WorkInv
  /\ ChangeInv
  /\ NoOverlapIn(plane) /\ NoOverlapIn(new)
  /\ FreeExact
  /\ AssociationExact

--------------------------------------------------------------------------------
(* Lemmas about the operators                                                *)

\* The plane after a hardware plane is one, also after the last.
LEMMA NextHw ==
  ASSUME NEW i \in Hw
  PROVE  (i + 1) % NumHw \in Hw
BY PlaneAllocAssumption DEF Hw

\* A plane state owns planes of the hardware, none if it has no hwindex.
LEMMA MaskType ==
  ASSUME NEW s \in States
  PROVE  /\ HwMask(s) \subseteq Hw
         /\ s.hw = -1 => HwMask(s) = {}
         /\ s.hw # -1 => s.hw \in HwMask(s)
BY NextHw DEF HwMask, States

\* What a state owns depends on its number of planes and its hwindex alone.
LEMMA MaskSame ==
  ASSUME NEW s, NEW t, s.n = t.n, s.hw = t.hw
  PROVE  HwMask(s) = HwMask(t)
BY DEF HwMask

\* A position the allocator finds has all the planes of the format available.
LEMMA PositionFits ==
  ASSUME NEW A \in SUBSET Hw, NEW s \in States, s.n # 0, NEW i \in Positions(s.n, A)
  PROVE  /\ i \in Hw /\ i # -1
         /\ [s EXCEPT !.hw = i] \in States
         /\ HwMask([s EXCEPT !.hw = i]) \subseteq A
<1>1. i \in A /\ i \in Hw /\ (s.n = 1 \/ (i + 1) % NumHw \in A)
  BY DEF Positions
<1>2. [s EXCEPT !.hw = i] \in States
  BY <1>1 DEF States
<1>3. i # -1
  BY <1>1, PlaneAllocAssumption DEF Hw
<1>4. HwMask([s EXCEPT !.hw = i]) \subseteq A
  BY <1>1, <1>3 DEF HwMask, States
<1> QED  BY <1>1, <1>2, <1>3, <1>4

\* Of the positions available there is a last one.
LEMMA LastIsOne ==
  ASSUME NEW S \in SUBSET Hw, S # {}
  PROVE  Last(S) \in S
<1> DEFINE T == {NumHw - i : i \in S}
           Less == OpToRel(<, Nat)
<1>1. T \subseteq Nat /\ T # {}
  BY PlaneAllocAssumption DEF Hw
<1>2. PICK x \in T : \A y \in T : ~ (<<y, x>> \in Less)
  <2> HIDE DEF T, Less
  <2> QED  BY <1>1, NatLessThanWellFounded, WFMin DEF Less
<1>3. ASSUME NEW y \in T PROVE x <= y
  <2>1. x \in Nat /\ y \in Nat /\ <<y, x>> \notin Less
    BY <1>1, <1>2
  <2>2. ~ (y < x)
    BY <2>1 DEF OpToRel
  <2> HIDE DEF T, Less
  <2> QED  BY <2>1, <2>2
<1>4. PICK i \in S : x = NumHw - i
  BY <1>2
<1>5. \A j \in S : j <= i
  BY <1>3, <1>4, PlaneAllocAssumption DEF Hw
<1> QED  BY <1>4, <1>5 DEF Last

\* The CRTCs a check takes in its atomic state are CRTCs of the group.
LEMMA CrtcsType ==
  ASSUME NEW states \in [Planes -> States], NEW L \in SUBSET Planes
  PROVE  CrtcsOf(states, L) \subseteq Crtcs
BY DEF CrtcsOf, States

--------------------------------------------------------------------------------
(* Each action preserves the invariant                                       *)

\* The first passes free what is disabled or moved, and only that: the planes in
\* neither set keep what they own.
LEMMA StartCheckPreserves ==
  ASSUME IInv,
         NEW T \in SUBSET Planes,
         NEW req \in [T -> {s \in States : s.hw = -1 /\ (s.n = 0 => s = Off)}],
         StartCheck(T, req)
  PROVE  IInv'
<1> DEFINE gone  == Disabled(req, T)
           moved == Reallocated(req, T)
           locked == IF moved = {} THEN T ELSE Planes
<1>1. /\ ~checking /\ checking' = TRUE
      /\ new' = [p \in Planes |->
                   IF p \in gone THEN Off
                   ELSE IF p \in moved THEN [req[p] EXCEPT !.hw = -1]
                   ELSE IF p \in T THEN [req[p] EXCEPT !.hw = plane[p].hw]
                   ELSE plane[p]]
      /\ work' = moved
      /\ free' = Hw \ UsedPlanes(new', gone \cup moved)
      /\ scope' = CrtcsOf(plane, locked) \cup CrtcsOf(new', locked)
      /\ UNCHANGED <<plane, pending, dptsr_planes>>
  BY DEF StartCheck
<1>2. gone \subseteq T /\ moved \subseteq T /\ gone \cap moved = {}
  BY DEF Disabled, Reallocated
<1>3. \A p \in gone : new'[p] = Off
  BY <1>1, <1>2
<1>4. \A p \in moved : /\ new'[p].n = req[p].n /\ new'[p].hw = -1 /\ req[p].n # 0
                       /\ plane[p].n = 0 \/ plane[p].n # new'[p].n
                       /\ new'[p] \in States
  BY <1>1, <1>2 DEF Disabled, Reallocated, NeedsRealloc, States
<1>5. \A p \in T \ (gone \cup moved) : /\ new'[p].n = plane[p].n /\ new'[p].n # 0
                                       /\ new'[p].hw = plane[p].hw
                                       /\ new'[p] \in States
  BY <1>1 DEF Disabled, Reallocated, NeedsRealloc, States, IInv, TypeOK
<1>6. \A p \in Planes \ T : new'[p] = plane[p]
  BY <1>1, <1>2
<1> HIDE DEF gone, moved
<1>7. TypeOK'
  <2>1. \A p \in Planes : new'[p] \in States
    BY <1>2, <1>3, <1>4, <1>5, <1>6, PlaneAllocAssumption DEF IInv, TypeOK, States, Off, Hw, Crtcs
  <2>2. new' \in [Planes -> States]
    BY <1>1, <2>1
  <2>3. locked \subseteq Planes /\ plane \in [Planes -> States]
    BY <1>2 DEF IInv, TypeOK
  <2>4. CrtcsOf(plane, locked) \subseteq Crtcs /\ CrtcsOf(new', locked) \subseteq Crtcs
    BY <2>2, <2>3, CrtcsType
  <2> QED  BY <1>1, <1>2, <2>2, <2>4 DEF IInv, TypeOK
<1>8. WorkInv'
  BY <1>1, <1>2, <1>3, <1>4, <1>5, <1>6 DEF IInv, WorkInv, Settled, Off
<1>9. ChangeInv'
  <2>1. ASSUME NEW p \in Planes, new'[p].n # 0
        PROVE  new'[p].crtc \in scope' \/ new'[p] = plane'[p]
    <3>1. CASE p \in locked
      BY <1>1, <2>1, <3>1 DEF CrtcsOf
    <3>2. CASE p \notin locked
      BY <1>1, <1>6, <3>2
    <3> QED  BY <3>1, <3>2
  <2>2. ASSUME NEW p \in Planes, plane'[p].n # 0, new'[p].n = plane'[p].n
        PROVE  new'[p].hw = plane'[p].hw
    BY <1>1, <1>2, <1>3, <1>4, <1>5, <1>6, <2>2 DEF Off
  <2> QED  BY <2>1, <2>2 DEF ChangeInv
<1>10. \A p \in Planes : HwMask(new'[p]) = IF p \in gone \cup moved THEN {} ELSE HwMask(plane[p])
  <2>1. \A p \in gone : HwMask(new'[p]) = {}
    BY <1>3 DEF HwMask, Off
  <2>2. \A p \in moved : HwMask(new'[p]) = {}
    BY <1>4, MaskType
  <2>3. \A p \in T \ (gone \cup moved) : HwMask(new'[p]) = HwMask(plane[p])
    BY <1>5, MaskSame
  <2> QED  BY <1>2, <1>6, <2>1, <2>2, <2>3
<1>11. NoOverlapIn(new)' /\ NoOverlapIn(plane)'
  BY <1>1, <1>10 DEF IInv, NoOverlapIn
<1>12. FreeExact'
  <2>1. UsedPlanes(new', gone \cup moved) = UsedPlanes(new', {})
    BY <1>10 DEF UsedPlanes
  <2> QED  BY <1>1, <2>1 DEF FreeExact
<1>13. AssociationExact'
  BY <1>1 DEF IInv, AssociationExact, HwPlanes, Associated
<1> QED  BY <1>7, <1>8, <1>9, <1>11, <1>12, <1>13 DEF IInv

\* An allocated plane gets positions that were free, hence nobody's.
LEMMA PlacePreserves ==
  ASSUME IInv, checking, NEW p \in work, NEW A \in SUBSET free,
         NEW i \in Positions(new[p].n, A), Place(p, i)
  PROVE  IInv'
<1>1. p \in Planes /\ new[p] \in States /\ new[p].n # 0 /\ new[p].hw = -1
  BY DEF IInv, TypeOK, WorkInv
<1>2. /\ new' = [new EXCEPT ![p].hw = i]
      /\ free' = free \ HwMask(new'[p]) /\ work' = work \ {p}
      /\ UNCHANGED <<plane, checking, scope, pending, dptsr_planes>>
  BY DEF Place
<1>3. new'[p] = [new[p] EXCEPT !.hw = i] /\ \A q \in Planes : q # p => new'[q] = new[q]
  BY <1>1, <1>2 DEF IInv, TypeOK
<1>4. i # -1 /\ new'[p] \in States /\ HwMask(new'[p]) \subseteq free
  <2>1. A \in SUBSET Hw
    BY DEF IInv, TypeOK
  <2>2. /\ i # -1 /\ [new[p] EXCEPT !.hw = i] \in States
        /\ HwMask([new[p] EXCEPT !.hw = i]) \subseteq A
    BY <1>1, <2>1, PositionFits
  <2> QED  BY <1>3, <2>2
<1>5. new'[p].n = new[p].n /\ new'[p].crtc = new[p].crtc /\ new'[p].hw = i
  BY <1>1, <1>3 DEF States
<1>6. HwMask(new[p]) = {} /\ free = Hw \ UsedPlanes(new, {})
  BY <1>1, MaskType DEF IInv, FreeExact
<1>7. TypeOK'
  BY <1>2, <1>3, <1>4 DEF IInv, TypeOK
<1>8. WorkInv'
  BY <1>1, <1>2, <1>3, <1>4, <1>5 DEF IInv, WorkInv, Settled
<1>9. ChangeInv'
  <2>1. new[p] # plane[p]
    BY <1>1 DEF IInv, WorkInv, Settled
  <2>2. plane[p].n = 0 \/ new[p].n # plane[p].n
    BY <1>1 DEF IInv, WorkInv, Settled, ChangeInv
  <2> QED  BY <1>1, <1>2, <1>3, <1>5, <2>1, <2>2 DEF IInv, ChangeInv
<1>10. NoOverlapIn(plane)' /\ NoOverlapIn(new)'
  <2>1. \A q \in Planes : q # p => HwMask(new'[p]) \cap HwMask(new'[q]) = {}
    BY <1>3, <1>4, <1>6 DEF UsedPlanes
  <2> QED  BY <1>2, <1>3, <2>1 DEF IInv, NoOverlapIn
<1>11. FreeExact'
  <2>1. UsedPlanes(new', {}) = UsedPlanes(new, {}) \cup HwMask(new'[p])
    BY <1>1, <1>3, <1>6 DEF UsedPlanes
  <2> QED  BY <1>2, <1>6, <2>1 DEF FreeExact
<1>12. AssociationExact'
  BY <1>2 DEF IInv, AssociationExact, HwPlanes, Associated
<1> QED  BY <1>7, <1>8, <1>9, <1>10, <1>11, <1>12 DEF IInv

\* Both choices of the allocator are among the free planes.
LEMMA AllocPreserves ==
  ASSUME IInv, NEW p \in Planes, Alloc(p)
  PROVE  IInv'
<1> DEFINE near == free \cap Associated(new[p].crtc)
           preferred == Positions(new[p].n, near)
           possible  == Positions(new[p].n, free)
<1>1. checking /\ p \in work /\ free \subseteq Hw
  BY DEF Alloc, IInv, TypeOK
<1>2. CASE preferred # {} /\ Place(p, Last(preferred))
  <2>1. preferred \subseteq Hw
    BY <1>1 DEF Positions
  <2>2. Last(preferred) \in preferred
    BY <1>2, <2>1, LastIsOne
  <2> QED  BY <1>1, <1>2, <2>2, PlacePreserves
<1>3. CASE possible # {} /\ Place(p, Last(possible))
  <2>1. possible \subseteq Hw
    BY <1>1 DEF Positions
  <2>2. Last(possible) \in possible
    BY <1>3, <2>1, LastIsOne
  <2> QED  BY <1>1, <1>3, <2>2, PlacePreserves
<1> QED  BY <1>2, <1>3 DEF Alloc

\* A check that finds no room drops what it has allocated.
LEMMA FailPreserves ==
  ASSUME IInv, NEW p \in Planes, Fail(p)
  PROVE  IInv'
<1>1. /\ checking' = FALSE /\ new' = plane /\ work' = {} /\ free' = {} /\ scope' = {}
      /\ UNCHANGED <<plane, pending, dptsr_planes>>
  BY DEF Fail
<1>2. TypeOK' /\ WorkInv' /\ ChangeInv'
  BY <1>1 DEF IInv, TypeOK, WorkInv, ChangeInv, Settled
<1>3. NoOverlapIn(plane)' /\ NoOverlapIn(new)' /\ FreeExact'
  BY <1>1 DEF IInv, NoOverlapIn, FreeExact
<1>4. AssociationExact'
  BY <1>1 DEF IInv, AssociationExact, HwPlanes, Associated
<1> QED  BY <1>2, <1>3, <1>4 DEF IInv

\* A swap changes no plane of a CRTC that is not in the atomic state.
LEMMA SwapPreserves ==
  ASSUME IInv, Swap
  PROVE  IInv'
<1>1. /\ checking /\ work = {} /\ plane' = new /\ pending' = pending \cup scope
      /\ checking' = FALSE /\ free' = {} /\ scope' = {}
      /\ UNCHANGED <<new, work, dptsr_planes>>
  BY DEF Swap
<1>2. TypeOK' /\ WorkInv' /\ ChangeInv'
  BY <1>1 DEF IInv, TypeOK, WorkInv, ChangeInv, Settled
<1>3. NoOverlapIn(plane)' /\ NoOverlapIn(new)' /\ FreeExact'
  BY <1>1 DEF IInv, NoOverlapIn, FreeExact
<1>4. ASSUME NEW c \in Crtcs \ pending'
      PROVE  HwPlanes(c)' \subseteq Associated(c)'
  <2>1. c \notin scope /\ c \notin pending
    BY <1>1
  <2>2. ASSUME NEW p \in Planes, new[p].n # 0, new[p].crtc = c
        PROVE  new[p] = plane[p]
    BY <1>1, <2>1, <2>2 DEF IInv, ChangeInv
  <2>3. HwPlanes(c)' \subseteq HwPlanes(c)
    BY <1>1, <2>2 DEF HwPlanes
  <2> QED  BY <1>1, <2>1, <2>3 DEF IInv, AssociationExact, Associated
<1> QED  BY <1>2, <1>3, <1>4 DEF IInv, AssociationExact

\* The planes the two CRTCs enable are planes of the hardware, and not the same.
LEMMA HwPlanesDisjoint ==
  ASSUME TypeOK, NoOverlapIn(plane)
  PROVE  /\ \A c \in Crtcs : HwPlanes(c) \subseteq Hw
         /\ HwPlanes(0) \cap HwPlanes(1) = {}
<1>1. \A p \in Planes : HwMask(plane[p]) \subseteq Hw
  BY MaskType DEF TypeOK
<1>2. \A c \in Crtcs : HwPlanes(c) \subseteq Hw
  BY <1>1 DEF HwPlanes
<1>3. ASSUME NEW p \in Planes, NEW q \in Planes, plane[p].crtc = 0, plane[q].crtc = 1
      PROVE  HwMask(plane[p]) \cap HwMask(plane[q]) = {}
  BY <1>3 DEF NoOverlapIn
<1>4. HwPlanes(0) \cap HwPlanes(1) = {}
  BY <1>3 DEF HwPlanes
<1> QED  BY <1>2, <1>4

\* A flush takes planes from the other CRTC that this one does not use.
LEMMA FlushPreserves ==
  ASSUME IInv, NEW c \in Crtcs, Flush(c)
  PROVE  IInv'
<1>1. /\ pending' = pending \ {c}
      /\ dptsr_planes' = IF c % 2 = 1 THEN dptsr_planes \cup HwPlanes(c)
                                     ELSE dptsr_planes \ HwPlanes(c)
      /\ UNCHANGED <<plane, checking, new, work, free, scope>>
  BY DEF Flush, check
<1>2. /\ \A d \in Crtcs : HwPlanes(d) \subseteq Hw
      /\ HwPlanes(0) \cap HwPlanes(1) = {}
  BY HwPlanesDisjoint DEF IInv
<1>3. \A d : HwPlanes(d)' = HwPlanes(d)
  BY <1>1 DEF HwPlanes
<1>4. TypeOK' /\ WorkInv' /\ ChangeInv'
  BY <1>1, <1>2 DEF IInv, TypeOK, WorkInv, ChangeInv, Settled
<1>5. NoOverlapIn(plane)' /\ NoOverlapIn(new)' /\ FreeExact'
  BY <1>1 DEF IInv, NoOverlapIn, FreeExact
<1>6. AssociationExact'
  <2>1. c = 0 \/ c = 1
    BY DEF Crtcs
  <2>2. Associated(0) = Hw \ dptsr_planes /\ Associated(1) = dptsr_planes
    BY DEF Associated
  <2>3. Associated(0)' = Hw \ dptsr_planes' /\ Associated(1)' = dptsr_planes'
    BY DEF Associated
  <2>4. /\ 0 \notin pending => HwPlanes(0) \subseteq Hw \ dptsr_planes
        /\ 1 \notin pending => HwPlanes(1) \subseteq dptsr_planes
    BY <2>2 DEF IInv, AssociationExact, Crtcs
  <2>5. /\ 0 \notin pending' => HwPlanes(0) \subseteq Hw \ dptsr_planes'
        /\ 1 \notin pending' => HwPlanes(1) \subseteq dptsr_planes'
    <3>1. CASE c = 0
      <4>1. dptsr_planes' = dptsr_planes \ HwPlanes(0)
        BY <1>1, <3>1
      <4> QED  BY <1>1, <1>2, <2>4, <3>1, <4>1 DEF Crtcs
    <3>2. CASE c = 1
      <4>1. dptsr_planes' = dptsr_planes \cup HwPlanes(1)
        BY <1>1, <3>2
      <4> QED  BY <1>1, <1>2, <2>4, <3>2, <4>1 DEF Crtcs
    <3> QED  BY <2>1, <3>1, <3>2
  <2> QED  BY <1>3, <2>3, <2>5 DEF AssociationExact, Crtcs
<1> QED  BY <1>4, <1>5, <1>6 DEF IInv

\* No plane is allocated, to KMS planes or to CRTCs, before the first commit.
LEMMA InitInvariant ==
  Init => IInv
<1> SUFFICES ASSUME Init PROVE IInv
  OBVIOUS
<1>1. Off \in States
  BY PlaneAllocAssumption DEF Off, States, Crtcs
<1>2. HwMask(Off) = {}
  BY DEF HwMask, Off
<1>3. TypeOK
  BY <1>1 DEF Init, TypeOK
<1>4. WorkInv /\ ChangeInv /\ FreeExact
  BY DEF Init, WorkInv, ChangeInv, FreeExact, Settled, Off
<1>5. NoOverlapIn(plane) /\ NoOverlapIn(new)
  BY <1>2 DEF Init, NoOverlapIn
<1>6. AssociationExact
  <2>1. \A c : HwPlanes(c) = {}
    BY DEF Init, HwPlanes, Off
  <2> QED  BY <2>1 DEF AssociationExact
<1> QED  BY <1>3, <1>4, <1>5, <1>6 DEF IInv

\* Every step preserves the invariant.
LEMMA NextPreserves ==
  ASSUME IInv, [Next]_vars
  PROVE  IInv'
<1>1. CASE Check
  BY <1>1, StartCheckPreserves DEF Check
<1>2. CASE Swap
  BY <1>2, SwapPreserves
<1>3. ASSUME NEW p \in Planes, Alloc(p) PROVE IInv'
  BY <1>3, AllocPreserves
<1>4. ASSUME NEW p \in Planes, Fail(p) PROVE IInv'
  BY <1>4, FailPreserves
<1>5. ASSUME NEW c \in Crtcs, Flush(c) PROVE IInv'
  BY <1>5, FlushPreserves
<1>6. CASE UNCHANGED vars
  BY <1>6 DEF vars, check, IInv, TypeOK, WorkInv, ChangeInv, Settled, NoOverlapIn,
              FreeExact, AssociationExact, HwPlanes, Associated
<1> QED  BY <1>1, <1>2, <1>3, <1>4, <1>5, <1>6 DEF Next

--------------------------------------------------------------------------------
(* Theorems                                                                  *)

\* The inductive invariant holds in every reachable state.
THEOREM Invariant == Spec => []IInv
BY InitInvariant, NextPreserves, PTL DEF Spec

\* The type invariant.
THEOREM TypeCorrect == Spec => []TypeOK
<1>1. IInv => TypeOK
  BY DEF IInv
<1> QED  BY Invariant, <1>1, PTL

\* However formats change and requests fail, no hardware plane ever has two owners.
THEOREM OwnersDistinct == Spec => []NoOverlap
<1>1. IInv => NoOverlap
  BY DEF IInv, WorkInv, Settled, NoOverlap
<1> QED  BY Invariant, <1>1, PTL

\* A check neither leaks a free plane nor gives away one that is in use.
THEOREM FreeAccounted == Spec => []FreeExact
<1>1. IInv => FreeExact
  BY DEF IInv
<1> QED  BY Invariant, <1>1, PTL

\* A CRTC whose commits are flushed scans out planes associated with it only.
THEOREM ScansOwnPlanes == Spec => []AssociationExact
<1>1. IInv => AssociationExact
  BY DEF IInv
<1> QED  BY Invariant, <1>1, PTL

\* A plane that keeps its number of hardware planes keeps the planes themselves:
\* only a swap changes current states, and it installs what ChangeInv constrains.
THEOREM PlanesStay == Spec => Stable
<1> DEFINE Kept == \A p \in Planes :
                     plane[p].n # 0 /\ plane'[p].n = plane[p].n => plane'[p].hw = plane[p].hw
<1>1. ASSUME IInv, [Next]_vars PROVE [Kept]_vars
  <2>1. CASE Swap
    BY <1>1, <2>1 DEF Swap, IInv, ChangeInv
  <2>2. CASE ~Swap
    <3>1. plane' = plane
      BY <1>1, <2>2 DEF Next, vars, Check, StartCheck, Alloc, Place, Fail, Flush
    <3> QED  BY <3>1
  <2> QED  BY <2>1, <2>2
<1> HIDE DEF Kept
<1>2. Spec => [][Kept]_vars
  BY Invariant, <1>1, PTL DEF Spec
<1> QED  BY <1>2 DEF Stable, Kept

--------------------------------------------------------------------------------
(* Probing: the references to the VSP devices                                *)

\* The VSP devices the probe has come to.
Initialized ==
  IF state["du"] = "probing" /\ step = "vsps" THEN {v \in Vsps : v < idx}
  ELSE IF state["du"] \in {"probing", "bound"} THEN Vsps ELSE {}

\* A managed action is registered for each VSP the probe has come to, and unless
\* that failed there is a reference for each action.
RefsInv ==
  /\ board \in Boards
  /\ DOMAIN state = Drivers
  /\ idx \in Nat /\ refs \in [0..2 -> Int] /\ fails \in Nat
  /\ state["du"] = "probing" => step \in {"vsps", "cmms", "crtcs", "encoders", "writebacks"}
  /\ state["du"] = "probing" /\ step = "vsps" => idx \in Vsps
  /\ actions = Initialized
  /\ ~leaked => \A v \in 0..2 : refs[v] = IF v \in actions THEN 1 ELSE 0

\* The outputs of the devices.
LEMMA PortsKnown ==
  /\ Outputs(H2) = {"DPAD0", "LVDS0", "LVDS1"}
  /\ Outputs(H3) = {"DPAD0", "HDMI0", "HDMI1", "LVDS0"}
  /\ Outputs(M3N) = {"DPAD0", "HDMI0", "LVDS0"}
  /\ Outputs(E3) = {"DPAD0", "LVDS0", "LVDS1"}
  /\ Outputs(V3U) = {"DSI0", "DSI1"}
<1> DEFINE Members(ports) == {ports[i] : i \in DOMAIN ports}
<1>1. /\ Members(<<"DPAD0", "LVDS0", "LVDS1">>) = {"DPAD0", "LVDS0", "LVDS1"}
      /\ Members(<<"DPAD0", "HDMI0", "HDMI1", "LVDS0">>) = {"DPAD0", "HDMI0", "HDMI1", "LVDS0"}
      /\ Members(<<"DPAD0", "HDMI0", "LVDS0">>) = {"DPAD0", "HDMI0", "LVDS0"}
      /\ Members(<<"DSI0", "DSI1">>) = {"DSI0", "DSI1"}
  OBVIOUS
<1>2. /\ H2.ports = <<"DPAD0", "LVDS0", "LVDS1">>
      /\ H3.ports = <<"DPAD0", "HDMI0", "HDMI1", "LVDS0">>
      /\ M3N.ports = <<"DPAD0", "HDMI0", "LVDS0">>
      /\ E3.ports = <<"DPAD0", "LVDS0", "LVDS1">>
      /\ V3U.ports = <<"DSI0", "DSI1">>
  BY DEF H2, H3, M3N, E3, V3U
<1>3. ASSUME NEW model PROVE Outputs(model) = Members(model.ports)
  BY DEF Outputs
<1> HIDE DEF Members
<1> QED  BY <1>1, <1>2, <1>3

\* What the boards have in common.
LEMMA BoardsKnown ==
  ASSUME board \in Boards
  PROVE  /\ board.soc \in {H2, H3, M3N, E3, V3U}
         /\ board.wired \subseteq Outputs(board.soc)
         /\ board.sinks \subseteq {"LVDS0", "LVDS1", "DSI0", "DSI1"}
         /\ board.dual \in BOOLEAN
         /\ board.dual => /\ board.soc = E3
                          /\ {"LVDS0", "LVDS1"} \subseteq board.wired \cap board.sinks
         /\ board.brs \in -1..2
         /\ board.brs >= 0 => board.soc \in {H3, M3N}
<1> DEFINE
  OfH2 == {Board(H2, wired, wired \cap {"LVDS0", "LVDS1"}, FALSE, -1) :
             wired \in SUBSET Outputs(H2)}
  Gen3Board(model, brs) == Board(model, Outputs(model), {"LVDS0"}, FALSE, brs)
  OfGen3 == {Gen3Board(model, brs) :
               model \in {H3, M3N}, brs \in -1..2}
  OfM3N == {Board(M3N, {"DPAD0", "LVDS0"}, {}, FALSE, -1)}
  E3Board(wired, sinks) == Board(E3, wired, sinks, FALSE, -1)
  OfE3 == {E3Board(wired, sinks) :
             wired \in {{}, {"LVDS0"}, {"DPAD0", "LVDS1"}, Outputs(E3)},
             sinks \in SUBSET {"LVDS0", "LVDS1"}}
  OfE3Dual == {Board(E3, wired \cup {"LVDS0", "LVDS1"},
                             {"LVDS0", "LVDS1"}, TRUE, -1) : wired \in SUBSET {"DPAD0"}}
  V3UBoard(wired, sinks, narrow) ==
    [Board(V3U, wired, sinks, FALSE, -1) EXCEPT !.narrow = narrow]
  OfV3U == {V3UBoard(wired, sinks, narrow) :
              wired \in SUBSET Outputs(V3U),
              sinks \in SUBSET Outputs(V3U), narrow \in SUBSET {"DSI0"}}
<1>1. Boards = OfH2 \cup OfGen3 \cup OfM3N \cup OfE3 \cup OfE3Dual \cup OfV3U
  BY DEF Boards
<1>2. CASE board \in OfH2
  <2> PICK wired \in SUBSET Outputs(H2) :
           board = Board(H2, wired, wired \cap {"LVDS0", "LVDS1"}, FALSE, -1)
    BY <1>2
  <2> QED  BY PortsKnown DEF Board
<1>3. CASE board \in OfGen3
  <2> PICK model \in {H3, M3N}, brs \in -1..2 :
           board = Gen3Board(model, brs)
    <3> HIDE DEF Gen3Board
    <3> QED  BY <1>3
  <2> QED  BY PortsKnown DEF Board
<1>4. CASE board \in OfM3N
  <2>1. board = Board(M3N, {"DPAD0", "LVDS0"}, {}, FALSE, -1)
    BY <1>4
  <2> QED  BY <2>1, PortsKnown DEF Board
<1>5. CASE board \in OfE3
  <2> PICK wired \in {{}, {"LVDS0"}, {"DPAD0", "LVDS1"}, Outputs(E3)},
           sinks \in SUBSET {"LVDS0", "LVDS1"} :
           board = E3Board(wired, sinks)
    <3> HIDE DEF E3Board
    <3> QED  BY <1>5
  <2> QED  BY PortsKnown DEF Board
<1>6. CASE board \in OfE3Dual
  <2> PICK wired \in SUBSET {"DPAD0"} :
           board = Board(E3, wired \cup {"LVDS0", "LVDS1"},
                                 {"LVDS0", "LVDS1"}, TRUE, -1)
    BY <1>6
  <2> QED  BY PortsKnown DEF Board
<1>7. CASE board \in OfV3U
  <2> PICK wired \in SUBSET Outputs(V3U), sinks \in SUBSET Outputs(V3U),
           narrow \in SUBSET {"DSI0"} :
           board = V3UBoard(wired, sinks, narrow)
    <3> HIDE DEF V3UBoard
    <3> QED  BY <1>7
  <2> QED  BY PortsKnown DEF Board
<1> HIDE DEF OfH2, OfGen3, OfM3N, OfE3, OfE3Dual, OfV3U
<1> QED  BY <1>1, <1>2, <1>3, <1>4, <1>5, <1>6, <1>7

\* Their ports are numbered from 1.
LEMMA PortsCounted ==
  ASSUME board \in Boards
  PROVE  /\ Len(soc.ports) \in Nat \ {0}
         /\ DOMAIN soc.ports = 1..Len(soc.ports)
<1>1. board.soc.ports \in {<<"DPAD0", "LVDS0", "LVDS1">>, <<"DPAD0", "HDMI0", "HDMI1", "LVDS0">>,
                           <<"DPAD0", "HDMI0", "LVDS0">>, <<"DSI0", "DSI1">>}
  BY BoardsKnown DEF H2, H3, M3N, E3, V3U
<1> QED  BY <1>1 DEF soc

\* The drivers of this repository.
LEMMA DriversKnown ==
  /\ DOMAIN Encoder = {"lvds0", "lvds1", "dsi0", "dsi1"}
  /\ Drivers = {"lvds0", "lvds1", "dsi0", "dsi1", "du"}
BY DEF Encoder, Drivers

\* The VSP devices of a board are counted without gaps.
LEMMA VspsCounted ==
  ASSUME board \in Boards
  PROVE  /\ HasVsp => Vsps \in {0..1, 0..2}
         /\ ~HasVsp => Vsps = {}
<1>1. board.soc \in {H2, H3, M3N, E3, V3U}
  BY BoardsKnown
<1>2. CASE board.soc = H2
  BY <1>2 DEF H2, HasVsp, Vsps, soc
<1>3. CASE board.soc = H3
  <2>1. HasVsp /\ board.soc.vsp = <<0, 1, 2, 0>>
    BY <1>3 DEF H3, HasVsp, soc
  <2>2. Vsps = 0..2
    BY <2>1 DEF Vsps, soc
  <2> QED  BY <2>1, <2>2
<1>4. CASE board.soc = M3N
  <2>1. HasVsp /\ board.soc.vsp = <<0, 1, 0>>
    BY <1>4 DEF M3N, HasVsp, soc
  <2>2. Vsps = 0..1
    BY <2>1 DEF Vsps, soc
  <2> QED  BY <2>1, <2>2
<1>5. CASE board.soc \in {E3, V3U}
  <2>1. HasVsp /\ board.soc.vsp = <<0, 1>>
    BY <1>5 DEF E3, V3U, HasVsp, soc
  <2>2. Vsps = 0..1
    BY <2>1 DEF Vsps, soc
  <2> QED  BY <2>1, <2>2
<1> QED  BY <1>1, <1>2, <1>3, <1>4, <1>5

\* The drivers of the encoders leave that of the Display Unit alone, but for its
\* deferral, and what it has initialized.
Elsewhere ==
  /\ DOMAIN state' = Drivers
  /\ state'["du"] = state["du"] \/ (state["du"] = "deferred" /\ state'["du"] = "queued")
  /\ UNCHANGED <<board, step, idx, drm, refs, actions, leaked>>
  /\ fails' \in Nat /\ (fails' = 0 => fails = 0)
  /\ Bridge("lvds0") => Bridge("lvds0")'

\* What is held stays as it is.
LEMMA RefsElsewhere ==
  ASSUME RefsInv, Elsewhere
  PROVE  RefsInv'
<1>1. Vsps' = Vsps
  BY DEF Elsewhere, Vsps, HasVsp, soc
<1>2. Initialized' = Initialized
  BY <1>1 DEF Elsewhere, Initialized, RefsInv
<1> QED  BY <1>1, <1>2 DEF Elsewhere, RefsInv

\* So do those outside of this one.
LEMMA OthersElsewhere ==
  ASSUME RefsInv,
         \/ \E p \in Providers : ProviderBinds(p)
         \/ \E d \in {"lvds0", "lvds1"} : Lvds(d)
         \/ \E d \in {"dsi0", "dsi1"} : Dsi(d)
  PROVE  Elsewhere
<1> USE DriversKnown DEF Elsewhere, RefsInv, Bridge, core, progress
<1>1. CASE \E p \in Providers : ProviderBinds(p)
  BY <1>1 DEF ProviderBinds, Bind
<1>2. ASSUME NEW d \in {"lvds0", "lvds1", "dsi0", "dsi1"}, Lvds(d) \/ Dsi(d)
      PROVE  Elsewhere
  <2>1. CASE LvdsStart(d) \/ DsiStart(d)
    BY <2>1 DEF LvdsStart, DsiStart, StartProbe
  <2>2. CASE LvdsParse(d)
    BY <2>2 DEF LvdsParse, LvdsUnconnected, LvdsPair, Defer
  <2>3. CASE DsiParse(d)
    BY <2>3 DEF DsiParse, Defer, GiveUp
  <2>4. CASE LvdsAdd(d) \/ DsiAdd(d)
    BY <2>4 DEF LvdsAdd, DsiAdd, GiveUp, CallFails
  <2>5. CASE LvdsBound(d)
    BY <2>5 DEF LvdsBound, Bind
  <2> QED  BY <1>2, <2>1, <2>2, <2>3, <2>4, <2>5 DEF Lvds, Dsi
<1> QED  BY <1>1, <1>2

\* The probe of the Display Unit ends without success, or the driver is removed: the
\* references that have an action go.
LEMMA RefsAtEnd ==
  ASSUME RefsInv, DOMAIN state' = Drivers, UNCHANGED board, fails' \in Nat,
         state'["du"] \notin {"probing", "bound"},
         NEW taken \in [0..2 -> Int], NEW managed, Remove(taken, managed),
         ~leaked' => \A v \in 0..2 : taken[v] = IF v \in managed THEN 1 ELSE 0
  PROVE  RefsInv'
<1>1. Initialized' = {}
  BY DEF Initialized
<1>2. /\ refs' = [v \in 0..2 |-> taken[v] - (IF v \in managed THEN 1 ELSE 0)]
      /\ actions' = {} /\ UNCHANGED idx
  BY DEF Remove
<1>3. refs' \in [0..2 -> Int] /\ (~leaked' => \A v \in 0..2 : refs'[v] = 0)
  BY <1>2
<1> QED  BY <1>1, <1>2, <1>3 DEF RefsInv

\* It is deferred, or fails.
LEMMA RefsAtFailure ==
  ASSUME RefsInv, UNCHANGED <<board, leaked>>, fails' \in Nat,
         NEW taken \in [0..2 -> Int], NEW managed,
         DuDefers(taken, managed) \/ DuFails(taken, managed),
         ~leaked => \A v \in 0..2 : taken[v] = IF v \in managed THEN 1 ELSE 0
  PROVE  RefsInv'
<1>1. /\ DOMAIN state' = Drivers /\ Remove(taken, managed)
      /\ state'["du"] \notin {"probing", "bound"}
  BY DriversKnown DEF RefsInv, DuDefers, DuFails, Defer, GiveUp
<1> QED  BY <1>1, RefsAtEnd

\* rcar_du_vsps_init() takes a reference and sees to its return at once, and goes on
\* with the next VSP.
LEMMA RefsAtVspInit ==
  ASSUME RefsInv, VspInit
  PROVE  RefsInv'
<1> DEFINE held == [refs EXCEPT ![idx] = @ + 1]
           managed == actions \cup {idx}
<1>0. fails' \in Nat
  BY DEF VspInit, DuDefers, CallFails, RefsInv
<1>1. /\ state["du"] = "probing" /\ step = "vsps" /\ idx \in Vsps /\ UNCHANGED board
      /\ actions = {v \in Vsps : v < idx}
  BY DEF VspInit, At, core, RefsInv, Initialized
<1>2. Vsps \subseteq 0..2 /\ idx \in 0..2
  BY <1>1, VspsCounted DEF RefsInv
<1>3. /\ held \in [0..2 -> Int]
      /\ ~leaked => \A v \in 0..2 : held[v] = IF v \in managed THEN 1 ELSE 0
  BY <1>1, <1>2 DEF RefsInv
<1>4. CASE DuDefers(held, managed)
  BY <1>1, <1>3, <1>4, <1>0, RefsAtFailure DEF DuDefers
<1>5. CASE DuFails(refs, actions)
  BY <1>1, <1>5, <1>0, RefsAtFailure DEF DuFails, RefsInv
<1>6. CASE DuFails(held, managed)
  BY <1>1, <1>3, <1>6, <1>0, RefsAtFailure DEF DuFails
<1>7. CASE GiveUp("du") /\ Remove(held, actions) /\ leaked' = TRUE
  <2>1. DOMAIN state' = Drivers /\ state'["du"] \notin {"probing", "bound"}
    BY <1>7, DriversKnown DEF RefsInv, GiveUp
  <2> QED  BY <1>1, <1>3, <1>7, <2>1, <1>0, RefsAtEnd
<1>8. CASE /\ refs' = held /\ actions' = managed /\ UNCHANGED <<state, leaked>>
           /\ idx' = idx + 1
           /\ step' = IF idx + 1 \in Vsps THEN "vsps" ELSE "cmms"
  <2>1. Vsps' = Vsps
    BY <1>1 DEF Vsps, HasVsp, soc
  <2>2. Initialized' = IF idx + 1 \in Vsps THEN {v \in Vsps : v < idx + 1}
                       ELSE Vsps
    BY <1>1, <1>8, <2>1 DEF Initialized
  <2>3. Initialized' = managed
    BY <1>1, <1>2, <2>2, VspsCounted DEF RefsInv
  <2> QED  BY <1>0, <1>1, <1>2, <1>3, <1>8, <2>1, <2>3 DEF RefsInv
<1> QED
  BY <1>4, <1>5, <1>6, <1>7, <1>8 DEF VspInit

\* The rest of rcar_du_modeset_init() holds the references it has.
LEMMA RefsAtProgress ==
  ASSUME RefsInv, UNCHANGED <<board, refs, actions, leaked>>, fails' \in Nat,
         DOMAIN state' = Drivers,
         state["du"] = "probing", step # "vsps",
         \/ state'["du"] = "bound"
         \/ /\ state'["du"] = "probing"
            /\ step' \in {"crtcs", "encoders", "writebacks"},
         idx' \in Nat
  PROVE  RefsInv'
<1>1. Vsps' = Vsps
  BY DEF Vsps, HasVsp, soc
<1>2. Initialized' = Initialized
  BY <1>1 DEF Initialized
<1> QED  BY <1>1, <1>2 DEF RefsInv

\* The probe of the Display Unit, and its removal.
LEMMA RefsAtDu ==
  ASSUME RefsInv, Du \/ Unbind
  PROVE  RefsInv'
<1>1. /\ refs \in [0..2 -> Int]
      /\ ~leaked => \A v \in 0..2 : refs[v] = IF v \in actions THEN 1 ELSE 0
      /\ idx \in Nat /\ fails' \in Nat
  BY DEF RefsInv, Du, Unbind, DuStart, VspInit, CmmInit,
     CrtcCreate, EncoderInit, DuRegister, DuDefers, CallFails
<1>2. CASE DuStart
  <2>1. /\ state["du"] = "queued" /\ UNCHANGED <<board, refs, actions, leaked>>
        /\ state' = [state EXCEPT !["du"] = "probing"]
        /\ step' = IF HasVsp THEN "vsps" ELSE "cmms"
        /\ idx' = 0
    BY <1>2 DEF DuStart, StartProbe, core
  <2>2. state'["du"] = "probing" /\ DOMAIN state' = Drivers
    BY <2>1, DriversKnown DEF RefsInv
  <2>3. Vsps' = Vsps
    BY <2>1 DEF Vsps, HasVsp, soc
  <2>4. actions = {} /\ Initialized' = {}
    BY <2>1, <2>2, <2>3, VspsCounted DEF RefsInv, Initialized
  <2>5. step' = "vsps" => idx' \in Vsps
    BY <2>1, VspsCounted DEF RefsInv
  <2> QED  BY <1>1, <2>1, <2>2, <2>3, <2>4, <2>5 DEF RefsInv
<1>3. CASE VspInit
  BY <1>3, RefsAtVspInit
<1>4. ASSUME DuDefers(refs, actions) \/ DuFails(refs, actions), UNCHANGED board
      PROVE  RefsInv'
  BY <1>1, <1>4, RefsAtFailure DEF DuDefers, DuFails
<1>5. CASE CmmInit
  <2>1. CASE UNCHANGED <<state, idx, refs, actions, leaked>> /\ step' = "crtcs"
    BY <1>1, <1>5, <2>1, RefsAtProgress DEF CmmInit, At, core, RefsInv
  <2> QED  BY <1>4, <1>5, <2>1 DEF CmmInit, core
<1>6. CASE CrtcCreate
  <2>1. CASE UNCHANGED <<state, refs, actions, leaked>> /\ step' = "encoders" /\ idx' = 1
    BY <1>1, <1>6, <2>1, RefsAtProgress DEF CrtcCreate, At, core, RefsInv
  <2> QED  BY <1>4, <1>6, <2>1 DEF CrtcCreate, core
<1>7. CASE EncoderInit
  <2>1. ASSUME NEW encoders, NEW bridges, NextEndpoint(encoders, bridges)
        PROVE  RefsInv'
    <3>1. CASE /\ UNCHANGED <<state, refs, actions, leaked>>
               /\ step' \in {"encoders", "writebacks"} /\ idx' \in Nat
      BY <1>1, <1>7, <3>1, RefsAtProgress DEF EncoderInit, At, core, RefsInv
    <3> QED
      BY <1>1, <1>4, <1>7, <2>1, <3>1 DEF EncoderInit, At, core,
         NextEndpoint
  <2> QED  BY <1>4, <1>7, <2>1 DEF EncoderInit, core
<1>8. CASE DuRegister
  <2>1. CASE /\ UNCHANGED <<idx, refs, actions, leaked>>
             /\ Bind([state EXCEPT !["du"] = "bound"])
    <3>1. state'["du"] = "bound" /\ DOMAIN state' = Drivers
      BY <2>1, DriversKnown DEF Bind, RefsInv
    <3> QED
      BY <1>1, <1>8, <2>1, <3>1, RefsAtProgress DEF DuRegister, At, core
  <2> QED  BY <1>4, <1>8, <2>1 DEF DuRegister, core
<1>9. CASE Unbind
  <2>1. /\ DOMAIN state' = Drivers /\ state'["du"] = "removed"
        /\ UNCHANGED <<board, leaked>> /\ Remove(refs, actions)
    BY <1>9, DriversKnown DEF Unbind, core, RefsInv
  <2> QED  BY <1>1, <2>1, RefsAtEnd
<1> QED  BY <1>2, <1>3, <1>5, <1>6, <1>7, <1>8, <1>9 DEF Du

--------------------------------------------------------------------------------
(* Probing: the links of the encoders                                        *)

\* The first encoder of a dual link has made the second its companion, and the
\* second encoder is none otherwise.
PairInv ==
  /\ avail \subseteq Providers
  /\ DOMAIN link = {"lvds0", "lvds1"}
  /\ ~board.dual => link["lvds1"] = "single"
  /\ board.dual /\ state["lvds0"] \in {"parsed", "added", "bound"} =>
       Bridge("lvds1") /\ link["lvds1"] = "dual"

\* A step that leaves the two encoders alone, but for their deferral.
PairAlone ==
  /\ UNCHANGED <<board, link>> /\ avail' \subseteq Providers
  /\ \A d \in {"lvds0", "lvds1"} :
       state'[d] = state[d] \/ (state[d] = "deferred" /\ state'[d] = "queued")

\* Such a step keeps the pair as it is.
LEMMA PairElsewhere ==
  ASSUME PairInv, PairAlone
  PROVE  PairInv'
<1>1. Providers' = Providers
  BY DEF PairAlone, Providers, Sink, HasVsp, soc
<1> QED  BY <1>1 DEF PairAlone, PairInv, Bridge

\* The two encoders themselves.
LEMMA PairAtLvds ==
  ASSUME RefsInv, PairInv, NEW d \in {"lvds0", "lvds1"}, Lvds(d)
  PROVE  PairInv'
<1>1. avail \subseteq Providers /\ DOMAIN link = {"lvds0", "lvds1"}
  BY DEF PairInv
<1>2. CASE LvdsStart(d)
  <2>1. /\ state[d] = "queued" /\ state' = [state EXCEPT ![d] = "probing"]
        /\ link' = [link EXCEPT ![d] = "single"] /\ UNCHANGED <<board, avail>>
    BY <1>2 DEF LvdsStart, StartProbe
  <2>2. Providers' = Providers
    BY <2>1 DEF Providers, Sink, HasVsp, soc
  <2> QED  BY <2>1, <2>2, DriversKnown DEF PairInv, RefsInv, Bridge
<1>3. CASE LvdsParse(d)
  <2>1. state[d] = "probing" /\ UNCHANGED <<board, avail>>
    BY <1>3 DEF LvdsParse
  <2>2. Providers' = Providers
    BY <2>1 DEF Providers, Sink, HasVsp, soc
  <2>3. CASE LvdsUnconnected(d)
    <3>1. ~board.dual
      BY <2>3, BoardsKnown DEF RefsInv, LvdsUnconnected, Encoder
    <3> QED  BY <2>1, <2>2, <2>3, <3>1 DEF PairInv, LvdsUnconnected
  <2>4. CASE Defer(d) /\ UNCHANGED link
    BY <2>1, <2>2, <2>4, DriversKnown DEF PairInv, RefsInv, Defer, Bridge
  <2>5. CASE LvdsPair(d)
    <3>1. CASE ~(board.dual /\ d = "lvds0")
      <4>1. state' = [state EXCEPT ![d] = "parsed"] /\ UNCHANGED link
        BY <2>5, <3>1 DEF LvdsPair
      <4> QED  BY <2>1, <2>2, <3>1, <4>1, DriversKnown DEF PairInv, RefsInv, Bridge
    <3>2. CASE board.dual /\ d = "lvds0"
      <4>1. CASE Bridge("lvds1")
        <5>1. /\ link' = [e \in DOMAIN link |-> "dual"]
              /\ state' = [state EXCEPT !["lvds0"] = "parsed"]
          BY <2>5, <3>2, <4>1 DEF LvdsPair
        <5> QED
          BY <1>1, <2>1, <2>2, <3>2, <4>1, <5>1, DriversKnown DEF PairInv, RefsInv, Bridge
      <4>2. CASE Defer(d) /\ UNCHANGED link
        BY <2>4, <4>2
      <4> QED  BY <2>5, <3>2, <4>1, <4>2 DEF LvdsPair
    <3> QED  BY <3>1, <3>2
  <2> QED  BY <1>3, <2>3, <2>4, <2>5 DEF LvdsParse
<1>4. CASE LvdsAdd(d)
  <2>1. /\ state[d] = "parsed" /\ UNCHANGED <<board, avail, link>>
        /\ \E next \in {"added", "failed"} : state' = [state EXCEPT ![d] = next]
    BY <1>4 DEF LvdsAdd, GiveUp, core
  <2>2. Providers' = Providers
    BY <2>1 DEF Providers, Sink, HasVsp, soc
  <2> QED  BY <2>1, <2>2, DriversKnown DEF PairInv, RefsInv, Bridge
<1>5. CASE LvdsBound(d)
  <2>1. /\ state[d] = "added" /\ UNCHANGED <<board, avail, link>>
        /\ \A e \in {"lvds0", "lvds1"} :
             state'[e] = IF e = d THEN "bound"
                         ELSE IF state[e] = "deferred" THEN "queued" ELSE state[e]
    BY <1>5, DriversKnown DEF LvdsBound, Bind, core, RefsInv
  <2>2. Providers' = Providers
    BY <2>1 DEF Providers, Sink, HasVsp, soc
  <2> QED  BY <2>1, <2>2 DEF PairInv, Bridge
<1> QED  BY <1>2, <1>3, <1>4, <1>5 DEF Lvds

\* Everybody else is such a step.
LEMMA PairAtOthers ==
  ASSUME RefsInv, PairInv,
         \/ \E p \in Providers : ProviderBinds(p)
         \/ \E d \in {"dsi0", "dsi1"} : Dsi(d)
         \/ Du \/ Unbind
  PROVE  PairInv'
<1>1. avail \subseteq Providers
  BY DEF PairInv
<1>2. CASE \E p \in Providers : ProviderBinds(p)
  BY <1>1, <1>2, PairElsewhere, DriversKnown DEF ProviderBinds, Bind, PairAlone, RefsInv
<1>3. ASSUME NEW d \in {"dsi0", "dsi1"}, Dsi(d)
      PROVE  PairAlone
  <2>1. CASE DsiStart(d)
    BY <1>1, <2>1, DriversKnown DEF DsiStart, StartProbe, core, PairAlone, RefsInv
  <2>2. CASE DsiParse(d)
    BY <1>1, <2>2, DriversKnown DEF DsiParse, Defer, GiveUp, core,
       PairAlone, RefsInv
  <2>3. CASE DsiAdd(d)
    BY <1>1, <2>3, DriversKnown DEF LvdsAdd, DsiAdd, GiveUp, core,
       PairAlone, RefsInv
  <2>4. CASE LvdsBound(d)
    BY <1>1, <2>4, DriversKnown DEF LvdsBound, Bind, core, PairAlone, RefsInv
  <2> QED  BY <1>3, <2>1, <2>2, <2>3, <2>4 DEF Dsi
<1>4. CASE Du \/ Unbind
  <2>1. UNCHANGED <<board, avail, link>>
    BY <1>4 DEF Du, Unbind, DuStart, VspInit, CmmInit,
       CrtcCreate, EncoderInit, DuRegister, core
  <2>2. \/ \E next : state' = [state EXCEPT !["du"] = next]
        \/ state' = state
        \/ Bind([state EXCEPT !["du"] = "bound"])
    BY <1>4 DEF Du, Unbind, DuStart, VspInit, CmmInit,
       CrtcCreate, EncoderInit, DuRegister, NextEndpoint,
       DuDefers, DuFails, Defer, GiveUp, StartProbe
  <2>3. PairAlone
    BY <1>1, <2>1, <2>2, DriversKnown DEF PairAlone, RefsInv, Bind
  <2> QED  BY <2>3, PairElsewhere
<1> QED  BY <1>2, <1>3, <1>4, PairElsewhere

--------------------------------------------------------------------------------
(* Probing: the objects of the Display Unit                                  *)

\* rcar_du_modeset_init() has come past the step that makes the CRTCs.
PastCrtcs ==
  state["du"] = "bound" \/ (state["du"] = "probing" /\ step \in {"encoders", "writebacks"})

\* The endpoints it has handled.
Passed ==
  IF state["du"] = "probing" /\ step = "encoders" THEN {soc.ports[i] : i \in 1..idx - 1}
  ELSE Outputs(soc)

\* The planes of the VSP devices it has initialized, or of a Display Unit that has
\* planes of its own.
AllPlanes ==
  IF HasVsp THEN {VspPlane(v, i) : v \in Initialized, i \in 0..4}
  ELSE UNION {GroupPlanes(g) : g \in {c \div 2 : c \in Channels}}

AllCrtcs == {[index |-> c, primary |-> Primary(c)] : c \in Created}

\* What is made when, and which outputs are found.
ObjectsInv ==
  /\ DOMAIN drm = {"planes", "crtcs", "encoders", "bridges", "writebacks"}
  /\ state["du"] \in {"probing", "bound"} => drm.planes = AllPlanes
  /\ PastCrtcs =>
       /\ drm.crtcs = AllCrtcs
       /\ drm.encoders \subseteq Outputs(soc)
       /\ "LVDS0" \in Passed \cap board.wired => Bridge("lvds0")
       /\ fails = 0 => /\ drm.encoders = Wired \cap Passed
                        /\ drm.bridges = board.wired \cap Internal \cap Passed
  /\ state["du"] = "probing" /\ ~PastCrtcs => drm.encoders = {} /\ drm.bridges = {}
  /\ state["du"] = "probing" /\ step = "encoders" => idx \in 1..Len(soc.ports)
  /\ state["du"] = "bound" => drm.writebacks = WritebackInit

\* All of these follow from the board.
LEMMA BoardFixed ==
  ASSUME UNCHANGED board
  PROVE  /\ soc' = soc /\ (HasVsp' <=> HasVsp)
         /\ Vsps' = Vsps /\ Channels' = Channels
         /\ AllCrtcs' = AllCrtcs /\ Wired' = Wired
         /\ WritebackInit' = WritebackInit
<1>1. /\ soc' = soc /\ (HasVsp' <=> HasVsp)
      /\ Channels' = Channels
  BY DEF soc, HasVsp, Channels
<1>2. Vsps' = Vsps
  BY <1>1 DEF Vsps
<1>3. \A c : PipeOf(c)' = PipeOf(c) /\ VspOf(c)' = VspOf(c)
  BY <1>1 DEF PipeOf, VspOf
<1>4. Fix' <=> Fix
  BY <1>1, <1>3 DEF Fix
<1>5. Created' = Created
  BY <1>1, <1>3, <1>4 DEF Created
<1>6. AllCrtcs' = AllCrtcs
  BY <1>1, <1>3, <1>5 DEF AllCrtcs, Primary
<1>7. Wired' = Wired /\ WritebackInit' = WritebackInit
  BY <1>1, <1>5 DEF Wired, WritebackInit
<1> QED  BY <1>1, <1>2, <1>6, <1>7

\* The planes follow from the board and the VSP devices.
LEMMA PlanesFixed ==
  ASSUME UNCHANGED board
  PROVE  AllPlanes' = IF HasVsp
                      THEN {VspPlane(v, i) : v \in Initialized', i \in 0..4}
                      ELSE UNION {GroupPlanes(g) : g \in {c \div 2 : c \in Channels}}
<1>1. /\ soc' = soc /\ (HasVsp' <=> HasVsp)
      /\ Channels' = Channels
  BY DEF soc, HasVsp, Channels
<1>2. \A c : PipeOf(c)' = PipeOf(c) /\ VspOf(c)' = VspOf(c)
  BY <1>1 DEF PipeOf, VspOf
<1>3. Fix' <=> Fix
  BY <1>1, <1>2 DEF Fix
<1>4. \A v, i : VspPlane(v, i)' = VspPlane(v, i)
  BY <1>1, <1>2, <1>3 DEF VspPlane, PairCrtcs
<1>5. \A g : GroupPlanes(g)' = GroupPlanes(g)
  BY <1>1 DEF GroupPlanes
<1>6. CASE HasVsp
  <2>1. AllPlanes' = {VspPlane(v, i)' : v \in Initialized', i \in 0..4}
    BY <1>1, <1>6 DEF AllPlanes
  <2> QED  BY <1>4, <1>6, <2>1
<1>7. CASE ~HasVsp
  <2>1. AllPlanes' = UNION {GroupPlanes(g)' : g \in {c \div 2 : c \in Channels}}
    BY <1>1, <1>7 DEF AllPlanes
  <2> QED  BY <1>5, <1>7, <2>1
<1> QED  BY <1>6, <1>7

\* The other drivers leave the objects alone.
LEMMA ObjectsElsewhere ==
  ASSUME ObjectsInv, Elsewhere
  PROVE  ObjectsInv'
<1>1. /\ UNCHANGED <<board, step, idx, drm>> /\ (state["du"] # "deferred" => state'["du"] = state["du"])
      /\ state["du"] = "deferred" => state'["du"] \in {"deferred", "queued"}
      /\ fails' = 0 => fails = 0
      /\ Bridge("lvds0") => Bridge("lvds0")'
  BY DEF Elsewhere
<1>2. Initialized' = Initialized
  BY <1>1, BoardFixed DEF Initialized
<1>3. AllPlanes' = AllPlanes
  BY <1>1, <1>2, PlanesFixed DEF AllPlanes
<1>4. (PastCrtcs' <=> PastCrtcs) /\ Passed' = Passed
  BY <1>1, BoardFixed DEF PastCrtcs, Passed, Outputs
<1>5. /\ Outputs(soc)' = Outputs(soc)
      /\ soc' = soc
  BY <1>1, BoardFixed DEF Outputs
<1> QED  BY <1>1, <1>3, <1>4, <1>5, BoardFixed DEF ObjectsInv

\* There is nothing when the Display Unit is not there.
LEMMA ObjectsAtEnd ==
  ASSUME state'["du"] \notin {"probing", "bound"}, drm' = NoObjects
  PROVE  ObjectsInv'
BY DEF ObjectsInv, PastCrtcs, NoObjects

\* The steps before the encoders.
LEMMA ObjectsAtCrtcs ==
  ASSUME ObjectsInv, RefsInv, RefsInv', UNCHANGED board, state'["du"] = "probing",
         \/ DuStart
         \/ VspInit
         \/ CmmInit
         \/ CrtcCreate
  PROVE  ObjectsInv'
<1>1. /\ DOMAIN drm = {"planes", "crtcs", "encoders", "bridges", "writebacks"}
      /\ actions = Initialized /\ actions' = Initialized'
      /\ board \in Boards
  BY DEF ObjectsInv, RefsInv
<1>2. CASE DuStart
  <2>1. /\ state["du"] = "queued" /\ UNCHANGED actions /\ step' \in {"vsps", "cmms"}
        /\ drm' = [NoObjects EXCEPT !.planes = IF HasVsp THEN {} ELSE
                     UNION {GroupPlanes(g) : g \in {c \div 2 : c \in Channels}}]
    BY <1>2 DEF DuStart, StartProbe
  <2>2. Initialized' = {}
    BY <1>1, <2>1 DEF Initialized
  <2>3. AllPlanes' = drm'.planes
    <3>1. CASE HasVsp
      <4>1. AllPlanes' = {}
        BY <2>2, <3>1, PlanesFixed
      <4> QED  BY <2>1, <3>1, <4>1 DEF NoObjects
    <3>2. CASE ~HasVsp
      BY <2>1, <3>2, PlanesFixed DEF NoObjects
    <3> QED  BY <3>1, <3>2
  <2>4. /\ DOMAIN drm' = {"planes", "crtcs", "encoders", "bridges", "writebacks"}
        /\ drm'.encoders = {} /\ drm'.bridges = {}
    BY <2>1 DEF NoObjects
  <2> QED  BY <2>1, <2>3, <2>4 DEF ObjectsInv, PastCrtcs
<1>3. CASE VspInit
  <2>1. /\ state["du"] = "probing" /\ step = "vsps" /\ idx \in Vsps
        /\ actions' = actions \cup {idx} /\ step' \in {"vsps", "cmms"}
        /\ drm' = [drm EXCEPT !.planes = @ \cup {VspPlane(idx, i) : i \in 0..4}]
    BY <1>3, DriversKnown DEF VspInit, At, DuDefers, DuFails,
       Defer, GiveUp, RefsInv
  <2>2. HasVsp
    BY <2>1 DEF Vsps
  <2>3. Initialized' = Initialized \cup {idx}
    BY <1>1, <2>1
  <2>4. drm.planes = AllPlanes /\ drm.encoders = {} /\ drm.bridges = {}
    BY <2>1 DEF ObjectsInv, PastCrtcs
  <2>5. AllPlanes' = AllPlanes \cup {VspPlane(idx, i) : i \in 0..4}
    <3>1. AllPlanes' = {VspPlane(v, i) : v \in Initialized \cup {idx}, i \in 0..4}
      BY <2>2, <2>3, PlanesFixed
    <3>2. AllPlanes = {VspPlane(v, i) : v \in Initialized, i \in 0..4}
      BY <2>2 DEF AllPlanes
    <3> QED  BY <3>1, <3>2
  <2>6. /\ DOMAIN drm' = {"planes", "crtcs", "encoders", "bridges", "writebacks"}
        /\ drm'.encoders = {} /\ drm'.bridges = {} /\ drm'.planes = AllPlanes'
    BY <1>1, <2>1, <2>4, <2>5
  <2> QED  BY <2>1, <2>6 DEF ObjectsInv, PastCrtcs
<1>4. CASE CmmInit
  <2>1. /\ state["du"] = "probing" /\ step = "cmms" /\ step' = "crtcs"
        /\ UNCHANGED <<actions, drm>>
    BY <1>4, DriversKnown DEF CmmInit, At, DuDefers, DuFails,
       Defer, GiveUp, RefsInv
  <2>2. Initialized' = Initialized
    BY <1>1, <2>1
  <2>3. AllPlanes' = AllPlanes
    BY <2>2, PlanesFixed DEF AllPlanes
  <2> QED  BY <2>1, <2>3 DEF ObjectsInv, PastCrtcs
<1>5. CASE CrtcCreate
  <2>1. /\ state["du"] = "probing" /\ step = "crtcs" /\ step' = "encoders" /\ idx' = 1
        /\ UNCHANGED actions
        /\ drm' = [drm EXCEPT !.crtcs = AllCrtcs]
    BY <1>5, DriversKnown DEF CrtcCreate, At, DuDefers, DuFails,
       Defer, GiveUp, RefsInv, AllCrtcs
  <2>2. Initialized' = Initialized
    BY <1>1, <2>1
  <2>3. AllPlanes' = AllPlanes
    BY <2>2, PlanesFixed DEF AllPlanes
  <2>4. drm.planes = AllPlanes /\ drm.encoders = {} /\ drm.bridges = {}
    BY <2>1 DEF ObjectsInv, PastCrtcs
  <2>5. /\ DOMAIN drm' = {"planes", "crtcs", "encoders", "bridges", "writebacks"}
        /\ drm'.planes = AllPlanes' /\ drm'.crtcs = AllCrtcs'
        /\ drm'.encoders = {} /\ drm'.bridges = {}
    BY <1>1, <2>1, <2>3, <2>4, BoardFixed
  <2>6. Passed' = {}
    BY <2>1 DEF Passed
  <2>7. idx' \in 1..Len(soc'.ports)
    BY <1>1, <2>1, PortsCounted, BoardFixed
  <2> QED  BY <2>1, <2>5, <2>6, <2>7 DEF ObjectsInv, PastCrtcs
<1> QED  BY <1>2, <1>3, <1>4, <1>5

\* An output that is found is the bridge of the encoder it is named after.
LEMMA FoundBridge ==
  ASSUME board \in Boards, PairInv, Found, Output = "LVDS0"
  PROVE  Bridge("lvds0")
<1>1. "LVDS0" \notin avail
  <2>1. board.sinks \subseteq {"LVDS0", "LVDS1", "DSI0", "DSI1"}
    BY BoardsKnown
  <2>2. \A o \in board.sinks :
          Sink(o) \in {"sinkLVDS0", "sinkLVDS1", "sinkDSI0", "sinkDSI1"}
    BY <2>1 DEF Sink, SinkAt
  <2>3. "LVDS0" \notin Providers
    BY <2>2 DEF Providers, Internal, Encoder
  <2> QED  BY <2>3 DEF PairInv
<1> QED  BY <1>1 DEF Found, Encoder

\* The companion of a dual link is known as one by the time its endpoint is handled.
LEMMA CompanionKnown ==
  ASSUME RefsInv, PairInv, ObjectsInv, state["du"] = "probing", step = "encoders"
  PROVE  Companion <=> board.dual /\ Output = "LVDS1"
<1>1. board \in Boards /\ board.dual \in BOOLEAN
  BY BoardsKnown DEF RefsInv
<1>2. CASE ~board.dual
  BY <1>2 DEF PairInv, Companion
<1>3. CASE board.dual
  <2>1. /\ soc = E3 /\ "LVDS0" \in board.wired
        /\ soc.gen = 3 /\ soc.ports = <<"DPAD0", "LVDS0", "LVDS1">>
    BY <1>1, <1>3, BoardsKnown DEF soc, E3
  <2>2. ASSUME Output = "LVDS1" PROVE link["lvds1"] = "dual"
    <3>1. idx = 3
      BY <2>1, <2>2 DEF ObjectsInv, Output
    <3>2. "LVDS0" \in Passed
      BY <2>1, <3>1 DEF Passed
    <3>3. Bridge("lvds0")
      BY <2>1, <3>2 DEF ObjectsInv, PastCrtcs
    <3> QED  BY <1>3, <3>3 DEF PairInv, Bridge
  <2> QED  BY <1>3, <2>1, <2>2 DEF Companion
<1> QED  BY <1>1, <1>2, <1>3

\* What rcar_du_encoder_init() adds for one endpoint.
LEMMA EndpointAdded ==
  ASSUME RefsInv, PairInv, ObjectsInv, EncoderInit,
         ~DuDefers(refs, actions)
  PROVE  \E encoders, bridges :
           /\ NextEndpoint(encoders, bridges)
           /\ encoders \subseteq Outputs(soc)
           /\ fails' = 0 =>
                /\ encoders = Wired \cap (Passed \cup {Output})
                /\ bridges = board.wired \cap Internal \cap (Passed \cup {Output})
           /\ "LVDS0" \in (Passed \cup {Output}) \cap board.wired => Bridge("lvds0")
<1>1. state["du"] = "probing" /\ step = "encoders"
  BY DEF EncoderInit, At
<1>2. /\ drm.encoders \subseteq Outputs(soc)
      /\ "LVDS0" \in Passed \cap board.wired => Bridge("lvds0")
      /\ fails = 0 => /\ drm.encoders = Wired \cap Passed
                       /\ drm.bridges = board.wired \cap Internal \cap Passed
      /\ idx \in 1..Len(soc.ports) /\ fails \in Nat
      /\ Wired \subseteq board.wired
  BY <1>1 DEF ObjectsInv, PastCrtcs, RefsInv, Wired
<1>3. Output \in Outputs(soc)
  BY <1>2, PortsCounted DEF RefsInv, Output, Outputs
<1>4. CASE Output \notin board.wired
  BY <1>2, <1>4 DEF EncoderInit
<1>5. CASE Output \in board.wired
  <2>1. "LVDS0" \in (Passed \cup {Output}) \cap board.wired => Bridge("lvds0")
    BY <1>2, <1>5, FoundBridge DEF EncoderInit, RefsInv
  <2>2. CASE fails' = fails + 1
    BY <1>2, <1>5, <2>1, <2>2 DEF EncoderInit
  <2>3. CASE /\ NextEndpoint(IF Companion \/ HostRefuses THEN drm.encoders
                                     ELSE drm.encoders \cup {Output}, Recorded)
             /\ UNCHANGED fails
    <3>1. Output \in Wired <=> ~(Companion \/ HostRefuses)
      BY <1>1, <1>5, CompanionKnown DEF Wired, HostRefuses
    <3>2. fails = 0 => Recorded = board.wired \cap Internal \cap (Passed \cup {Output})
      BY <1>2, <1>5 DEF Recorded
    <3> DEFINE encoders == IF Companion \/ HostRefuses THEN drm.encoders
                           ELSE drm.encoders \cup {Output}
    <3>3. /\ encoders \subseteq Outputs(soc)
          /\ fails = 0 => encoders = Wired \cap (Passed \cup {Output})
      BY <1>2, <1>3, <3>1
    <3> QED  BY <2>1, <2>3, <3>2, <3>3
  <2> QED  BY <1>5, <2>2, <2>3 DEF EncoderInit, CallFails
<1> QED  BY <1>4, <1>5

\* The step of the encoders, while the probe goes on.
LEMMA ObjectsAtEncoders ==
  ASSUME RefsInv, RefsInv', PairInv, ObjectsInv, EncoderInit,
         state'["du"] = "probing", Bridge("lvds0") => Bridge("lvds0")'
  PROVE  ObjectsInv'
<1>1. /\ state["du"] = "probing" /\ step = "encoders" /\ UNCHANGED board
      /\ DOMAIN drm = {"planes", "crtcs", "encoders", "bridges", "writebacks"}
      /\ actions = Initialized /\ actions' = Initialized' /\ board \in Boards
      /\ idx \in 1..Len(soc.ports)
  BY DEF EncoderInit, At, core, ObjectsInv, RefsInv
<1>2. ~DuDefers(refs, actions) /\ ~DuFails(refs, actions)
  BY DriversKnown DEF DuDefers, DuFails, Defer, GiveUp, RefsInv
<1>3. PICK encoders, bridges :
           /\ NextEndpoint(encoders, bridges)
           /\ encoders \subseteq Outputs(soc)
           /\ fails' = 0 =>
                /\ encoders = Wired \cap (Passed \cup {Output})
                /\ bridges = board.wired \cap Internal \cap (Passed \cup {Output})
           /\ "LVDS0" \in (Passed \cup {Output}) \cap board.wired => Bridge("lvds0")
  BY <1>2, EndpointAdded
<1>4. /\ drm' = [drm EXCEPT !.encoders = encoders, !.bridges = bridges]
      /\ UNCHANGED actions
      /\ \/ idx < Len(soc.ports) /\ idx' = idx + 1 /\ UNCHANGED step
         \/ idx = Len(soc.ports) /\ UNCHANGED idx /\ step' = "writebacks"
  BY <1>1, <1>2, <1>3, PortsCounted DEF NextEndpoint
<1>5. Passed' = Passed \cup {Output}
  <2>1. /\ Len(soc.ports) \in Nat /\ DOMAIN soc.ports = 1..Len(soc.ports)
        /\ soc' = soc
    BY <1>1, PortsCounted, BoardFixed
  <2>2. Passed = {soc.ports[i] : i \in 1..idx - 1}
    BY <1>1 DEF Passed
  <2>3. Passed' = {soc.ports[i] : i \in 1..idx}
    <3>1. CASE idx < Len(soc.ports)
      BY <1>1, <1>4, <2>1, <3>1 DEF Passed
    <3>2. CASE idx = Len(soc.ports)
      BY <1>1, <1>4, <2>1, <3>2 DEF Passed, Outputs
    <3> QED  BY <1>1, <2>1, <3>1, <3>2
  <2>4. 1..idx = (1..idx - 1) \cup {idx}
    BY <1>1, <2>1
  <2> QED  BY <2>2, <2>3, <2>4 DEF Output
<1>6. AllPlanes' = AllPlanes /\ AllCrtcs' = AllCrtcs
  BY <1>1, <1>4, PlanesFixed, BoardFixed DEF AllPlanes
<1>7. /\ DOMAIN drm' = {"planes", "crtcs", "encoders", "bridges", "writebacks"}
      /\ drm'.planes = drm.planes /\ drm'.crtcs = drm.crtcs
      /\ drm'.encoders = encoders /\ drm'.bridges = bridges
  BY <1>1, <1>4
<1>8. drm.planes = AllPlanes /\ drm.crtcs = AllCrtcs
  BY <1>1 DEF ObjectsInv, PastCrtcs
<1>9. PastCrtcs' /\ step' \in {"encoders", "writebacks"}
  BY <1>1, <1>4 DEF PastCrtcs
<1>10. /\ Outputs(soc)' = Outputs(soc)
       /\ Wired' = Wired
       /\ soc' = soc
  BY <1>1, BoardFixed DEF Outputs
<1>11. step' = "encoders" => idx' \in 1..Len(soc'.ports)
  BY <1>1, <1>4, <1>10, PortsCounted
<1> QED  BY <1>1, <1>3, <1>5, <1>6, <1>7, <1>8, <1>9, <1>10, <1>11 DEF ObjectsInv

\* The end of the probe.
LEMMA ObjectsAtRegister ==
  ASSUME RefsInv, RefsInv', ObjectsInv, DuRegister, state'["du"] = "bound",
         Bridge("lvds0") => Bridge("lvds0")'
  PROVE  ObjectsInv'
<1>1. /\ state["du"] = "probing" /\ step = "writebacks" /\ UNCHANGED board
      /\ DOMAIN drm = {"planes", "crtcs", "encoders", "bridges", "writebacks"}
      /\ actions = Initialized /\ actions' = Initialized' /\ PastCrtcs
  BY DEF DuRegister, At, core, ObjectsInv, RefsInv, PastCrtcs
<1>2. /\ drm' = [drm EXCEPT !.writebacks = WritebackInit]
      /\ UNCHANGED <<actions, fails, step>>
  BY DriversKnown DEF DuRegister, DuFails, GiveUp, RefsInv
<1>3. /\ DOMAIN drm' = {"planes", "crtcs", "encoders", "bridges", "writebacks"}
      /\ drm'.planes = drm.planes /\ drm'.crtcs = drm.crtcs /\ drm'.encoders = drm.encoders
      /\ drm'.bridges = drm.bridges /\ drm'.writebacks = WritebackInit
  BY <1>1, <1>2
<1>4. AllPlanes' = AllPlanes
  BY <1>1, <1>2, PlanesFixed DEF AllPlanes
<1>5. /\ Outputs(soc)' = Outputs(soc)
      /\ Passed' = Passed
  BY <1>1, BoardFixed DEF Outputs, Passed
<1> QED  BY <1>1, <1>2, <1>3, <1>4, <1>5, BoardFixed DEF ObjectsInv

\* The Display Unit.
LEMMA ObjectsAtDu ==
  ASSUME RefsInv, PairInv, ObjectsInv, Du \/ Unbind
  PROVE  ObjectsInv'
<1>1. RefsInv'
  BY RefsAtDu
<1>2. UNCHANGED board
  BY DEF Du, Unbind, DuStart, VspInit, CmmInit,
     CrtcCreate, EncoderInit, DuRegister, core
<1>3. ASSUME NEW taken, NEW managed,
             DuDefers(taken, managed) \/ DuFails(taken, managed)
      PROVE  ObjectsInv'
  BY <1>3, DriversKnown, ObjectsAtEnd DEF DuDefers, DuFails, Defer,
     GiveUp, Remove, RefsInv
<1>4. CASE state'["du"] = "probing" /\ (DuStart \/ VspInit \/ CmmInit
                                          \/ CrtcCreate)
  BY <1>1, <1>2, <1>4, ObjectsAtCrtcs
<1>5. CASE DuStart
  BY <1>4, <1>5, DriversKnown DEF DuStart, StartProbe, RefsInv
<1>6. CASE VspInit
  <2>1. CASE GiveUp("du") /\ drm' = NoObjects
    BY <2>1, DriversKnown, ObjectsAtEnd DEF GiveUp, RefsInv
  <2> QED  BY <1>3, <1>4, <1>6, <2>1 DEF VspInit, Remove, At
<1>7. CASE CmmInit
  BY <1>3, <1>4, <1>7 DEF CmmInit, At
<1>8. CASE CrtcCreate
  BY <1>3, <1>4, <1>8 DEF CrtcCreate, At
<1>9. CASE EncoderInit
  <2>1. CASE state' = state
    BY <1>1, <1>9, <2>1, ObjectsAtEncoders DEF EncoderInit, At, Bridge
  <2>2. ASSUME NEW encoders, NEW bridges, NextEndpoint(encoders, bridges)
        PROVE  ObjectsInv'
    BY <1>3, <2>1, <2>2 DEF NextEndpoint
  <2> QED  BY <1>3, <1>9, <2>2 DEF EncoderInit
<1>10. CASE DuRegister
  <2>1. CASE Bind([state EXCEPT !["du"] = "bound"])
    <3>1. state'["du"] = "bound" /\ (Bridge("lvds0") => Bridge("lvds0")')
      BY <2>1, DriversKnown DEF Bind, Bridge, RefsInv
    <3> QED  BY <1>1, <1>10, <3>1, ObjectsAtRegister
  <2> QED  BY <1>3, <1>10, <2>1 DEF DuRegister
<1>11. CASE Unbind
  BY <1>11, DriversKnown, ObjectsAtEnd DEF Unbind, Remove, RefsInv
<1> QED  BY <1>5, <1>6, <1>7, <1>8, <1>9, <1>10, <1>11 DEF Du

\* The inductive invariant of the probes.
ProbeInv == RefsInv /\ PairInv /\ ObjectsInv

\* It holds in every reachable state.
LEMMA ProbeInvariant == ProbeSpec => []ProbeInv
<1>1. ASSUME ProbeInit PROVE ProbeInv
  <2>1. RefsInv
    BY <1>1, DriversKnown DEF ProbeInit, RefsInv, Initialized
  <2>2. PairInv
    BY <1>1, DriversKnown DEF ProbeInit, PairInv
  <2>3. ObjectsInv
    BY <1>1, DriversKnown DEF ProbeInit, ObjectsInv, PastCrtcs, NoObjects
  <2> QED  BY <2>1, <2>2, <2>3 DEF ProbeInv
<1>2. ASSUME ProbeInv, [ProbeNext]_probeVars PROVE ProbeInv'
  <2>1. RefsInv /\ PairInv /\ ObjectsInv
    BY <1>2 DEF ProbeInv
  <2>2. CASE UNCHANGED probeVars
    <3>1. Elsewhere /\ PairAlone
      BY <2>1, <2>2 DEF Elsewhere, PairAlone, PairInv, RefsInv, probeVars, core,
         progress, Bridge
    <3> QED  BY <2>1, <3>1, RefsElsewhere, PairElsewhere, ObjectsElsewhere DEF ProbeInv
  <2>3. CASE Du \/ Unbind
    BY <2>1, <2>3, RefsAtDu, PairAtOthers, ObjectsAtDu DEF ProbeInv
  <2>4. CASE \/ \E p \in Providers : ProviderBinds(p)
             \/ \E d \in {"dsi0", "dsi1"} : Dsi(d)
    BY <2>1, <2>4, OthersElsewhere, RefsElsewhere, PairAtOthers, ObjectsElsewhere DEF ProbeInv
  <2>5. CASE \E d \in {"lvds0", "lvds1"} : Lvds(d)
    BY <2>1, <2>5, OthersElsewhere, RefsElsewhere, PairAtLvds, ObjectsElsewhere DEF ProbeInv
  <2> QED  BY <1>2, <2>2, <2>3, <2>4, <2>5 DEF ProbeNext
<1> QED  BY <1>1, <1>2, PTL DEF ProbeSpec

--------------------------------------------------------------------------------
(* Probing: the pipelines of the devices                                     *)

\* The cardinality of small sets.
LEMMA SmallSets ==
  /\ Cardinality({}) = 0
  /\ \A a : Cardinality({a}) = 1
  /\ \A a, b : a # b => Cardinality({a, b}) = 2
<1>1. Cardinality({}) = 0 /\ \A a : IsFiniteSet({a}) /\ Cardinality({a}) = 1
  BY FS_EmptySet, FS_Singleton
<1>2. ASSUME NEW a, NEW b, a # b PROVE Cardinality({a, b}) = 2
  <2>1. {a} \cup {b} = {a, b} /\ b \notin {a}
    BY <1>2
  <2>2. Cardinality({a} \cup {b}) = Cardinality({a}) + 1 /\ Cardinality({a}) = 1
    BY <1>1, <2>1, FS_AddElement
  <2>3. Cardinality({a} \cup {b}) = 2
    BY <2>2
  <2> QED  BY <2>1, <2>3, Zenon
<1> QED  BY <1>1, <1>2

\* The CRTCs a VSP feeds.
FedBy(v) == {c \in Channels : VspOf(c) = v}

\* Which pipeline of which VSP feeds a CRTC.
LEMMA PipesKnown ==
  ASSUME board \in Boards, HasVsp
  PROVE  /\ Channels \subseteq 0..3
         /\ \A c \in Channels :
              /\ VspOf(c) \in Vsps /\ PipeOf(c) \in {0, 1}
              /\ PipeOf(c) < Cardinality(FedBy(VspOf(c)))
         /\ \A c, d \in Channels :
              VspOf(c) = VspOf(d) /\ PipeOf(c) = PipeOf(d) => c = d
         /\ board.brs >= 0 =>
              /\ FedBy(0) = {0} \cup PairCrtcs /\ 0 \notin PairCrtcs
              /\ PipeOf(0) = 0
              /\ \A c \in PairCrtcs : PairCrtcs = {c} /\ PipeOf(c) = 1
              /\ PairCrtcs # {}
<1>1. /\ board.soc \in {H3, M3N, E3, V3U}
      /\ board.brs >= 0 => board.soc \in {H3, M3N}
  BY BoardsKnown DEF HasVsp, soc, H2
<1>2. CASE board.soc = H3
  <2>1. /\ Channels = 0..3 /\ PairCrtcs = {3}
        /\ VspOf(0) = 0 /\ VspOf(1) = 1 /\ VspOf(2) = 2 /\ VspOf(3) = 0
        /\ PipeOf(0) = 0 /\ PipeOf(1) = 0 /\ PipeOf(2) = 0 /\ PipeOf(3) = 1
    BY <1>2 DEF H3, Channels, PairCrtcs, VspOf, PipeOf, soc
  <2>2. soc.vsp = <<0, 1, 2, 0>>
    BY <1>2 DEF H3, soc
  <2>3. Vsps = 0..2
    BY <2>2 DEF Vsps
  <2>4. FedBy(0) = {0, 3} /\ FedBy(1) = {1} /\ FedBy(2) = {2}
    BY <2>1 DEF FedBy
  <2>5. Cardinality(FedBy(0)) = 2 /\ Cardinality(FedBy(1)) = 1 /\ Cardinality(FedBy(2)) = 1
    <3>1. Cardinality({0, 3}) = 2 /\ Cardinality({1}) = 1 /\ Cardinality({2}) = 1
      <4>1. 0 # 3
        OBVIOUS
      <4> QED  BY <4>1, SmallSets, Zenon
    <3> QED  BY <2>4, <3>1
  <2> QED  BY <2>1, <2>3, <2>4, <2>5
<1>3. CASE board.soc = M3N
  <2>1. /\ Channels = 0..2 /\ PairCrtcs = {2}
        /\ VspOf(0) = 0 /\ VspOf(1) = 1 /\ VspOf(2) = 0
        /\ PipeOf(0) = 0 /\ PipeOf(1) = 0 /\ PipeOf(2) = 1
    BY <1>3 DEF M3N, Channels, PairCrtcs, VspOf, PipeOf, soc
  <2>2. soc.vsp = <<0, 1, 0>>
    BY <1>3 DEF M3N, soc
  <2>3. Vsps = 0..1
    BY <2>2 DEF Vsps
  <2>4. FedBy(0) = {0, 2} /\ FedBy(1) = {1}
    BY <2>1 DEF FedBy
  <2>5. Cardinality(FedBy(0)) = 2 /\ Cardinality(FedBy(1)) = 1
    <3>1. Cardinality({0, 2}) = 2 /\ Cardinality({1}) = 1
      <4>1. 0 # 2
        OBVIOUS
      <4> QED  BY <4>1, SmallSets, Zenon
    <3> QED  BY <2>4, <3>1
  <2> QED  BY <2>1, <2>3, <2>4, <2>5
<1>4. CASE board.soc \in {E3, V3U}
  <2>1. /\ Channels = 0..1 /\ VspOf(0) = 0 /\ VspOf(1) = 1
        /\ PipeOf(0) = 0 /\ PipeOf(1) = 0
    BY <1>4 DEF E3, V3U, Channels, VspOf, PipeOf, soc
  <2>2. soc.vsp = <<0, 1>> /\ board.soc \notin {H3, M3N}
    BY <1>4 DEF E3, V3U, H3, M3N, soc
  <2>3. Vsps = 0..1
    BY <2>2 DEF Vsps
  <2>4. FedBy(0) = {0} /\ FedBy(1) = {1}
    BY <2>1 DEF FedBy
  <2>5. Cardinality(FedBy(0)) = 1 /\ Cardinality(FedBy(1)) = 1
    BY <2>4, SmallSets
  <2> QED  BY <1>1, <2>1, <2>2, <2>3, <2>5
<1> QED  BY <1>1, <1>2, <1>3, <1>4

\* The planes of an undivided VSP are for all its CRTCs, those of a divided one for
\* one of its pipelines.
LEMMA VspPlanes ==
  ASSUME board \in Boards, HasVsp, NEW v \in Vsps, NEW i \in 0..4
  PROVE  /\ VspPlane(v, i).owner = v /\ VspPlane(v, i).index = i
         /\ ~(Fix /\ v = 0) =>
              /\ VspPlane(v, i).crtcs = FedBy(v)
              /\ i < Cardinality(FedBy(v)) => VspPlane(v, i).type = "PRIMARY"
         /\ Fix /\ v = 0 =>
              /\ VspPlane(v, i).crtcs =
                   IF (board.brs >= 1 /\ i = 1) \/ (board.brs = 2 /\ i = 4)
                   THEN PairCrtcs ELSE {0}
              /\ i = 0 \/ (i = 1 /\ board.brs >= 1) => VspPlane(v, i).type = "PRIMARY"
<1> DEFINE crtcs == FedBy(v)
           divided == Fix /\ v = 0
           primary == i < Cardinality(crtcs) /\ ~(divided /\ board.brs = 0 /\ i > 0)
           paired == (board.brs >= 1 /\ primary /\ i = 1) \/ (board.brs = 2 /\ i = 4)
<1>1. VspPlane(v, i) =
        [owner |-> v, index |-> i, type |-> IF primary THEN "PRIMARY" ELSE "OVERLAY",
         crtcs |-> IF ~divided THEN crtcs ELSE IF paired THEN PairCrtcs ELSE {0}]
  BY DEF VspPlane, FedBy
<1>2. /\ VspPlane(v, i).owner = v /\ VspPlane(v, i).index = i
      /\ VspPlane(v, i).type = IF primary THEN "PRIMARY" ELSE "OVERLAY"
      /\ VspPlane(v, i).crtcs = IF ~divided THEN crtcs
                                       ELSE IF paired THEN PairCrtcs ELSE {0}
  <2> HIDE DEF primary, divided, paired, crtcs
  <2> QED  BY <1>1
<1>3. ASSUME divided PROVE Cardinality(crtcs) = 2
  <2>1. board.brs >= 0
    BY <1>3 DEF Fix
  <2>2. PICK n : PairCrtcs = {n} /\ n # 0 /\ FedBy(0) = {0, n}
    BY <2>1, PipesKnown
  <2>3. Cardinality({0, n}) = 2
    BY <2>2, SmallSets, Zenon
  <2> QED  BY <1>3, <2>2, <2>3
<1> QED  BY <1>2, <1>3, BoardsKnown

\* The primary plane of each CRTC is there, and no other CRTC has it.
LEMMA PrimariesThere ==
  ASSUME board \in Boards, NEW c \in Created
  PROVE  /\ HasVsp =>
              LET p == VspPlane(VspOf(c), PipeOf(c))
              IN /\ VspOf(c) \in Vsps /\ PipeOf(c) \in 0..4
                 /\ c \in p.crtcs /\ p.type = "PRIMARY"
                 /\ p.owner = Primary(c).owner /\ p.index = Primary(c).index
         /\ ~HasVsp =>
              \E p \in GroupPlanes(c \div 2) :
                 /\ c \in p.crtcs /\ p.type = "PRIMARY"
                 /\ p.owner = Primary(c).owner /\ p.index = Primary(c).index
<1>1. c \in Channels /\ (Fix /\ PipeOf(c) = 1 => board.brs # 0)
  BY DEF Created
<1>2. CASE HasVsp
  <2> DEFINE v == VspOf(c)
             i == PipeOf(c)
  <2>1. v \in Vsps /\ i \in {0, 1} /\ i < Cardinality(FedBy(v)) /\ c \in FedBy(v)
    BY <1>1, <1>2, PipesKnown DEF FedBy
  <2>2. Primary(c).owner = v /\ Primary(c).index = i
    BY <1>2 DEF Primary
  <2> HIDE DEF v, i
  <2>3. i \in 0..4
    BY <2>1
  <2>4. CASE ~(Fix /\ v = 0)
    BY <1>2, <2>1, <2>2, <2>3, <2>4, VspPlanes DEF v, i
  <2>5. CASE Fix /\ v = 0
    <3>1. board.brs >= 0 /\ (i = 1 => board.brs >= 1)
      BY <1>1, <2>5, BoardsKnown DEF Fix, i
    <3>2. c \in {0} \cup PairCrtcs /\ (c \in PairCrtcs => i = 1) /\ (c = 0 => i = 0)
      BY <1>2, <2>1, <2>5, <3>1, PipesKnown DEF i
    <3>3. c \in VspPlane(v, i).crtcs
      BY <1>2, <2>1, <2>3, <2>5, <3>1, <3>2, VspPlanes
    <3>4. VspPlane(v, i).type = "PRIMARY"
      BY <1>2, <2>1, <2>3, <2>5, <3>1, VspPlanes
    <3> QED  BY <1>2, <2>1, <2>2, <2>3, <3>3, <3>4, VspPlanes DEF v, i
  <2> QED  BY <2>4, <2>5
<1>3. CASE ~HasVsp
  <2>1. board.soc = H2 /\ Channels = 0..2
    <3>1. /\ H2.gen = 2 /\ H2.crtcs = 3 /\ H3.gen = 3 /\ M3N.gen = 3
          /\ E3.gen = 3 /\ V3U.gen = 3
      BY DEF H2, H3, M3N, E3, V3U
    <3> QED  BY <1>3, <3>1, BoardsKnown DEF HasVsp, Channels, soc
  <2> DEFINE crtcs == {d \in Channels : d \div 2 = c \div 2}
             primary == [owner |-> c \div 2, index |-> c % 2, crtcs |-> crtcs, type |-> "PRIMARY"]
  <2>2. crtcs = IF c = 2 THEN {2} ELSE {0, 1}
    BY <1>1, <2>1
  <2>3. Cardinality(crtcs) \in {1, 2} /\ c % 2 < Cardinality(crtcs)
    <3>1. Cardinality({0, 1}) = 2 /\ Cardinality({2}) = 1
      <4>1. 0 # 1
        OBVIOUS
      <4> QED  BY <4>1, SmallSets, Zenon
    <3>2. c \in {0, 1, 2} /\ 0 % 2 = 0 /\ 1 % 2 = 1 /\ 2 % 2 = 0
      BY <1>1, <2>1
    <3> HIDE DEF crtcs
    <3> QED  BY <2>2, <3>1, <3>2
  <2>4. primary \in GroupPlanes(c \div 2)
    <3>1. GroupPlanes(c \div 2) =
            {[owner |-> c \div 2, index |-> i, crtcs |-> crtcs,
              type |-> IF i < Cardinality(crtcs) THEN "PRIMARY" ELSE "OVERLAY"] :
                i \in 0..Cardinality(crtcs) + 6}
      BY DEF GroupPlanes
    <3>2. c % 2 \in 0..Cardinality(crtcs) + 6
      BY <1>1, <2>1, <2>3
    <3> HIDE DEF crtcs
    <3> QED  BY <2>3, <3>1, <3>2
  <2>5. Primary(c) = [owner |-> c \div 2, index |-> c % 2]
    BY <1>3 DEF Primary
  <2>6. c \in primary.crtcs /\ primary.type = "PRIMARY" /\ primary.owner = Primary(c).owner
        /\ primary.index = Primary(c).index
    BY <1>1, <2>5
  <2> HIDE DEF primary
  <2> QED  BY <1>3, <2>4, <2>6
<1> QED  BY <1>2, <1>3

\* No two CRTCs have the same.
LEMMA PrimariesDiffer ==
  ASSUME board \in Boards, NEW i \in Channels, NEW j \in Channels, i # j
  PROVE  Primary(i) # Primary(j)
<1>1. CASE HasVsp
  <2>1. ~(VspOf(i) = VspOf(j) /\ PipeOf(i) = PipeOf(j))
    BY <1>1, PipesKnown
  <2> QED  BY <1>1, <2>1 DEF Primary
<1>2. CASE ~HasVsp
  <2>1. i \in Int /\ j \in Int
    BY DEF Channels
  <2>2. ~(i \div 2 = j \div 2 /\ i % 2 = j % 2)
    BY <2>1
  <2> QED  BY <1>2, <2>2 DEF Primary
<1> QED  BY <1>1, <1>2

\* The two CRTCs of a divided VSP share none of its planes, and the second has as many
\* as the device tree says.
LEMMA PlanesDivided ==
  ASSUME board \in Boards, Fix, drm.planes = AllPlanes, Initialized = Vsps,
         NEW c \in FedBy(0), NEW d \in FedBy(0), c # d
  PROVE  /\ PlanesOf(c) \cap PlanesOf(d) = {}
         /\ PipeOf(c) = 1 => Cardinality(PlanesOf(c)) = board.brs
<1>1. HasVsp /\ board.brs \in 0..2
  BY BoardsKnown DEF Fix
<1>2. PICK n : PairCrtcs = {n} /\ n # 0 /\ FedBy(0) = {0, n} /\ PipeOf(n) = 1
               /\ PipeOf(0) = 0
  BY <1>1, PipesKnown
<1> DEFINE Shared == {i \in 0..4 : (board.brs >= 1 /\ i = 1) \/ (board.brs = 2 /\ i = 4)}
<1>3. 0 \in Vsps /\ n \in Channels /\ 0 \in Channels
      /\ VspOf(n) = 0 /\ VspOf(0) = 0
  <2>1. /\ n \in Channels /\ 0 \in Channels
        /\ VspOf(n) = 0 /\ VspOf(0) = 0
    BY <1>2 DEF FedBy
  <2>2. VspOf(0) \in Vsps
    BY <1>1, <2>1, PipesKnown
  <2> QED  BY <2>1, <2>2
<1>4. drm.planes = {VspPlane(v, i) : v \in Vsps, i \in 0..4}
  BY <1>1 DEF AllPlanes
<1>5. ASSUME NEW p \in drm.planes
      PROVE  /\ 0 \in p.crtcs => n \notin p.crtcs
             /\ n \in p.crtcs => \E i \in Shared : p = VspPlane(0, i)
  <2>1. PICK v \in Vsps, i \in 0..4 : p = VspPlane(v, i)
    BY <1>4
  <2>2. CASE v = 0
    <3>1. p.crtcs = IF i \in Shared THEN {n} ELSE {0}
      <4>1. VspPlane(v, i).crtcs =
              IF (board.brs >= 1 /\ i = 1) \/ (board.brs = 2 /\ i = 4) THEN PairCrtcs ELSE {0}
        BY <1>1, <2>2, VspPlanes
      <4> QED  BY <1>2, <2>1, <4>1
    <3> QED  BY <1>2, <2>1, <2>2, <3>1
  <2>3. CASE v # 0
    <3>1. p.crtcs = FedBy(v)
      BY <1>1, <2>1, <2>3, VspPlanes
    <3> QED  BY <1>3, <2>3, <3>1 DEF FedBy
  <2> QED  BY <2>2, <2>3
<1>6. ASSUME NEW i \in Shared
      PROVE  /\ VspPlane(0, i) \in PlanesOf(n)
             /\ VspPlane(0, i).index = i
  <2>1. VspPlane(0, i).crtcs = {n} /\ VspPlane(0, i).index = i
    BY <1>1, <1>2, <1>3, VspPlanes
  <2> QED  BY <1>3, <1>4, <2>1 DEF PlanesOf
<1>7. PlanesOf(n) = {VspPlane(0, i) : i \in Shared}
  BY <1>5, <1>6 DEF PlanesOf
<1>8. Cardinality(PlanesOf(n)) = board.brs
  <2>1. CASE board.brs = 0
    <3>1. Shared = {}
      BY <2>1
    <3>2. PlanesOf(n) = {}
      BY <1>7, <3>1
    <3> QED  BY <2>1, <3>2, SmallSets
  <2>2. CASE board.brs = 1
    <3>1. Shared = {1}
      BY <2>2
    <3>2. PlanesOf(n) = {VspPlane(0, 1)}
      BY <1>7, <3>1
    <3>3. Cardinality({VspPlane(0, 1)}) = 1
      BY SmallSets, Zenon
    <3> QED  BY <2>2, <3>2, <3>3
  <2>3. CASE board.brs = 2
    <3>1. Shared = {1, 4}
      BY <2>3
    <3>2. PlanesOf(n) = {VspPlane(0, 1), VspPlane(0, 4)}
      BY <1>7, <3>1
    <3>3. VspPlane(0, 1) # VspPlane(0, 4)
      BY <1>6, <3>1
    <3>4. Cardinality({VspPlane(0, 1), VspPlane(0, 4)}) = 2
      BY <3>3, SmallSets, Zenon
    <3> QED  BY <2>3, <3>2, <3>4
  <2> QED  BY <1>1, <2>1, <2>2, <2>3
<1>9. PlanesOf(0) \cap PlanesOf(n) = {}
  BY <1>5 DEF PlanesOf
<1> QED  BY <1>2, <1>8, <1>9

\* A CRTC can drive every output that is routed from it.
LEMMA RoutesKnown ==
  ASSUME board \in Boards, NEW o \in Outputs(soc)
  PROVE  soc.routes[o] \subseteq Channels
<1>1. board.soc \in {H2, H3, M3N, E3, V3U}
  BY BoardsKnown
<1>2. CASE board.soc = H2
  BY <1>2, PortsKnown DEF H2, Channels, soc
<1>3. CASE board.soc = H3
  BY <1>3, PortsKnown DEF H3, Channels, soc
<1>4. CASE board.soc = M3N
  BY <1>4, PortsKnown DEF M3N, Channels, soc
<1>5. CASE board.soc = E3
  BY <1>5, PortsKnown DEF E3, Channels, soc
<1>6. CASE board.soc = V3U
  BY <1>6, PortsKnown DEF V3U, Channels, soc
<1> QED  BY <1>1, <1>2, <1>3, <1>4, <1>5, <1>6

--------------------------------------------------------------------------------
(* Probing: theorems                                                         *)

\* A probe that is over holds one reference to each VSP if it has succeeded, and
\* none otherwise, however far it had come: RefsInv.
THEOREM ReferencesReturned == ProbeSpec => []RefsReturned
<1>1. ASSUME ProbeInv PROVE RefsReturned
  BY <1>1 DEF ProbeInv, RefsInv, Initialized, RefsReturned
<1> QED  BY ProbeInvariant, <1>1, PTL

\* In whatever order the drivers probed, the Display Unit that is bound has the
\* outputs that are there: ObjectsInv, with all endpoints passed.
THEOREM OutputsFound == ProbeSpec => []OutputsExact
<1>1. ASSUME ProbeInv PROVE OutputsExact
  <2> SUFFICES ASSUME state["du"] = "bound", fails = 0
               PROVE  drm.encoders = Wired
    BY DEF OutputsExact
  <2>1. drm.encoders = Wired \cap Outputs(soc)
    BY <1>1 DEF ProbeInv, ObjectsInv, PastCrtcs, Passed
  <2>2. Wired \subseteq Outputs(soc)
    BY <1>1, BoardsKnown DEF ProbeInv, RefsInv, Wired, soc
  <2> QED  BY <2>1, <2>2
<1> QED  BY ProbeInvariant, <1>1, PTL

\* The encoder a CRTC takes its clock from is known, an output or not: ObjectsInv.
THEOREM ClocksFound == ProbeSpec => []ClocksKnown
<1>1. ASSUME ProbeInv PROVE ClocksKnown
  <2> SUFFICES ASSUME state["du"] = "bound", fails = 0, NEW c \in Channels
               PROVE  ClockedBy(c) \cap board.wired \subseteq drm.bridges
    BY DEF ClocksKnown
  <2>1. drm.bridges = board.wired \cap Internal \cap Outputs(soc)
    BY <1>1 DEF ProbeInv, ObjectsInv, PastCrtcs, Passed
  <2>2. board.wired \subseteq Outputs(soc)
    BY <1>1, BoardsKnown DEF ProbeInv, RefsInv, soc
  <2>3. Internal = {"LVDS0", "LVDS1", "DSI0", "DSI1"}
    BY DEF Internal, Encoder
  <2>4. ClockedBy(c) \subseteq Internal
    BY <2>3 DEF ClockedBy
  <2> QED  BY <2>1, <2>2, <2>4
<1> QED  BY ProbeInvariant, <1>1, PTL

\* The pipelines of a Display Unit that is bound are complete, whatever is connected
\* to it and however its VSP is divided: what ObjectsInv says was made, and the tables.
THEOREM PipelinesComplete == ProbeSpec => []PipesComplete
<1>1. ASSUME ProbeInv PROVE PipesComplete
  <2> SUFFICES ASSUME state["du"] = "bound" PROVE PipesComplete
    BY DEF PipesComplete
  <2>1. /\ board \in Boards /\ drm.planes = AllPlanes /\ Initialized = Vsps
        /\ drm.crtcs = AllCrtcs /\ drm.writebacks = WritebackInit
        /\ drm.encoders \subseteq Outputs(soc)
    BY <1>1 DEF ProbeInv, RefsInv, ObjectsInv, PastCrtcs, Initialized
  <2>2. ASSUME NEW c \in drm.crtcs
        PROVE  \E p \in PlanesOf(c.index) :
                 p.type = "PRIMARY" /\ p.owner = c.primary.owner /\ p.index = c.primary.index
    <3>1. PICK i \in Created : c = [index |-> i, primary |-> Primary(i)]
      BY <2>1 DEF AllCrtcs
    <3>2. c.index = i /\ c.primary = Primary(i) /\ i \in Channels
      BY <3>1 DEF Created
    <3>3. CASE HasVsp
      <4> DEFINE p == VspPlane(VspOf(i), PipeOf(i))
      <4>1. /\ VspOf(i) \in Vsps /\ PipeOf(i) \in 0..4
            /\ i \in p.crtcs /\ p.type = "PRIMARY"
            /\ p.owner = Primary(i).owner /\ p.index = Primary(i).index
        BY <2>1, <3>3, PrimariesThere
      <4>2. p \in drm.planes
        BY <2>1, <3>3, <4>1 DEF AllPlanes
      <4> HIDE DEF p
      <4> QED  BY <3>2, <4>1, <4>2 DEF PlanesOf
    <3>4. CASE ~HasVsp
      <4>1. PICK p \in GroupPlanes(i \div 2) :
                 /\ i \in p.crtcs /\ p.type = "PRIMARY"
                 /\ p.owner = Primary(i).owner /\ p.index = Primary(i).index
        BY <2>1, <3>4, PrimariesThere
      <4>2. p \in drm.planes
        BY <2>1, <3>2, <3>4, <4>1 DEF AllPlanes
      <4> QED  BY <3>2, <4>1, <4>2 DEF PlanesOf
    <3> QED  BY <3>3, <3>4
  <2>3. ASSUME NEW c \in drm.crtcs, NEW d \in drm.crtcs, d # c
        PROVE  d.primary # c.primary
    <3>1. PICK i \in Created : c = [index |-> i, primary |-> Primary(i)]
      BY <2>1 DEF AllCrtcs
    <3>2. PICK j \in Created : d = [index |-> j, primary |-> Primary(j)]
      BY <2>1 DEF AllCrtcs
    <3>3. i \in Channels /\ j \in Channels /\ i # j
      BY <2>3, <3>1, <3>2 DEF Created
    <3>4. Primary(i) # Primary(j)
      BY <2>1, <3>3, PrimariesDiffer
    <3> QED  BY <3>1, <3>2, <3>4
  <2>4. ASSUME Fix, NEW c \in Channels, NEW d \in Channels, c # d,
               VspOf(c) = 0, VspOf(d) = 0
        PROVE  /\ PlanesOf(c) \cap PlanesOf(d) = {}
               /\ PipeOf(c) = 1 => Cardinality(PlanesOf(c)) = board.brs
    <3>1. c \in FedBy(0) /\ d \in FedBy(0)
      BY <2>4 DEF FedBy
    <3> QED  BY <2>1, <2>4, <3>1, PlanesDivided
  <2>5. ASSUME board.brs # 0
        PROVE  /\ \A w \in drm.writebacks : w.crtc = w.channel
               /\ \A o \in drm.encoders :
                    soc.routes[o] \subseteq {c.index : c \in drm.crtcs}
    <3>1. Created = Channels
      BY <2>5 DEF Created
    <3>2. Channels \subseteq {c.index : c \in drm.crtcs}
      <4>1. ASSUME NEW i \in Channels PROVE \E c \in drm.crtcs : c.index = i
        <5>1. [index |-> i, primary |-> Primary(i)] \in drm.crtcs
          BY <2>1, <3>1 DEF AllCrtcs
        <5> QED  BY <5>1
      <4> QED  BY <4>1
    <3>3. \A w \in drm.writebacks : w.crtc = w.channel
      BY <2>1, <3>1 DEF WritebackInit
    <3> QED  BY <2>1, <3>2, <3>3, RoutesKnown
  <2> QED  BY <2>2, <2>3, <2>4, <2>5 DEF PipesComplete
<1> QED  BY ProbeInvariant, <1>1, PTL

================================================================================
