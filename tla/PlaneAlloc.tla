------------------------------- MODULE PlaneAlloc -------------------------------
(***************************************************************************)
(* The allocator of hardware planes of a group, for the DUs that scan out  *)
(* of memory (rcar_du_atomic_check_planes()), together with the part of    *)
(* atomic_flush that associates the allocated planes with the CRTC.        *)
(*                                                                         *)
(* The allocator keeps no state of its own: it works out the free planes   *)
(* from the states of the KMS planes and stores what it allocates in their *)
(* new states.  A check runs plane by plane (Alloc); the commit swaps the  *)
(* states in (Swap) and its tail flushes the CRTCs later (Flush), possibly *)
(* beside the check of the next commit.                                    *)
(*                                                                         *)
(* KMS planes never source frames from a VSP here: no property changes the *)
(* source rcar_du_plane_reset() gives them.                                *)
(***************************************************************************)
EXTENDS Integers, FiniteSets

CONSTANTS
  Planes,           \* indices of the KMS planes of the group
  NumHw,            \* RCAR_DU_NUM_HW_PLANES, 8 in the hardware
  MaxTouched        \* bound: KMS planes an atomic state sets at once

ASSUME PlaneAllocAssumption ==
  /\ Planes \subseteq Nat
  /\ NumHw \in Nat \ {0}
  /\ MaxTouched \in Nat

Crtcs == {0, 1}
Hw == 0 .. NumHw - 1

\* A plane state: hardware planes its format needs (0 when the plane is not
\* visible and its format NULL), CRTC, and hwindex.
States == [n : 0..2, crtc : Crtcs, hw : Hw \cup {-1}]
Off == [n |-> 0, crtc |-> 0, hw |-> -1]

VARIABLES
  plane,            \* current state of each KMS plane
  checking,         \* a check is in progress
  new,              \* the plane states of the commit being checked
  work,             \* planes it still has to allocate
  free,             \* hardware planes it has not given away
  scope,            \* CRTCs in its atomic state
  pending,          \* CRTCs of commits swapped in and not flushed yet
  dptsr_planes      \* rgrp->dptsr_planes: planes associated with the odd CRTC

check == <<checking, new, work, free, scope>>
vars == <<plane, check, pending, dptsr_planes>>

TypeOK ==
  /\ plane \in [Planes -> States]
  /\ checking \in BOOLEAN
  /\ new \in [Planes -> States]
  /\ work \subseteq Planes
  /\ free \subseteq Hw
  /\ scope \subseteq Crtcs
  /\ pending \subseteq Crtcs
  /\ dptsr_planes \subseteq Hw

Init ==
  /\ plane = [p \in Planes |-> Off]
  /\ checking = FALSE
  /\ new = plane
  /\ work = {} /\ free = {} /\ scope = {}
  /\ pending = {}
  /\ dptsr_planes = {h \in Hw : 2 * h >= NumHw}

--------------------------------------------------------------------------------
\* rcar_du_plane_hwmask()
HwMask(s) ==
  IF s.hw = -1 THEN {}
  ELSE {s.hw} \cup (IF s.n = 2 THEN {(s.hw + 1) % NumHw} ELSE {})

\* Mutant of NeedsRealloc: any commit moves the plane.
NeedsReallocAlways(old, req) == TRUE

\* rcar_du_plane_needs_realloc()
NeedsRealloc(old, req) == old.n = 0 \/ old.n # req.n

\* Mutant of Positions: the second plane may be taken.
PositionsFirstOnly(n, available) == available

\* Where rcar_du_plane_hwalloc() can place a format of n planes.
Positions(n, available) ==
  {i \in available : n = 1 \/ (i + 1) % NumHw \in available}

\* It takes the last one, to keep the first planes available.
Last(S) == CHOOSE i \in S : \A j \in S : j <= i

\* Hardware planes associated with the CRTC.
Associated(c) == IF c % 2 = 1 THEN dptsr_planes ELSE Hw \ dptsr_planes

Disabled(req, T) == {p \in T : req[p].n = 0}
Reallocated(req, T) == {p \in T \ Disabled(req, T) : NeedsRealloc(plane[p], req[p])}

\* The first two passes of rcar_du_atomic_check_planes(), for an atomic state
\* with the planes T going to states req.  A disabled plane loses its hardware
\* planes, one to be reallocated too; the planes the others use are not free.
\* To reallocate means to lock every plane of the group, and so their CRTCs.
UsedPlanes(states, freed) == UNION {HwMask(states[q]) : q \in Planes \ freed}

CrtcsOf(states, T) == {states[p].crtc : p \in {q \in T : states[q].n # 0}}

StartCheck(T, req) ==
  LET moved  == Reallocated(req, T)
      freed  == Disabled(req, T) \cup moved
      states == [p \in Planes |->
                   IF p \in Disabled(req, T) THEN Off
                   ELSE IF p \in moved THEN [req[p] EXCEPT !.hw = -1]
                   ELSE IF p \in T THEN [req[p] EXCEPT !.hw = plane[p].hw]
                   ELSE plane[p]]
      locked == IF moved = {} THEN T ELSE Planes
  IN
  /\ ~checking /\ checking' = TRUE
  /\ new' = states
  /\ work' = moved
  /\ free' = Hw \ UsedPlanes(states, freed)
  /\ scope' = CrtcsOf(plane, locked) \cup CrtcsOf(states, locked)
  /\ UNCHANGED <<plane, pending, dptsr_planes>>

\* The requests of clients: any planes, any format, either CRTC.
Check ==
  \E T \in {U \in SUBSET Planes : U # {} /\ Cardinality(U) <= MaxTouched} :
    \E req \in [T -> {s \in States : s.hw = -1 /\ (s.n = 0 => s = Off)}] :
      StartCheck(T, req)

\* Mutant of Place: the second plane of the format is not taken from the free ones.
PlaceFirstOnly(p, i) ==
  /\ new' = [new EXCEPT ![p].hw = i]
  /\ free' = free \ {i}
  /\ work' = work \ {p}
  /\ UNCHANGED <<plane, checking, scope, pending, dptsr_planes>>

\* The third pass, for the next plane: prefer planes associated with its CRTC,
\* which spares a restart of the group.
Place(p, i) ==
  /\ new' = [new EXCEPT ![p].hw = i]
  /\ free' = free \ HwMask(new'[p])
  /\ work' = work \ {p}
  /\ UNCHANGED <<plane, checking, scope, pending, dptsr_planes>>

Alloc(p) ==
  LET preferred == Positions(new[p].n, free \cap Associated(new[p].crtc))
      possible  == Positions(new[p].n, free)
  IN
  /\ checking /\ p \in work /\ \A q \in work : p <= q
  /\ \/ preferred # {} /\ Place(p, Last(preferred))
     \/ preferred = {} /\ possible # {} /\ Place(p, Last(possible))

\* No available hardware plane: the check fails, its states are dropped.
Fail(p) ==
  /\ checking /\ p \in work /\ \A q \in work : p <= q
  /\ Positions(new[p].n, free) = {}
  /\ checking' = FALSE
  /\ new' = plane /\ work' = {} /\ free' = {} /\ scope' = {}
  /\ UNCHANGED <<plane, pending, dptsr_planes>>

\* drm_atomic_helper_swap_state(), after the commits in progress on the same
\* CRTCs are done with the hardware.
Swap ==
  /\ checking /\ work = {}
  /\ scope \cap pending = {}
  /\ plane' = new
  /\ pending' = pending \cup scope
  /\ checking' = FALSE
  /\ free' = {} /\ scope' = {}
  /\ UNCHANGED <<new, work, dptsr_planes>>

\* The planes rcar_du_crtc_update_planes() enables for c.
HwPlanes(c) == UNION {HwMask(plane[p]) : p \in {q \in Planes : plane[q].n # 0 /\ plane[q].crtc = c}}

\* Mutant of Flush: the even CRTC takes no planes back.
FlushOddOnly(c) ==
  /\ c \in pending
  /\ pending' = pending \ {c}
  /\ dptsr_planes' = IF c % 2 = 1 THEN dptsr_planes \cup HwPlanes(c) ELSE dptsr_planes
  /\ UNCHANGED <<plane, check>>

Flush(c) ==
  /\ c \in pending
  /\ pending' = pending \ {c}
  /\ dptsr_planes' = IF c % 2 = 1 THEN dptsr_planes \cup HwPlanes(c)
                                 ELSE dptsr_planes \ HwPlanes(c)
  /\ UNCHANGED <<plane, check>>

Next ==
  \/ Check \/ Swap
  \/ \E p \in Planes : Alloc(p) \/ Fail(p)
  \/ \E c \in Crtcs : Flush(c)

Spec == Init /\ [][Next]_vars

--------------------------------------------------------------------------------
(* Properties *)

\* Two KMS planes never own the same hardware plane, in the current states and,
\* as allocation proceeds, in the new ones; and in the current states no visible
\* plane is without hardware planes and no other keeps any.
NoOverlapIn(states) ==
  \A p, q \in Planes : p # q => HwMask(states[p]) \cap HwMask(states[q]) = {}

NoOverlap ==
  /\ NoOverlapIn(plane) /\ NoOverlapIn(new)
  /\ \A p \in Planes : plane[p].n = 0 <=> plane[p].hw = -1

\* During a check the free planes are exactly those nobody owns in the new
\* states: none is leaked by planes being disabled or moved, so that a check
\* fails only for want of room.
FreeExact == checking => free = Hw \ UsedPlanes(new, {})

\* Once its commits are flushed, a CRTC scans out only planes associated with it,
\* whatever was allocated in the meantime for the other one.
AssociationExact ==
  \A c \in Crtcs \ pending : HwPlanes(c) \subseteq Associated(c)

\* Commits do not move a plane that keeps its number of hardware planes, whoever
\* else is reallocated in the group.
Stable ==
  [][\A p \in Planes :
       plane[p].n # 0 /\ plane'[p].n = plane[p].n => plane'[p].hw = plane[p].hw]_vars
===============================================================================
