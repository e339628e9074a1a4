-------------------------------- MODULE DuGroup --------------------------------
(***************************************************************************)
(* One group of the Display Unit: up to two CRTCs sharing start/stop bits, *)
(* plane registers and reference counts (rcar_du_group.c), driven by the   *)
(* CRTC handlers of atomic commits (rcar_du_crtc.c).                       *)
(*                                                                         *)
(* Commits are serialized here, the way blocking mode sets are by the DRM  *)
(* locks; GroupRace models concurrent ones.  A handler is one step.        *)
(***************************************************************************)
EXTENDS CommitTail, Integers, FiniteSets

CONSTANTS
  Hw,              \* hardware planes of the group
  VspModes,        \* whether to consider DUs with and without a VSP source
  TvmSync,         \* RCAR_DU_FEATURE_TVM_SYNC: stop selects switch sync mode
  InitDptsr,       \* planes the driver first gives to the odd CRTC
  MaxFail          \* bound: failing clk_prepare_enable() calls in a behaviour

ASSUME GroupAssumption ==
  /\ IsFiniteSet(Crtcs)
  /\ Hw \subseteq Nat
  /\ VspModes \subseteq BOOLEAN
  /\ TvmSync \in BOOLEAN
  /\ InitDptsr \subseteq Hw
  /\ MaxFail \in Nat
  /\ TRUE \in VspModes => {0, 2} \subseteq Hw

VARIABLES
  vsp_source,      \* RCAR_DU_FEATURE_VSP1_SOURCE: a VSP feeds a fixed plane
  hw,              \* hw[c]: hardware planes of the visible planes of c
  initialized,     \* CRTCs with rcrtc->initialized
  clock,           \* clock[c]: enable count of the functional and dot clocks
  fails,           \* clk_prepare_enable() calls that failed so far
  use_count,       \* rgrp->use_count
  used_crtcs,      \* rgrp->used_crtcs
  need_restart,    \* rgrp->need_restart
  dptsr_planes,    \* rgrp->dptsr_planes, and the DPTSR register
  running,         \* DSYSR of the group holds DEN (TRUE) or DRES (FALSE)
  latched,         \* the association in effect, updated only under DRES
  unlatched,       \* CRTCs whose plane source is written but not in effect
  master,          \* CRTCs in master sync mode (DSYSR.TVM)
  shown,           \* shown[c]: planes in DS1PR or DS2PR
  flicker          \* the group was restarted since the commit started

group == <<use_count, used_crtcs, need_restart, dptsr_planes, running, latched,
           unlatched, flicker>>
vars == <<tail, group, vsp_source, hw, initialized, clock, fails, master, shown>>

TypeOK ==
  /\ TailTypeOK
  /\ vsp_source \in VspModes
  /\ hw \in [Crtcs -> SUBSET Hw]
  /\ initialized \subseteq Crtcs
  /\ clock \in [Crtcs -> Int]
  /\ fails \in 0..MaxFail
  /\ use_count \in Int
  /\ used_crtcs \in Int
  /\ need_restart \in BOOLEAN
  /\ dptsr_planes \subseteq Hw
  /\ running \in BOOLEAN
  /\ latched \subseteq Hw
  /\ unlatched \subseteq Crtcs
  /\ master \subseteq Crtcs
  /\ shown \in [Crtcs -> SUBSET Hw]
  /\ flicker \in BOOLEAN

Odd(c) == c % 2 = 1

Init ==
  /\ TailInit
  /\ vsp_source \in VspModes
  /\ hw = [c \in Crtcs |-> {}]
  /\ initialized = {}
  /\ clock = [c \in Crtcs |-> 0]
  /\ fails = 0
  /\ use_count = 0
  /\ used_crtcs = 0
  /\ need_restart = FALSE
  /\ dptsr_planes = InitDptsr
  /\ running = FALSE
  /\ latched = InitDptsr
  /\ unlatched = {}
  /\ master = {}
  /\ shown = [c \in Crtcs |-> {}]
  /\ flicker = FALSE

--------------------------------------------------------------------------------
(* rcar_du_group.c *)

\* __rcar_du_group_start_stop(): DEN starts both CRTCs, DRES stops both.  The
\* registers updated under DRES, here the association, then take effect.
StartStop(start, association) ==
  /\ running' = start
  /\ latched' = association
  /\ unlatched' = {}

\* Mutant of GroupStart: only the first user of a group is counted.
GroupStartFirstOnly(written) ==
  /\ used_crtcs' = IF used_crtcs = 0 THEN 1 ELSE used_crtcs
  /\ StartStop(TRUE, dptsr_planes)
  /\ flicker' = (flicker \/ used_crtcs # 0)

\* rcar_du_group_start_stop(rgrp, true), with the plane sources of the CRTCs
\* `written' not in effect.  A group in use is restarted; one that a restart left
\* running without users is not, and what was written since stays without effect.
GroupStart(written) ==
  /\ used_crtcs' = used_crtcs + 1
  /\ flicker' = (flicker \/ used_crtcs # 0)
  /\ IF used_crtcs = 0 /\ running
     THEN running' = TRUE /\ latched' = latched /\ unlatched' = written
     ELSE StartStop(TRUE, dptsr_planes)

\* Mutant of GroupStop: post-decrement, the count is compared too early.
GroupStopPostDecrement ==
  /\ used_crtcs' = used_crtcs - 1
  /\ IF used_crtcs = 0
     THEN StartStop(FALSE, dptsr_planes)
     ELSE UNCHANGED <<running, latched, unlatched>>

\* rcar_du_group_start_stop(rgrp, false)
GroupStop ==
  /\ used_crtcs' = used_crtcs - 1
  /\ IF used_crtcs' = 0
     THEN StartStop(FALSE, dptsr_planes)
     ELSE UNCHANGED <<running, latched, unlatched>>

\* Mutants of GroupRestart: no stop before the start; the request is kept.
GroupRestartNoStop(association) ==
  /\ need_restart' = FALSE
  /\ running' = TRUE
  /\ flicker' = (flicker \/ running)
  /\ UNCHANGED <<latched, unlatched>>

GroupRestartKeepsRequest(association) ==
  /\ StartStop(TRUE, association)
  /\ flicker' = (flicker \/ running)
  /\ UNCHANGED need_restart

\* rcar_du_group_restart()
GroupRestart(association) ==
  /\ need_restart' = FALSE
  /\ StartStop(TRUE, association)
  /\ flicker' = (flicker \/ running)

--------------------------------------------------------------------------------
(* rcar_du_crtc.c *)

\* The CRTCs whose plane source is not in effect, once rcar_du_vsp_enable() has
\* written that of c.
SourceWritten(c) ==
  IF vsp_source /\ running THEN unlatched \cup {c} ELSE unlatched

\* Mutant of CrtcGet: the guard against a double get is gone.
CrtcGetUnguarded(c) ==
  /\ initialized' = initialized \cup {c}
  /\ clock' = [clock EXCEPT ![c] = @ + 1]
  /\ use_count' = use_count + 1
  /\ shown' = [shown EXCEPT ![c] = {}]
  /\ need_restart' = (need_restart \/ vsp_source)
  /\ unlatched' = SourceWritten(c)
  /\ UNCHANGED <<fails, used_crtcs, dptsr_planes, running, latched, flicker>>

\* rcar_du_crtc_get(): taken by begin and again by enable.  A clock that cannot
\* be enabled unwinds to the state before the call; both callers ignore the
\* error.  The first success sets the CRTC up: planes off, and on VSP systems
\* the plane source is written and a restart requested.
CrtcGet(c) ==
  \/ /\ c \in initialized
     /\ UNCHANGED <<group, initialized, clock, fails, shown>>
  \/ /\ c \notin initialized
     /\ fails < MaxFail
     /\ fails' = fails + 1
     /\ UNCHANGED <<group, initialized, clock, shown>>
  \/ /\ c \notin initialized
     /\ initialized' = initialized \cup {c}
     /\ clock' = [clock EXCEPT ![c] = @ + 1]
     /\ use_count' = use_count + 1
     /\ shown' = [shown EXCEPT ![c] = {}]
     /\ need_restart' = (need_restart \/ vsp_source)
     /\ unlatched' = SourceWritten(c)
     /\ UNCHANGED <<fails, used_crtcs, dptsr_planes, running, latched, flicker>>

\* rcar_du_crtc_put(): unconditional.
CrtcPut(c) ==
  /\ use_count' = use_count - 1
  /\ clock' = [clock EXCEPT ![c] = @ - 1]
  /\ initialized' = initialized \ {c}

\* rcar_du_crtc_atomic_disable(): stop (planes off, sync mode, group), then put.
AtomicDisable(c) ==
  /\ Handle("disable", c)
  /\ shown' = [shown EXCEPT ![c] = {}]
  /\ master' = IF TvmSync THEN master \ {c} ELSE master
  /\ GroupStop
  /\ CrtcPut(c)
  /\ UNCHANGED <<vsp_source, hw, fails, need_restart, dptsr_planes, flicker>>

AtomicBegin(c) ==
  /\ Handle("begin", c)
  /\ CrtcGet(c)
  /\ UNCHANGED <<vsp_source, hw, master>>

\* Mutant of ScanoutPlanes: the DSnPR value, which counts from 1, is the plane.
ScanoutPlanesFromOne(c) ==
  IF vsp_source THEN {IF Odd(c) THEN 3 ELSE 1} ELSE hw[c]

\* The hardware planes update_planes() enables for c: the planes the allocator
\* gave it, or the fixed plane of its VSP.
ScanoutPlanes(c) ==
  IF vsp_source THEN {IF Odd(c) THEN 2 ELSE 0} ELSE hw[c]

\* Mutant of Associate: the even CRTC takes no planes back.
AssociateOddOnly(c, P) == IF Odd(c) THEN dptsr_planes \cup P ELSE dptsr_planes

\* The association after giving c the planes P; planes of nobody keep theirs.
Associate(c, P) == IF Odd(c) THEN dptsr_planes \cup P ELSE dptsr_planes \ P

\* rcar_du_crtc_update_planes(), and so the state atomic_flush leaves here: a
\* changed association restarts a group in use, a requested restart any group.
UpdatePlanes(c) ==
  LET P == ScanoutPlanes(c) IN
  /\ dptsr_planes' = Associate(c, P)
  /\ \/ /\ need_restart \/ (dptsr_planes' # dptsr_planes /\ used_crtcs # 0)
        /\ GroupRestart(dptsr_planes')
     \/ /\ ~need_restart
        /\ dptsr_planes' = dptsr_planes \/ used_crtcs = 0
        /\ latched' = IF running THEN latched ELSE dptsr_planes'
        /\ UNCHANGED <<need_restart, running, unlatched, flicker>>
  /\ shown' = [shown EXCEPT ![c] = P]
  /\ UNCHANGED <<use_count, used_crtcs>>

AtomicFlush(c) ==
  /\ Handle("flush", c)
  /\ UpdatePlanes(c)
  /\ UNCHANGED <<vsp_source, hw, initialized, clock, fails, master>>

\* rcar_du_crtc_start(), after the get of atomic_enable has returned.
CrtcStart(c, written) ==
  /\ master' = master \cup {c}
  /\ GroupStart(written)
  /\ UNCHANGED dptsr_planes

\* rcar_du_crtc_atomic_enable().  The get is a no-op when begin succeeded; when
\* it failed enable tries again, and starts the CRTC whatever the outcome.
AtomicEnable(c) ==
  /\ Handle("enable", c)
  /\ c \in initialized
  /\ CrtcStart(c, unlatched)
  /\ UNCHANGED <<vsp_source, hw, initialized, clock, fails, use_count, need_restart, shown>>

AtomicEnableLateGet(c) ==
  /\ Handle("enable", c)
  /\ c \notin initialized
  /\ \/ /\ fails < MaxFail
        /\ fails' = fails + 1
        /\ CrtcStart(c, unlatched)
        /\ UNCHANGED <<initialized, clock, use_count, need_restart, shown>>
     \/ /\ initialized' = initialized \cup {c}
        /\ clock' = [clock EXCEPT ![c] = @ + 1]
        /\ shown' = [shown EXCEPT ![c] = {}]
        /\ use_count' = use_count + 1
        /\ need_restart' = (need_restart \/ vsp_source)
        /\ CrtcStart(c, SourceWritten(c))
        /\ UNCHANGED fails
  /\ UNCHANGED <<vsp_source, hw>>

--------------------------------------------------------------------------------
(* Atomic commits *)

\* What the plane allocator promises: CRTCs share no hardware plane.
Disjoint(h) == \A c, d \in Crtcs : c # d => h[c] \cap h[d] = {}

Commit ==
  \E S \in SUBSET Crtcs \ {{}}, M \in SUBSET Crtcs, A \in SUBSET Crtcs,
     h \in [Crtcs -> SUBSET Hw] :
    /\ StartCommit(S, M, A)
    /\ \A c \in Crtcs \ S : h[c] = hw[c]
    /\ Disjoint(h)
    /\ vsp_source => h = hw
    /\ hw' = h
    /\ flicker' = FALSE
    /\ UNCHANGED <<use_count, used_crtcs, need_restart, dptsr_planes, running,
                   latched, unlatched, vsp_source, initialized, clock, fails, master, shown>>

Advance == NextPhase /\ UNCHANGED <<group, vsp_source, hw, initialized, clock, fails, master, shown>>

Next ==
  \/ Commit
  \/ Advance
  \/ \E c \in Crtcs :
       \/ AtomicDisable(c)
       \/ AtomicBegin(c)
       \/ AtomicFlush(c)
       \/ AtomicEnable(c)
       \/ AtomicEnableLateGet(c)

Spec == Init /\ [][Next]_vars

--------------------------------------------------------------------------------
(* Properties *)

\* used_crtcs counts exactly the CRTCs that were started and not yet stopped, at
\* every step of a commit over any number of CRTCs, clock failures included.
\* (rcar_du_group_start_stop() trusts it to decide when to hold the group in reset.)
StartCount == used_crtcs = Cardinality(Started)

\* As long as no clock failed, the group references and the clocks are held by
\* exactly the CRTCs that begin acquired and disable has not released: the get
\* of atomic_enable never doubles that of atomic_begin, and every put has its get.
RefCount ==
  fails = 0 =>
    /\ initialized = Acquired
    /\ use_count = Cardinality(Acquired)
    /\ clock = [c \in Crtcs |-> IF c \in Acquired THEN 1 ELSE 0]

\* The group is out of reset only for a started CRTC, save from the flush of a
\* mode set to its enable: a requested restart starts the group before anyone
\* uses it.
RunningIffUsed ==
  stage \in {"idle", "disable", "begin"} => (running <=> Started # {})

\* A plane source written while the group runs takes effect only in reset: until
\* then the request to restart the group is pending, and unless a clock failed no
\* commit ends with it.
RestartNotLost ==
  /\ unlatched # {} => need_restart
  /\ stage = "idle" /\ fails = 0 => unlatched = {}

\* When no commit is in progress and no clock has failed, each active CRTC is in
\* master mode in a running group and scans out its own planes, with the
\* association of those planes in effect; an inactive CRTC scans out nothing.
ActiveDisplays ==
  (stage = "idle" /\ fails = 0) =>
    \A c \in Crtcs :
      IF c \in active
      THEN /\ running /\ c \in master
           /\ shown[c] = ScanoutPlanes(c)
           /\ \A p \in shown[c] : p \in latched <=> Odd(c)
      ELSE shown[c] = {}

\* A page flip on a VSP system never restarts the group, whatever mode sets came
\* before it, so it cannot disturb the other CRTC.
FlipNoFlicker == (vsp_source /\ modeset = {} /\ fails = 0) => ~flicker
===============================================================================
