----------------------------- MODULE DuGroup_proofs -----------------------------
(***************************************************************************)
(* Proofs about DuGroup, for any number of CRTCs and hardware planes, and  *)
(* about Routing, which the same groups do, for any set of its devices.    *)
(***************************************************************************)
EXTENDS DuGroup, Routing, CommitTail_proofs, FiniteSetTheorems

--------------------------------------------------------------------------------
(* The inductive invariant                                                   *)

\* RunningIffUsed between the flush of a mode set and its enable, when a restart
\* may have started the group before its first user: there will be one.
RunningInv ==
  /\ RunningIffUsed
  /\ stage \in {"flush", "enable"} /\ Started # {} => running
  /\ stage = "flush" /\ running => Started # {} \/ Flushed # {}
  /\ stage = "enable" /\ running => Started # {} \/ active # {}

\* RestartNotLost within a commit: without failures a restart is requested by the
\* begin handlers of a mode set, and served by the first flush handler.
RestartInv ==
  /\ unlatched # {} => need_restart
  /\ fails = 0 /\ need_restart =>
       /\ modeset # {}
       /\ \/ stage = "begin" /\ Wanted("begin") # {}
          \/ stage = "flush" /\ todo # {}

IInv ==
  /\ TypeOK
  /\ TailInv
  /\ StartCount
  /\ RefCount
  /\ RunningInv
  /\ RestartInv

--------------------------------------------------------------------------------
(* Lemmas                                                                    *)

\* Counting the CRTCs of a set as one joins or leaves it.
LEMMA CrtcCount ==
  ASSUME NEW S \in SUBSET Crtcs
  PROVE  /\ Cardinality(S) \in Nat
         /\ Cardinality(S) = 0 <=> S = {}
         /\ \A c : c \notin S => Cardinality(S \cup {c}) = Cardinality(S) + 1
         /\ \A c : c \in S => Cardinality(S \ {c}) = Cardinality(S) - 1
<1>1. IsFiniteSet(S)
  BY FS_Subset, GroupAssumption
<1>2. Cardinality(S) \in Nat /\ (Cardinality(S) = 0 <=> S = {})
  BY <1>1, FS_CardinalityType, FS_EmptySet
<1>3. ASSUME NEW c, c \notin S PROVE Cardinality(S \cup {c}) = Cardinality(S) + 1
  BY <1>1, <1>3, FS_AddElement
<1>4. ASSUME NEW c, c \in S PROVE Cardinality(S \ {c}) = Cardinality(S) - 1
  BY <1>1, <1>4, FS_RemoveElement
<1> QED  BY <1>2, <1>3, <1>4

\* The planes a CRTC scans out are planes of the group.
LEMMA ScanoutPlanesType ==
  ASSUME TypeOK, NEW c \in Crtcs
  PROVE  ScanoutPlanes(c) \subseteq Hw
BY GroupAssumption DEF TypeOK, ScanoutPlanes

\* Nothing but a disable or enable handler changes what the parts of the
\* invariant about starting say, and nothing but a begin handler, a disable or a
\* late get what the part about references says.
LEMMA CountsUnchanged ==
  ASSUME StartCount, RefCount, TailInv,
         Started' = Started, Acquired' = Acquired, fails' = fails,
         UNCHANGED <<used_crtcs, use_count, initialized, clock>>
  PROVE  StartCount' /\ RefCount'
BY DEF StartCount, RefCount

--------------------------------------------------------------------------------
(* Each action preserves the invariant                                       *)

\* A new commit touches no counter: what was started and acquired still is.
LEMMA CommitPreserves ==
  ASSUME IInv, Commit
  PROVE  IInv'
<1>1. PICK S \in SUBSET Crtcs, M \in SUBSET Crtcs, A \in SUBSET Crtcs :
        StartCommit(S, M, A)
  BY DEF Commit
<1>2. /\ UNCHANGED <<use_count, used_crtcs, need_restart, dptsr_planes, running,
                     latched, unlatched, vsp_source, initialized, clock, fails, master, shown>>
      /\ hw' \in [Crtcs -> SUBSET Hw]
      /\ flicker' = FALSE
  BY DEF Commit
<1>3. TailInv' /\ Started' = Started /\ Acquired' = Acquired /\ Flushed' = Flushed
  BY <1>1, TailStart DEF IInv
<1>4. TypeOK'
  BY <1>2, <1>3 DEF IInv, TypeOK, TailInv
<1>5. StartCount' /\ RefCount'
  BY <1>2, <1>3, CountsUnchanged DEF IInv
<1>6. RunningInv'
  BY <1>1, <1>2, <1>3 DEF IInv, RunningInv, RunningIffUsed, StartCommit
<1>7. RestartInv'
  BY <1>1, <1>2 DEF IInv, RestartInv, StartCommit
<1> QED  BY <1>3, <1>4, <1>5, <1>6, <1>7 DEF IInv

\* Nor does the end of a phase; a group restarted before its first user has one
\* when the commit ends.
LEMMA AdvancePreserves ==
  ASSUME IInv, Advance
  PROVE  IInv'
<1>1. /\ NextPhase
      /\ UNCHANGED <<use_count, used_crtcs, need_restart, dptsr_planes, running,
                     latched, unlatched, flicker, vsp_source, hw, initialized, clock,
                     fails, master, shown>>
  BY DEF Advance, group
<1>2. /\ TailInv'
      /\ Started' = Started /\ Acquired' = Acquired
      /\ stage # "enable" => Flushed' = Flushed
      /\ stage = "enable" => Started = active
  BY <1>1, TailNextPhase DEF IInv
<1>3. TypeOK'
  BY <1>1, <1>2 DEF IInv, TypeOK, TailInv
<1>4. StartCount' /\ RefCount'
  BY <1>1, <1>2, CountsUnchanged DEF IInv
<1>5. stage \in Phases
  BY <1>1 DEF NextPhase, IInv, TailInv, TailTypeOK
<1>6. RunningInv'
  <2>1. CASE stage = "enable"
    <3>1. stage' = "idle" /\ active' = active
      BY <1>1, <2>1 DEF NextPhase, Following
    <3> QED  BY <1>1, <1>2, <2>1, <3>1 DEF IInv, RunningInv, RunningIffUsed
  <2>2. CASE stage = "flush"
    <3>1. stage' = "enable" /\ active' = active
      BY <1>1, <2>2 DEF NextPhase, Following
    <3>2. Flushed \subseteq active
      BY <2>2 DEF Flushed, Wanted
    <3> QED  BY <1>1, <1>2, <2>2, <3>1, <3>2 DEF IInv, RunningInv, RunningIffUsed
  <2>3. CASE stage \in {"disable", "begin"}
    BY <1>1, <1>2, <2>3 DEF IInv, RunningInv, RunningIffUsed, NextPhase, Following
  <2> QED  BY <1>5, <2>1, <2>2, <2>3 DEF Phases
<1>7. RestartInv'
  <2>1. stage = "begin" => stage' = "flush" /\ todo' = Wanted("begin")
    BY <1>1 DEF NextPhase, Following, Wanted
  <2> QED  BY <1>1, <2>1 DEF IInv, RestartInv, NextPhase
<1> QED  BY <1>2, <1>3, <1>4, <1>6, <1>7 DEF IInv

\* The group is stopped with its last user, and only then.
LEMMA AtomicDisablePreserves ==
  ASSUME IInv, NEW c \in Crtcs, AtomicDisable(c)
  PROVE  IInv'
<1>1. Handle("disable", c) /\ stage = "disable" /\ stage' = "disable"
  BY DEF AtomicDisable, Handle
<1>2. /\ TailInv'
      /\ c \in Started /\ Started' = Started \ {c}
      /\ c \in Acquired /\ Acquired' = Acquired \ {c}
      /\ Started \subseteq Crtcs /\ Acquired \subseteq Crtcs
  BY <1>1, TailDisable, TailSubsets DEF IInv
<1>3. TypeOK'
  <2>1. /\ initialized' \subseteq Crtcs
        /\ clock' \in [Crtcs -> Int]
        /\ shown' \in [Crtcs -> SUBSET Hw]
        /\ use_count' \in Int
    BY DEF IInv, TypeOK, AtomicDisable, CrtcPut
  <2>2. used_crtcs' \in Int /\ master' \subseteq Crtcs
    BY DEF IInv, TypeOK, AtomicDisable, GroupStop
  <2>3. running' \in BOOLEAN /\ latched' \subseteq Hw /\ unlatched' \subseteq Crtcs
    <3>1. \/ running' = FALSE /\ latched' = dptsr_planes /\ unlatched' = {}
          \/ UNCHANGED <<running, latched, unlatched>>
      BY DEF AtomicDisable, GroupStop, StartStop
    <3> QED  BY <3>1 DEF IInv, TypeOK
  <2> QED  BY <1>2, <2>1, <2>2, <2>3 DEF IInv, TypeOK, TailInv, AtomicDisable
<1>4. Started' \subseteq Crtcs
  BY <1>2
<1>5. used_crtcs' = Cardinality(Started')
  BY <1>2, CrtcCount DEF IInv, StartCount, AtomicDisable, GroupStop
<1>6. used_crtcs' = 0 <=> Started' = {}
  BY <1>4, <1>5, CrtcCount
<1>7. RefCount'
  <2> SUFFICES ASSUME fails' = 0
               PROVE  /\ initialized' = Acquired'
                      /\ use_count' = Cardinality(Acquired')
                      /\ clock' = [d \in Crtcs |-> IF d \in Acquired' THEN 1 ELSE 0]
    BY DEF RefCount
  <2>1. /\ initialized = Acquired /\ use_count = Cardinality(Acquired)
        /\ clock = [d \in Crtcs |-> IF d \in Acquired THEN 1 ELSE 0]
    BY DEF IInv, RefCount, AtomicDisable
  <2>2. /\ initialized' = initialized \ {c}
        /\ clock' = [clock EXCEPT ![c] = @ - 1]
        /\ use_count' = use_count - 1
    BY DEF AtomicDisable, CrtcPut
  <2>3. clock' = [d \in Crtcs |-> IF d \in Acquired' THEN 1 ELSE 0]
    BY <1>2, <2>1, <2>2
  <2>4. use_count' = Cardinality(Acquired')
    BY <1>2, <2>1, <2>2, CrtcCount
  <2> QED  BY <1>2, <2>1, <2>2, <2>3, <2>4
<1>8. RunningInv'
  BY <1>1, <1>2, <1>6 DEF IInv, RunningInv, RunningIffUsed, AtomicDisable, GroupStop, StartStop
<1>9. RestartInv'
  BY <1>1 DEF IInv, RestartInv, AtomicDisable, GroupStop, StartStop
<1> QED  BY <1>2, <1>3, <1>5, <1>7, <1>8, <1>9 DEF IInv, StartCount

\* A get starts nothing; without failures it is a no-op for an acquired CRTC and
\* acquires any other.
LEMMA AtomicBeginPreserves ==
  ASSUME IInv, NEW c \in Crtcs, AtomicBegin(c)
  PROVE  IInv'
<1>1. Handle("begin", c) /\ stage = "begin" /\ stage' = "begin"
  BY DEF AtomicBegin, Handle
<1>2. /\ TailInv'
      /\ Started' = Started /\ Acquired' = Acquired \cup {c}
      /\ Acquired \subseteq Crtcs
      /\ c \notin Acquired => c \in modeset
  BY <1>1, TailBegin, TailSubsets DEF IInv
<1>3. UNCHANGED <<used_crtcs, running>>
  BY DEF AtomicBegin, CrtcGet, group
<1>4. TypeOK'
  <2>1. /\ initialized' \subseteq Crtcs
        /\ clock' \in [Crtcs -> Int]
        /\ shown' \in [Crtcs -> SUBSET Hw]
    BY DEF IInv, TypeOK, AtomicBegin, CrtcGet
  <2>2. fails' \in 0..MaxFail
    BY GroupAssumption DEF IInv, TypeOK, AtomicBegin, CrtcGet
  <2>3. /\ use_count' \in Int /\ need_restart' \in BOOLEAN /\ unlatched' \subseteq Crtcs
        /\ UNCHANGED <<dptsr_planes, latched, flicker>>
    BY GroupAssumption DEF IInv, TypeOK, AtomicBegin, CrtcGet, SourceWritten, group
  <2> QED  BY <1>2, <1>3, <2>1, <2>2, <2>3 DEF IInv, TypeOK, TailInv, AtomicBegin
<1>5. StartCount'
  BY <1>2, <1>3 DEF IInv, StartCount
<1>6. RefCount'
  <2> SUFFICES ASSUME fails' = 0
               PROVE  /\ initialized' = Acquired'
                      /\ use_count' = Cardinality(Acquired')
                      /\ clock' = [d \in Crtcs |-> IF d \in Acquired' THEN 1 ELSE 0]
    BY DEF RefCount
  <2>1. fails = 0
    BY DEF AtomicBegin, CrtcGet, IInv, TypeOK
  <2>2. initialized = Acquired
    BY <2>1 DEF IInv, RefCount
  <2>3. CASE c \in Acquired
    BY <1>2, <2>1, <2>2, <2>3 DEF IInv, RefCount, AtomicBegin, CrtcGet, group
  <2>4. CASE c \notin Acquired
    <3>1. /\ initialized' = initialized \cup {c}
          /\ clock' = [clock EXCEPT ![c] = @ + 1]
          /\ use_count' = use_count + 1
      BY <2>1, <2>2, <2>4 DEF AtomicBegin, CrtcGet, IInv, TypeOK
    <3>2. use_count = Cardinality(Acquired)
      BY <2>1 DEF IInv, RefCount
    <3>3. clock = [d \in Crtcs |-> IF d \in Acquired THEN 1 ELSE 0]
      BY <2>1 DEF IInv, RefCount
    <3>4. clock' = [d \in Crtcs |-> IF d \in Acquired' THEN 1 ELSE 0]
      BY <1>2, <2>4, <3>1, <3>3
    <3>5. use_count' = Cardinality(Acquired')
      BY <1>2, <2>4, <3>1, <3>2, CrtcCount
    <3> QED  BY <1>2, <2>2, <3>1, <3>4, <3>5
  <2> QED  BY <2>3, <2>4
<1>7. RunningInv'
  BY <1>1, <1>2, <1>3 DEF IInv, RunningInv, RunningIffUsed
<1>8. RestartInv'
  <2>1. Wanted("begin")' # {} /\ modeset' = modeset
    BY <1>1 DEF IInv, TailInv, Handle, Wanted
  <2>2. unlatched' # {} => need_restart'
    BY DEF IInv, RestartInv, TypeOK, AtomicBegin, CrtcGet, SourceWritten, group
  <2>3. fails' = 0 => fails = 0
    BY DEF AtomicBegin, CrtcGet, IInv, TypeOK
  <2>4. fails' = 0 /\ need_restart' => need_restart \/ c \notin initialized
    BY DEF AtomicBegin, CrtcGet, group
  <2>5. fails' = 0 /\ need_restart' => modeset # {}
    BY <1>2, <2>3, <2>4 DEF IInv, RestartInv, RefCount
  <2> QED  BY <1>1, <2>1, <2>2, <2>5 DEF RestartInv
<1> QED  BY <1>2, <1>4, <1>5, <1>6, <1>7, <1>8 DEF IInv

\* A restart leaves no plane source out of effect, and if it starts a group
\* without users the flushed CRTC is about to use it.
LEMMA AtomicFlushPreserves ==
  ASSUME IInv, NEW c \in Crtcs, AtomicFlush(c)
  PROVE  IInv'
<1>1. Handle("flush", c) /\ stage = "flush" /\ stage' = "flush" /\ active' = active
  BY DEF AtomicFlush, Handle
<1>2. /\ TailInv' /\ Started' = Started /\ Acquired' = Acquired
      /\ Flushed' = Flushed \cup {c}
  BY <1>1, TailFlush DEF IInv
<1>3. UNCHANGED <<vsp_source, hw, initialized, clock, fails, master, use_count, used_crtcs>>
  BY DEF AtomicFlush, UpdatePlanes
<1>4. TypeOK'
  <2>1. dptsr_planes' \subseteq Hw
    BY ScanoutPlanesType DEF IInv, TypeOK, AtomicFlush, UpdatePlanes, Associate
  <2>2. shown' \in [Crtcs -> SUBSET Hw]
    BY ScanoutPlanesType DEF IInv, TypeOK, AtomicFlush, UpdatePlanes
  <2>3. /\ need_restart' \in BOOLEAN /\ running' \in BOOLEAN /\ flicker' \in BOOLEAN
        /\ latched' \subseteq Hw /\ unlatched' \subseteq Crtcs
    BY <2>1 DEF IInv, TypeOK, AtomicFlush, UpdatePlanes, GroupRestart, StartStop
  <2> QED  BY <1>2, <1>3, <2>1, <2>2, <2>3 DEF IInv, TypeOK, TailInv
<1>5. StartCount' /\ RefCount'
  BY <1>2, <1>3, CountsUnchanged DEF IInv
<1>6. RunningInv'
  <2>1. running' \in {TRUE, running}
    BY DEF AtomicFlush, UpdatePlanes, GroupRestart, StartStop
  <2> QED  BY <1>1, <1>2, <2>1 DEF IInv, TypeOK, RunningInv, RunningIffUsed
<1>7. RestartInv'
  <2>1. unlatched' = {} /\ need_restart' = FALSE
    BY DEF IInv, TypeOK, RestartInv, AtomicFlush, UpdatePlanes, GroupRestart, StartStop
  <2> QED  BY <1>1, <2>1 DEF RestartInv
<1> QED  BY <1>2, <1>4, <1>5, <1>6, <1>7 DEF IInv

\* What both forms of the enable handler do: the CRTC is started and counted, and
\* the group runs.
LEMMA EnablePreserves ==
  ASSUME IInv, NEW c \in Crtcs, Handle("enable", c),
         NEW written, CrtcStart(c, written)
  PROVE  /\ TailInv' /\ StartCount' /\ RunningInv'
         /\ latched' \in {latched, dptsr_planes}
         /\ unlatched' \subseteq written
<1>1. stage = "enable" /\ stage' = "enable"
  BY DEF Handle
<1>2. TailInv' /\ c \notin Started /\ Started' = Started \cup {c} /\ Started \subseteq Crtcs
  BY TailEnable, TailSubsets DEF IInv
<1>3. used_crtcs' = used_crtcs + 1 /\ running' = TRUE
  BY DEF CrtcStart, GroupStart, StartStop
<1>4. StartCount'
  BY <1>2, <1>3, CrtcCount DEF IInv, StartCount
<1>5. RunningInv'
  BY <1>1, <1>2, <1>3 DEF RunningInv, RunningIffUsed
<1>6. latched' \in {latched, dptsr_planes} /\ unlatched' \subseteq written
  BY DEF CrtcStart, GroupStart, StartStop
<1> QED  BY <1>2, <1>4, <1>5, <1>6

\* The typing of what both forms change.
LEMMA EnableTypes ==
  ASSUME TypeOK, NEW c \in Crtcs, NEW written, CrtcStart(c, written),
         latched' \in {latched, dptsr_planes}
  PROVE  /\ used_crtcs' \in Int /\ running' \in BOOLEAN /\ flicker' \in BOOLEAN
         /\ master' \subseteq Crtcs /\ latched' \subseteq Hw /\ dptsr_planes' \subseteq Hw
<1>1. used_crtcs' \in Int
  BY DEF TypeOK, CrtcStart, GroupStart
<1>2. running' \in BOOLEAN /\ flicker' \in BOOLEAN
  <2>1. running' = TRUE /\ flicker' = (flicker \/ used_crtcs # 0)
    BY DEF CrtcStart, GroupStart, StartStop
  <2> QED  BY <2>1
<1>3. master' \subseteq Crtcs /\ latched' \subseteq Hw /\ dptsr_planes' \subseteq Hw
  BY DEF TypeOK, CrtcStart
<1> QED  BY <1>1, <1>2, <1>3

\* The enable handler whose get is a no-op.
LEMMA AtomicEnablePreserves ==
  ASSUME IInv, NEW c \in Crtcs, AtomicEnable(c)
  PROVE  IInv'
<1>1. /\ Handle("enable", c) /\ CrtcStart(c, unlatched)
      /\ UNCHANGED <<vsp_source, hw, initialized, clock, fails, use_count, need_restart, shown>>
  BY DEF AtomicEnable
<1>2. /\ TailInv' /\ StartCount' /\ RunningInv'
      /\ latched' \in {latched, dptsr_planes}
      /\ unlatched' \subseteq unlatched
  BY <1>1, EnablePreserves
<1>3. TypeOK'
  BY <1>1, <1>2, EnableTypes DEF IInv, TypeOK, TailInv
<1>4. RefCount'
  BY <1>1, TailEnable DEF IInv, RefCount
<1>5. RestartInv'
  BY <1>1, <1>2 DEF IInv, RestartInv, Handle
<1> QED  BY <1>2, <1>3, <1>4, <1>5 DEF IInv

\* A late get happens only after a failed one.
LEMMA AtomicEnableLateGetPreserves ==
  ASSUME IInv, NEW c \in Crtcs, AtomicEnableLateGet(c)
  PROVE  IInv'
<1>1. Handle("enable", c) /\ c \notin initialized /\ UNCHANGED <<vsp_source, hw>>
  BY DEF AtomicEnableLateGet
<1>2. PICK written \in {unlatched, SourceWritten(c)} :
        /\ CrtcStart(c, written)
        /\ \/ /\ UNCHANGED <<initialized, clock, shown, use_count, need_restart>>
              /\ written = unlatched
              /\ fails < MaxFail /\ fails' = fails + 1
           \/ /\ initialized' = initialized \cup {c}
              /\ clock' = [clock EXCEPT ![c] = @ + 1]
              /\ shown' = [shown EXCEPT ![c] = {}]
              /\ use_count' = use_count + 1
              /\ need_restart' = (need_restart \/ vsp_source)
              /\ fails' = fails
  BY DEF AtomicEnableLateGet
<1>3. /\ TailInv' /\ StartCount' /\ RunningInv'
      /\ latched' \in {latched, dptsr_planes}
      /\ unlatched' \subseteq written
  BY <1>1, <1>2, EnablePreserves
<1>4. TypeOK'
  <2>1. /\ initialized' \subseteq Crtcs
        /\ clock' \in [Crtcs -> Int]
        /\ shown' \in [Crtcs -> SUBSET Hw]
        /\ use_count' \in Int
    BY <1>2 DEF IInv, TypeOK
  <2>2. fails' \in 0..MaxFail
    BY <1>2, GroupAssumption DEF IInv, TypeOK
  <2>3. need_restart' \in BOOLEAN
    BY <1>2 DEF IInv, TypeOK
  <2>4. unlatched' \subseteq Crtcs
    BY <1>3 DEF IInv, TypeOK, SourceWritten
  <2> QED
    BY <1>1, <1>2, <1>3, <2>1, <2>2, <2>3, <2>4, EnableTypes DEF IInv, TypeOK, TailInv
<1>5. fails' # 0
  <2>1. c \in Acquired
    BY <1>1, TailEnable DEF IInv
  <2>2. fails # 0
    BY <1>1, <2>1 DEF IInv, RefCount
  <2> QED  BY <1>2, <2>2, GroupAssumption DEF IInv, TypeOK
<1>6. RefCount'
  BY <1>5 DEF RefCount
<1>7. unlatched' # {} => need_restart'
  BY <1>2, <1>3 DEF IInv, TypeOK, RestartInv, SourceWritten
<1>8. RestartInv'
  BY <1>5, <1>7 DEF RestartInv
<1> QED  BY <1>3, <1>4, <1>6, <1>8 DEF IInv

\* Steps that change nothing.
LEMMA StutterPreserves ==
  ASSUME IInv, UNCHANGED vars
  PROVE  IInv'
<1>1. UNCHANGED <<tail, use_count, used_crtcs, need_restart, dptsr_planes, running,
                  latched, unlatched, flicker, vsp_source, hw, initialized, clock,
                  fails, master, shown>>
  BY DEF vars, group
<1>2. TailInv' /\ Started' = Started /\ Acquired' = Acquired /\ Flushed' = Flushed
  BY <1>1, TailStutter DEF IInv
<1>3. TypeOK'
  BY <1>1, <1>2 DEF IInv, TypeOK, TailInv
<1>4. StartCount' /\ RefCount'
  BY <1>1, <1>2, CountsUnchanged DEF IInv
<1>5. RunningInv' /\ RestartInv'
  BY <1>1, <1>2 DEF IInv, RunningInv, RunningIffUsed, RestartInv, tail, Wanted
<1> QED  BY <1>2, <1>3, <1>4, <1>5 DEF IInv

--------------------------------------------------------------------------------
(* Theorems about the counters                                              *)

\* The group starts stopped, without users or references.
LEMMA InitIInv == Init => IInv
<1> SUFFICES ASSUME Init PROVE IInv
  OBVIOUS
<1>1. TailInv /\ Started = {} /\ Acquired = {}
  BY TailInitial DEF Init
<1>2. TypeOK
  <2>1. hw \in [Crtcs -> SUBSET Hw] /\ shown \in [Crtcs -> SUBSET Hw]
    BY DEF Init
  <2>2. clock \in [Crtcs -> Int] /\ fails \in 0..MaxFail
    BY GroupAssumption DEF Init
  <2>3. vsp_source \in VspModes /\ dptsr_planes \subseteq Hw /\ latched \subseteq Hw
    BY GroupAssumption DEF Init
  <2>4. /\ initialized = {} /\ unlatched = {} /\ master = {}
        /\ use_count \in Int /\ used_crtcs \in Int
    BY DEF Init
  <2>5. need_restart \in BOOLEAN /\ running \in BOOLEAN /\ flicker \in BOOLEAN
    BY DEF Init
  <2> QED  BY <1>1, <2>1, <2>2, <2>3, <2>4, <2>5 DEF TypeOK, TailInv
<1>3. StartCount /\ RefCount
  BY <1>1, FS_EmptySet DEF Init, StartCount, RefCount
<1>4. RunningInv /\ RestartInv
  BY <1>1 DEF Init, TailInit, RunningInv, RunningIffUsed, RestartInv
<1> QED  BY <1>1, <1>2, <1>3, <1>4 DEF IInv

\* IInv is inductive.
LEMMA NextIInv == IInv /\ [Next]_vars => IInv'
<1> SUFFICES ASSUME IInv, [Next]_vars PROVE IInv'
  OBVIOUS
<1>1. CASE Commit
  BY <1>1, CommitPreserves
<1>2. CASE Advance
  BY <1>2, AdvancePreserves
<1>3. ASSUME NEW c \in Crtcs, AtomicDisable(c) PROVE IInv'
  BY <1>3, AtomicDisablePreserves
<1>4. ASSUME NEW c \in Crtcs, AtomicBegin(c) PROVE IInv'
  BY <1>4, AtomicBeginPreserves
<1>5. ASSUME NEW c \in Crtcs, AtomicFlush(c) PROVE IInv'
  BY <1>5, AtomicFlushPreserves
<1>6. ASSUME NEW c \in Crtcs, AtomicEnable(c) PROVE IInv'
  BY <1>6, AtomicEnablePreserves
<1>7. ASSUME NEW c \in Crtcs, AtomicEnableLateGet(c) PROVE IInv'
  BY <1>7, AtomicEnableLateGetPreserves
<1>8. CASE UNCHANGED vars
  BY <1>8, StutterPreserves
<1> QED  BY <1>1, <1>2, <1>3, <1>4, <1>5, <1>6, <1>7, <1>8 DEF Next

\* The inductive invariant of the counters and the running state of a group.
THEOREM Invariance == Spec => []IInv
BY InitIInv, NextIInv, PTL DEF Spec

\* Type correctness of the group, its CRTCs and the commit in progress.
THEOREM TypeCorrect == Spec => []TypeOK
<1>1. IInv => TypeOK
  BY DEF IInv
<1> QED  BY <1>1, Invariance, PTL

\* rgrp->used_crtcs counts the started CRTCs, whatever clk_prepare_enable() does.
THEOREM StartCountExact == Spec => []StartCount
<1>1. IInv => StartCount
  BY DEF IInv
<1> QED  BY <1>1, Invariance, PTL

\* Until a clock fails, rcar_du_crtc_get() and put() are balanced: one reference
\* and one clock enable for each acquired CRTC, none for any other.
THEOREM ReferencesBalanced == Spec => []RefCount
<1>1. IInv => RefCount
  BY DEF IInv
<1> QED  BY <1>1, Invariance, PTL

\* The group is out of reset exactly while a CRTC is started, outside the window
\* between the flush and the enable of a mode set.
THEOREM RunsForItsUsers == Spec => []RunningIffUsed
<1>1. IInv => RunningIffUsed
  BY DEF IInv, RunningInv
<1> QED  BY <1>1, Invariance, PTL

\* No plane source change misses the restart it needs.
THEOREM RestartsServed == Spec => []RestartNotLost
<1>1. IInv => RestartNotLost
  BY DEF IInv, RestartInv, RestartNotLost
<1> QED  BY <1>1, Invariance, PTL

--------------------------------------------------------------------------------
(* What the CRTCs of the group display: an invariant relative to the first  *)

\* CRTCs whose planes may be on, ...
Settled == Started \cup Flushed

\* ... and those that show what the current plane states say: all but the CRTCs
\* of the commit in progress that were not flushed yet.
Fresh == IF stage = "idle" THEN active ELSE Flushed \cup (Started \ scope)

\* An association that a flush changed in a group running without users is not
\* in effect yet; a second enable handler is to come and will restart the group.
Stale ==
  /\ running
  /\ \/ /\ stage \in {"flush", "enable"}
        /\ Started = {}
        /\ \E c, d \in Wanted("enable") : c # d
     \/ stage = "enable" /\ Started # {} /\ todo # {}

LatchedInv == latched = dptsr_planes \/ Stale

\* On VSP systems the association of a CRTC is fixed by its first flush.
AssociationInv ==
  vsp_source => \A c \in Settled : Associate(c, ScanoutPlanes(c)) = dptsr_planes

PlanesInv ==
  fails = 0 =>
    /\ \A c \in Crtcs \ Settled : shown[c] = {}
    /\ \A c \in Fresh : /\ shown[c] = ScanoutPlanes(c)
                        /\ \A p \in shown[c] : p \in dptsr_planes <=> Odd(c)

DInv ==
  /\ Started \subseteq master
  /\ Disjoint(hw)
  /\ LatchedInv
  /\ AssociationInv
  /\ PlanesInv
  /\ FlipNoFlicker

--------------------------------------------------------------------------------
(* Lemmas about what is displayed                                           *)

\* CRTCs of different parity scan out different planes; those of the same parity
\* may only share the plane of a VSP.
LEMMA ScanoutPlanesApart ==
  ASSUME Disjoint(hw), NEW c \in Crtcs, NEW d \in Crtcs, c # d,
         NEW p \in ScanoutPlanes(c), p \in ScanoutPlanes(d)
  PROVE  Odd(c) <=> Odd(d)
<1>1. CASE vsp_source
  BY <1>1 DEF ScanoutPlanes
<1>2. CASE ~vsp_source
  BY <1>2 DEF ScanoutPlanes, Disjoint
<1> QED  BY <1>1, <1>2

\* On VSP systems an association, once set, is kept by those that follow.
LEMMA AssociationsAgree ==
  ASSUME vsp_source, NEW c, NEW d,
         Associate(d, ScanoutPlanes(d)) = dptsr_planes,
         dptsr_planes' = Associate(c, ScanoutPlanes(c)),
         UNCHANGED vsp_source
  PROVE  Associate(d, ScanoutPlanes(d))' = dptsr_planes'
<1>1. CASE Odd(c)
  BY <1>1 DEF Associate, ScanoutPlanes
<1>2. CASE ~Odd(c)
  BY <1>2 DEF Associate, ScanoutPlanes
<1> QED  BY <1>1, <1>2

\* What an association of its own planes means for a CRTC.
LEMMA AssociateOwn ==
  ASSUME NEW c, NEW P, NEW p \in P
  PROVE  p \in Associate(c, P) <=> Odd(c)
BY DEF Associate

--------------------------------------------------------------------------------
(* Each action preserves what is displayed                                  *)

\* A new commit makes no CRTC stale but those in its scope.
LEMMA CommitKeepsDisplay ==
  ASSUME IInv, DInv, Commit
  PROVE  DInv'
<1>1. PICK S \in SUBSET Crtcs, M \in SUBSET Crtcs, A \in SUBSET Crtcs,
           h \in [Crtcs -> SUBSET Hw] :
        /\ StartCommit(S, M, A)
        /\ \A c \in Crtcs \ S : h[c] = hw[c]
        /\ Disjoint(h)
        /\ hw' = h
  BY DEF Commit
<1>2. /\ UNCHANGED <<used_crtcs, dptsr_planes, running, latched, vsp_source, fails, master, shown>>
      /\ flicker' = FALSE
  BY DEF Commit
<1>3. /\ Started' = Started /\ Flushed' = Flushed
      /\ Started' \subseteq Crtcs
  BY <1>1, TailStart, TailSubsets DEF IInv
<1>4. stage = "idle" /\ stage' = "disable" /\ scope' = S /\ Started = active /\ Flushed = {}
  BY <1>1 DEF StartCommit, Started, Flushed
<1>5. Started' \subseteq master' /\ Disjoint(hw)'
  BY <1>1, <1>2, <1>3 DEF DInv, Disjoint
<1>6. LatchedInv'
  BY <1>2, <1>4 DEF DInv, LatchedInv, Stale
<1>7. AssociationInv'
  BY <1>2, <1>3 DEF DInv, AssociationInv, Settled, Associate, ScanoutPlanes
<1>8. PlanesInv'
  <2>1. Settled' = Settled
    BY <1>3 DEF Settled
  <2>2. Fresh' = active \ S /\ Fresh = active
    BY <1>3, <1>4 DEF Fresh
  <2>3. ASSUME NEW c \in Fresh' PROVE ScanoutPlanes(c)' = ScanoutPlanes(c) /\ c \in Fresh
    BY <1>1, <1>2, <1>3, <1>4, <2>2, <2>3 DEF ScanoutPlanes
  <2> QED  BY <1>2, <2>1, <2>3 DEF DInv, PlanesInv
<1>9. FlipNoFlicker'
  BY <1>2 DEF FlipNoFlicker
<1> QED  BY <1>5, <1>6, <1>7, <1>8, <1>9 DEF DInv

\* Once a phase has handled all its CRTCs, what it settles is settled.
LEMMA AdvanceKeepsDisplay ==
  ASSUME IInv, DInv, Advance
  PROVE  DInv'
<1>1. /\ NextPhase
      /\ UNCHANGED <<used_crtcs, dptsr_planes, running, latched, flicker, vsp_source, hw,
                     fails, master, shown>>
  BY DEF Advance, group
<1>2. /\ Started' = Started
      /\ stage # "enable" => Flushed' = Flushed
      /\ stage = "enable" => Started = active /\ Flushed = scope \cap active
  BY <1>1, TailNextPhase DEF IInv
<1>3. stage \in Phases
  BY <1>1 DEF NextPhase, IInv, TailInv, TailTypeOK
<1>4. Started' \subseteq master' /\ Disjoint(hw)'
  BY <1>1, <1>2 DEF DInv, Disjoint
<1>5. LatchedInv'
  <2>1. CASE stage = "enable"
    <3>1. todo = {}
      BY <1>1 DEF NextPhase
    <3>2. Started = {} => Wanted("enable") = {}
      BY <2>1, <3>1 DEF Started, Enabled
    <3> QED  BY <1>1, <2>1, <3>1, <3>2 DEF DInv, LatchedInv, Stale
  <2>2. CASE stage = "flush"
    <3>1. stage' = "enable" /\ Wanted("enable")' = Wanted("enable")
      BY <1>1, <2>2 DEF NextPhase, Following, Wanted
    <3> QED  BY <1>1, <1>2, <2>2, <3>1 DEF DInv, LatchedInv, Stale
  <2>3. CASE stage \in {"disable", "begin"}
    BY <1>1, <2>3 DEF DInv, LatchedInv, Stale
  <2> QED  BY <1>3, <2>1, <2>2, <2>3 DEF Phases
<1>6. Settled' = Settled
  <2>1. CASE stage = "enable"
    <3>1. stage' = "idle"
      BY <1>1, <2>1 DEF NextPhase, Following
    <3>2. Flushed' = {}
      BY <3>1 DEF Flushed
    <3> QED  BY <1>2, <2>1, <3>2 DEF Settled
  <2> QED  BY <1>2, <2>1 DEF Settled
<1>7. Fresh' = Fresh
  <2>1. CASE stage = "enable"
    <3>1. stage' = "idle" /\ active' = active
      BY <1>1, <2>1 DEF NextPhase, Following
    <3> QED  BY <1>2, <2>1, <3>1 DEF Fresh
  <2>2. CASE stage # "enable"
    <3>1. stage' # "idle" /\ scope' = scope
      BY <1>1, <1>3, <2>2 DEF NextPhase, Following, Phases
    <3> QED  BY <1>2, <1>3, <2>2, <3>1 DEF Fresh, Phases
  <2> QED  BY <2>1, <2>2
<1>8. AssociationInv' /\ PlanesInv'
  BY <1>1, <1>6, <1>7 DEF DInv, AssociationInv, PlanesInv, Associate, ScanoutPlanes
<1>9. FlipNoFlicker'
  BY <1>1 DEF DInv, FlipNoFlicker, NextPhase
<1> QED  BY <1>4, <1>5, <1>8, <1>9 DEF DInv

\* The disable handler leaves its CRTC with nothing on display.
LEMMA DisableKeepsDisplay ==
  ASSUME IInv, DInv, NEW c \in Crtcs, AtomicDisable(c)
  PROVE  DInv'
<1>1. /\ Handle("disable", c) /\ stage = "disable" /\ stage' = "disable"
      /\ UNCHANGED <<scope, modeset, vsp_source, hw, fails, dptsr_planes>>
  BY DEF AtomicDisable, Handle
<1>2. /\ Started' = Started \ {c}
      /\ c \in scope /\ c \in modeset /\ Flushed = {} /\ Flushed' = {}
  BY <1>1, TailDisable DEF IInv
<1>3. shown' = [shown EXCEPT ![c] = {}] /\ master \ {c} \subseteq master'
  BY DEF AtomicDisable
<1>4. latched' \in {latched, dptsr_planes}
  BY DEF AtomicDisable, GroupStop, StartStop
<1>5. LatchedInv'
  BY <1>1, <1>4 DEF DInv, LatchedInv, Stale
<1>6. PlanesInv'
  <2>1. Settled' = Settled \ {c}
    BY <1>2 DEF Settled
  <2>2. Fresh' = Fresh /\ c \notin Fresh
    BY <1>1, <1>2 DEF Fresh
  <2>3. shown \in [Crtcs -> SUBSET Hw]
    BY DEF IInv, TypeOK
  <2>4. Fresh \subseteq Crtcs
    BY <1>1, <1>2, TailSubsets DEF IInv, Fresh
  <2> QED
    BY <1>1, <1>3, <2>1, <2>2, <2>3, <2>4 DEF DInv, PlanesInv, ScanoutPlanes
<1>7. AssociationInv'
  BY <1>1, <1>2 DEF DInv, AssociationInv, Settled, Associate, ScanoutPlanes
<1>8. FlipNoFlicker'
  BY <1>1, <1>2 DEF FlipNoFlicker
<1>9. Started' \subseteq master' /\ Disjoint(hw)'
  BY <1>1, <1>2, <1>3 DEF DInv, Disjoint
<1> QED  BY <1>5, <1>6, <1>7, <1>8, <1>9 DEF DInv

\* The begin handler may make its CRTC stale, which is still to be flushed.
LEMMA BeginKeepsDisplay ==
  ASSUME IInv, DInv, NEW c \in Crtcs, AtomicBegin(c)
  PROVE  DInv'
<1>1. /\ Handle("begin", c) /\ stage = "begin" /\ stage' = "begin"
      /\ UNCHANGED <<scope, modeset, vsp_source, hw, master>>
  BY DEF AtomicBegin, Handle
<1>2. /\ Started' = Started
      /\ c \in scope /\ Flushed = {} /\ Flushed' = {}
  BY <1>1, TailBegin DEF IInv
<1>3. /\ UNCHANGED <<dptsr_planes, latched, flicker>>
      /\ shown' \in {shown, [shown EXCEPT ![c] = {}]}
  BY DEF AtomicBegin, CrtcGet, group
<1>4. fails' = 0 => fails = 0
  BY DEF AtomicBegin, CrtcGet, IInv, TypeOK
<1>5. LatchedInv'
  BY <1>1, <1>3 DEF DInv, LatchedInv, Stale
<1>6. PlanesInv'
  <2>1. Settled' = Settled
    BY <1>2 DEF Settled
  <2>2. Fresh' = Fresh /\ c \notin Fresh
    BY <1>1, <1>2 DEF Fresh
  <2>3. shown \in [Crtcs -> SUBSET Hw]
    BY DEF IInv, TypeOK
  <2>4. Fresh \subseteq Crtcs
    BY <1>1, <1>2, TailSubsets DEF IInv, Fresh
  <2> QED
    BY <1>1, <1>3, <1>4, <2>1, <2>2, <2>3, <2>4 DEF DInv, PlanesInv, ScanoutPlanes
<1>7. AssociationInv'
  BY <1>1, <1>2, <1>3 DEF DInv, AssociationInv, Settled, Associate, ScanoutPlanes
<1>8. FlipNoFlicker'
  BY <1>1, <1>3, <1>4 DEF DInv, FlipNoFlicker
<1>9. Started' \subseteq master' /\ Disjoint(hw)'
  BY <1>1, <1>2 DEF DInv, Disjoint
<1> QED  BY <1>5, <1>6, <1>7, <1>8, <1>9 DEF DInv

\* The flush handler makes its CRTC fresh without disturbing the others, and
\* restarts the group if the new association would not be in effect otherwise.
LEMMA FlushKeepsDisplay ==
  ASSUME IInv, DInv, NEW c \in Crtcs, AtomicFlush(c)
  PROVE  DInv'
<1>1. /\ Handle("flush", c) /\ stage = "flush" /\ stage' = "flush"
      /\ UNCHANGED <<scope, modeset, active>>
  BY DEF AtomicFlush, Handle
<1>2. /\ Started' = Started
      /\ c \in scope /\ c \notin Flushed /\ Flushed' = Flushed \cup {c}
      /\ modeset = {} => c \in Started
      /\ Started = {} => Flushed \cup {c} \subseteq Wanted("enable")
      /\ Started \subseteq Crtcs /\ Flushed \subseteq Crtcs
  BY <1>1, TailFlush, TailSubsets DEF IInv
<1>3. /\ UNCHANGED <<vsp_source, hw, fails, master, used_crtcs>>
      /\ dptsr_planes' = Associate(c, ScanoutPlanes(c))
      /\ shown' = [shown EXCEPT ![c] = ScanoutPlanes(c)]
  BY DEF AtomicFlush, UpdatePlanes
<1>4. \/ running' = TRUE /\ latched' = dptsr_planes'
      \/ /\ dptsr_planes' = dptsr_planes \/ used_crtcs = 0
         /\ latched' = IF running THEN latched ELSE dptsr_planes'
         /\ UNCHANGED running
  BY DEF AtomicFlush, UpdatePlanes, GroupRestart, StartStop
<1>5. LatchedInv'
  <2> SUFFICES ASSUME latched' # dptsr_planes' PROVE Stale'
    BY DEF LatchedInv
  <2>1. /\ dptsr_planes' = dptsr_planes \/ used_crtcs = 0
        /\ running /\ running' /\ latched' = latched
    BY <1>4 DEF IInv, TypeOK
  <2>2. Wanted("enable")' = Wanted("enable")
    BY <1>1 DEF Wanted
  <2>3. CASE latched = dptsr_planes
    <3>1. Started = {}
      BY <2>1, <2>3, <1>2, CrtcCount DEF IInv, StartCount
    <3>2. Flushed # {}
      BY <1>1, <2>1, <3>1 DEF IInv, RunningInv
    <3>3. PICK d \in Flushed : d # c
      BY <1>2, <3>2
    <3> QED  BY <1>1, <1>2, <2>1, <2>2, <3>1, <3>3 DEF Stale
  <2>4. CASE Stale
    BY <1>1, <1>2, <2>1, <2>2, <2>4 DEF Stale
  <2> QED  BY <2>3, <2>4 DEF DInv, LatchedInv
<1>6. AssociationInv'
  <2> SUFFICES ASSUME vsp_source, NEW d \in Settled \cup {c}
               PROVE  Associate(d, ScanoutPlanes(d))' = dptsr_planes'
    BY <1>2, <1>3 DEF AssociationInv, Settled
  <2>1. CASE d = c
    BY <1>3, <2>1 DEF Associate, ScanoutPlanes
  <2>2. CASE d # c
    BY <1>3, <2>2, AssociationsAgree DEF DInv, AssociationInv
  <2> QED  BY <2>1, <2>2
<1>7. PlanesInv'
  <2> SUFFICES ASSUME fails = 0
               PROVE  /\ \A d \in Crtcs \ Settled' : shown'[d] = {}
                      /\ \A d \in Fresh' :
                           /\ shown'[d] = ScanoutPlanes(d)
                           /\ \A p \in shown'[d] : p \in dptsr_planes' <=> Odd(d)
    BY <1>3 DEF PlanesInv, ScanoutPlanes
  <2>1. shown \in [Crtcs -> SUBSET Hw]
    BY DEF IInv, TypeOK
  <2>2. Settled' = Settled \cup {c}
    BY <1>2 DEF Settled
  <2>3. Fresh' = Fresh \cup {c} /\ c \notin Fresh /\ Fresh \subseteq Crtcs
    BY <1>1, <1>2 DEF Fresh
  <2>4. \A d \in Crtcs \ Settled' : shown'[d] = {}
    BY <1>3, <2>1, <2>2 DEF DInv, PlanesInv
  <2>5. shown'[c] = ScanoutPlanes(c)
    BY <1>3, <2>1
  <2>6. \A p \in shown'[c] : p \in dptsr_planes' <=> Odd(c)
    BY <1>3, <2>5, AssociateOwn
  <2>7. ASSUME NEW d \in Fresh
        PROVE  /\ shown'[d] = ScanoutPlanes(d)
               /\ \A p \in shown'[d] : p \in dptsr_planes' <=> Odd(d)
    <3>1. shown'[d] = shown[d]
      BY <1>3, <2>1, <2>3
    <3>2. shown[d] = ScanoutPlanes(d) /\ \A p \in shown[d] : p \in dptsr_planes <=> Odd(d)
      BY DEF DInv, PlanesInv
    <3>3. ASSUME NEW p \in shown[d] PROVE p \in dptsr_planes' <=> Odd(d)
      <4>1. CASE p \in ScanoutPlanes(c)
        <5>1. Odd(c) <=> Odd(d)
          BY <2>3, <3>2, <3>3, <4>1, ScanoutPlanesApart DEF DInv
        <5> QED  BY <1>3, <4>1, <5>1, AssociateOwn
      <4>2. CASE p \notin ScanoutPlanes(c)
        BY <1>3, <3>2, <3>3, <4>2 DEF Associate
      <4> QED  BY <4>1, <4>2
    <3> QED  BY <3>1, <3>2, <3>3
  <2> QED  BY <2>3, <2>4, <2>5, <2>6, <2>7
<1>8. FlipNoFlicker'
  <2> SUFFICES ASSUME vsp_source, modeset = {}, fails = 0 PROVE ~flicker'
    BY <1>1, <1>3 DEF FlipNoFlicker
  <2>1. ~need_restart
    BY DEF IInv, RestartInv
  <2>2. dptsr_planes' = dptsr_planes
    BY <1>2, <1>3 DEF DInv, AssociationInv, Settled
  <2>3. flicker' = flicker
    BY <2>1, <2>2 DEF AtomicFlush, UpdatePlanes
  <2> QED  BY <2>3 DEF DInv, FlipNoFlicker
<1>9. Started' \subseteq master' /\ Disjoint(hw)'
  BY <1>2, <1>3 DEF DInv, Disjoint
<1> QED  BY <1>5, <1>6, <1>7, <1>8, <1>9 DEF DInv

\* Both forms of the enable handler.
LEMMA EnableKeepsDisplay ==
  ASSUME IInv, DInv, NEW c \in Crtcs, Handle("enable", c),
         NEW written, CrtcStart(c, written),
         fails' = 0 => fails = 0 /\ UNCHANGED shown,
         UNCHANGED <<vsp_source, hw>>
  PROVE  DInv'
<1>1. /\ stage = "enable" /\ stage' = "enable"
      /\ todo' = todo \ {c} /\ c \in todo /\ UNCHANGED <<scope, modeset, active>>
  BY DEF Handle
<1>2. /\ Started' = Started \cup {c} /\ Started \subseteq Crtcs
      /\ c \in scope /\ c \in Flushed /\ Flushed' = Flushed
  BY TailEnable, TailSubsets DEF IInv
<1>3. /\ UNCHANGED dptsr_planes
      /\ master' = master \cup {c}
      /\ latched' = IF used_crtcs = 0 /\ running THEN latched ELSE dptsr_planes
      /\ running' = TRUE
  BY DEF CrtcStart, GroupStart, StartStop
<1>4. LatchedInv'
  <2> SUFFICES ASSUME latched' # dptsr_planes PROVE Stale'
    BY <1>3 DEF LatchedInv
  <2>1. used_crtcs = 0 /\ latched # dptsr_planes
    BY <1>3
  <2>2. Started = {}
    BY <1>2, <2>1, CrtcCount DEF IInv, StartCount
  <2>3. PICK d, e \in Wanted("enable") : d # e
    BY <2>1, <2>2 DEF DInv, LatchedInv, Stale
  <2>4. Wanted("enable") \subseteq todo
    BY <1>1, <2>2 DEF Started, Enabled
  <2> QED  BY <1>1, <1>2, <1>3, <2>3, <2>4 DEF Stale
<1>5. Settled' = Settled /\ Fresh' = Fresh
  BY <1>1, <1>2 DEF Settled, Fresh
<1>6. AssociationInv' /\ PlanesInv'
  BY <1>3, <1>5 DEF DInv, AssociationInv, PlanesInv, Associate, ScanoutPlanes
<1>7. FlipNoFlicker'
  <2>1. modeset # {}
    BY DEF Handle, IInv, TailInv, Wanted
  <2> QED  BY <1>1, <2>1 DEF FlipNoFlicker
<1>8. Started' \subseteq master' /\ Disjoint(hw)'
  BY <1>2, <1>3 DEF DInv, Disjoint
<1> QED  BY <1>4, <1>6, <1>7, <1>8 DEF DInv

\* A late get needs a failed clock, and then nothing is claimed of the display.
LEMMA LateGetKeepsDisplay ==
  ASSUME IInv, DInv, NEW c \in Crtcs, AtomicEnableLateGet(c)
  PROVE  DInv'
<1>1. /\ Handle("enable", c) /\ c \notin initialized /\ UNCHANGED <<vsp_source, hw>>
      /\ \E written \in {unlatched, SourceWritten(c)} : CrtcStart(c, written)
  BY DEF AtomicEnableLateGet
<1>2. fails' # 0
  <2>1. fails # 0
    BY <1>1, TailEnable DEF IInv, RefCount
  <2>2. fails' \in {fails, fails + 1}
    BY DEF AtomicEnableLateGet
  <2> QED  BY <2>1, <2>2, GroupAssumption DEF IInv, TypeOK
<1> QED  BY <1>1, <1>2, EnableKeepsDisplay

\* Steps that change nothing.
LEMMA StutterKeepsDisplay ==
  ASSUME IInv, DInv, UNCHANGED vars
  PROVE  DInv'
<1>1. UNCHANGED <<stage, scope, modeset, active, todo, dptsr_planes, running,
                  latched, flicker, vsp_source, hw, fails, master, shown>>
  BY DEF vars, group, tail
<1>2. Started' = Started /\ Flushed' = Flushed
  BY TailStutter DEF IInv, vars
<1>3. Settled' = Settled /\ Fresh' = Fresh
  BY <1>1, <1>2 DEF Settled, Fresh
<1>4. Stale' = Stale
  BY <1>1, <1>2 DEF Stale, Wanted
<1>5. LatchedInv' /\ AssociationInv' /\ PlanesInv'
  BY <1>1, <1>3, <1>4
  DEF DInv, LatchedInv, AssociationInv, PlanesInv, Associate, ScanoutPlanes
<1> QED  BY <1>1, <1>2, <1>5 DEF DInv, Disjoint, FlipNoFlicker

--------------------------------------------------------------------------------
(* Theorems about what is displayed                                         *)

\* Nothing is on display at first.
LEMMA InitDInv == Init => DInv
<1> SUFFICES ASSUME Init PROVE DInv
  OBVIOUS
<1>1. Started = {} /\ Flushed = {} /\ active = {} /\ stage = "idle"
  BY TailInitial DEF Init, TailInit
<1>2. Settled = {} /\ Fresh = {}
  BY <1>1 DEF Settled, Fresh
<1>3. Disjoint(hw)
  BY DEF Init, Disjoint
<1>4. PlanesInv
  BY <1>2 DEF Init, PlanesInv
<1> QED  BY <1>1, <1>2, <1>3, <1>4 DEF Init, DInv, LatchedInv, AssociationInv, FlipNoFlicker

\* DInv is inductive relative to IInv.
LEMMA NextDInv == IInv /\ DInv /\ [Next]_vars => DInv'
<1> SUFFICES ASSUME IInv, DInv, [Next]_vars PROVE DInv'
  OBVIOUS
<1>1. CASE Commit
  BY <1>1, CommitKeepsDisplay
<1>2. CASE Advance
  BY <1>2, AdvanceKeepsDisplay
<1>3. ASSUME NEW c \in Crtcs, AtomicDisable(c) PROVE DInv'
  BY <1>3, DisableKeepsDisplay
<1>4. ASSUME NEW c \in Crtcs, AtomicBegin(c) PROVE DInv'
  BY <1>4, BeginKeepsDisplay
<1>5. ASSUME NEW c \in Crtcs, AtomicFlush(c) PROVE DInv'
  BY <1>5, FlushKeepsDisplay
<1>6. ASSUME NEW c \in Crtcs, AtomicEnable(c) PROVE DInv'
  BY <1>6, EnableKeepsDisplay DEF AtomicEnable
<1>7. ASSUME NEW c \in Crtcs, AtomicEnableLateGet(c) PROVE DInv'
  BY <1>7, LateGetKeepsDisplay
<1>8. CASE UNCHANGED vars
  BY <1>8, StutterKeepsDisplay
<1> QED  BY <1>1, <1>2, <1>3, <1>4, <1>5, <1>6, <1>7, <1>8 DEF Next

\* The invariant of what is on display, on top of that of the counters.
THEOREM DisplayInvariance == Spec => []DInv
BY InitDInv, NextDInv, Invariance, PTL DEF Spec

\* Between commits, if no clock ever failed, every active CRTC displays its own
\* planes with their association in effect, and an inactive one none.
THEOREM ActiveCrtcsDisplay == Spec => []ActiveDisplays
<1>1. IInv /\ DInv => ActiveDisplays
  <2> SUFFICES ASSUME IInv, DInv, stage = "idle", fails = 0, NEW c \in Crtcs
               PROVE  IF c \in active
                      THEN /\ running /\ c \in master
                           /\ shown[c] = ScanoutPlanes(c)
                           /\ \A p \in shown[c] : p \in latched <=> Odd(c)
                      ELSE shown[c] = {}
    BY DEF ActiveDisplays
  <2>1. Started = active /\ Settled = active /\ Fresh = active
    BY DEF Started, Settled, Fresh, Flushed
  <2>2. latched = dptsr_planes
    BY DEF DInv, LatchedInv, Stale
  <2>3. c \in active => running
    BY <2>1 DEF IInv, RunningInv, RunningIffUsed
  <2> QED  BY <2>1, <2>2, <2>3 DEF DInv, PlanesInv
<1> QED  BY <1>1, Invariance, DisplayInvariance, PTL

\* A page flip on a VSP system restarts no group.
THEOREM FlipsDoNotFlicker == Spec => []FlipNoFlicker
<1>1. DInv => FlipNoFlicker
  BY DEF DInv
<1> QED  BY <1>1, DisplayInvariance, PTL

--------------------------------------------------------------------------------
(* The routing: the inductive invariant                                      *)

\* The CRTCs set up for the mode they have now: those acquired, but while the
\* disable handlers run not those that change modes.
SetUp == IF stage = "disable" THEN Acquired \ modeset ELSE Acquired

\* An output has one source, which the tables allow, and only CRTCs with some
\* output are active.
OutInv ==
  /\ \A c, d \in Crtcs : out[c] \cap out[d] # {} => c = d
  /\ \A c \in Crtcs : \A pad \in out[c] : c \in Possible(pad)
  /\ scope \cup active \cup was \subseteq Info.channels
  /\ \A c \in active : out[c] # {} \/ c \in Info.other

\* The sources name the CRTCs that drive the outputs: that of DPAD1 only if the
\* commit in progress has the CRTC in its scope, and otherwise none.
SourceInv ==
  /\ \A c \in Crtcs : "dpad0" \in out[c] => dpad0_source = c
  /\ stage # "idle" =>
       /\ \A c \in scope : "dpad1" \in out[c] => dpad1_source = c
       /\ dpad1_source # -1 => dpad1_source \in Crtcs /\ "dpad1" \in out[dpad1_source]

\* What the registers say of a CRTC that is set up.
RouteOK(c) ==
  /\ (unclocked = 0 /\ "dpad0" \in out[c] /\ Info.gen >= 2) => drgbs[Dpad0Group] = c
  /\ "dpad1" \in out[c] => pg2d[GroupOf(c)] = (IF c % 2 = 0 THEN "ds1" ELSE "ds2")

LevelOK(c) ==
  (Info.gen >= 2 /\ device # "r8a77965") => (c % 2 \in held[GroupOf(c)] <=> out[c] = {})

RoutingInv ==
  /\ RoutingTypeOK /\ TailInv
  /\ OutInv /\ SourceInv
  /\ \A c \in SetUp : RouteOK(c) /\ LevelOK(c)

--------------------------------------------------------------------------------
(* The routing: the devices                                                  *)

\* What the tables say of each device.
LEMMA DevicesKnown ==
  ASSUME device \in Devices
  PROVE  \/ device = "r8a7779" /\ Info = R8a7779
         \/ device = "r8a77470" /\ Info = R8a77470
         \/ device = "r8a7790" /\ Info = R8a7790
         \/ device = "r8a7791" /\ Info = R8a7791
         \/ device = "r8a7795" /\ Info = R8a7795
         \/ device = "r8a7796" /\ Info = R8a7796
         \/ device = "r8a77965" /\ Info = R8a77965
         \/ device = "r8a7799x" /\ Info = R8a7799x
BY RoutingAssumption DEF Info, Table

\* Only one device has a gap between its channels.
LEMMA ChannelsKnown ==
  ASSUME device \in Devices
  PROVE  /\ Info.channels \subseteq Crtcs /\ Info.channels \subseteq 0..3
         /\ Info.gen \in 1..3
         /\ device = "r8a77965" => Info.channels = {0, 1, 3}
         /\ device # "r8a77965" => \E n \in 2..4 : Info.channels = 0 .. n - 1
<1>1. Info.channels \subseteq Crtcs
  BY RoutingAssumption DEF Info
<1> DEFINE U == Info
<1>2. /\ U.channels \in {{0, 1}, {0, 1, 2}, {0, 1, 2, 3}, {0, 1, 3}} /\ U.gen \in {1, 2, 3}
      /\ device = "r8a77965" => U.channels = {0, 1, 3}
      /\ device # "r8a77965" => U.channels \in {{0, 1}, {0, 1, 2}, {0, 1, 2, 3}}
  BY DevicesKnown
  DEF R8a7779, R8a77470, R8a7790, R8a7791, R8a7795, R8a7796, R8a77965, R8a7799x
<1> HIDE DEF U
<1>3. {0, 1} = 0 .. 2 - 1 /\ {0, 1, 2} = 0 .. 3 - 1 /\ {0, 1, 2, 3} = 0 .. 4 - 1
  OBVIOUS
<1>4. device # "r8a77965" => \E n \in 2..4 : U.channels = 0 .. n - 1
  BY <1>2, <1>3
<1>5. U.channels \subseteq 0..3 /\ U.gen \in 1..3
  BY <1>2
<1> QED  BY <1>1, <1>2, <1>4, <1>5 DEF U

\* The intervals that occur.
LEMMA SmallIntervals ==
  \A n \in 1..4 : IsFiniteSet(0 .. n - 1) /\ Cardinality(0 .. n - 1) = n
<1> TAKE n \in 1..4
<1>1. IsFiniteSet(0 .. n - 1) /\ Cardinality(0 .. n - 1) = IF 0 > n - 1 THEN 0 ELSE (n - 1) - 0 + 1
  BY FS_Interval
<1> QED  BY <1>1

\* Without a gap the index of a CRTC is its channel.
LEMMA CrtcAtChannel ==
  ASSUME NEW n \in 2..4, Info.channels = 0 .. n - 1, NEW i \in 0 .. n - 1
  PROVE  CrtcAt(i) = i
<1> DEFINE Before(c) == {d \in 0 .. n - 1 : d < c}
<1>1. \A c \in 0 .. n - 1 : Cardinality(Before(c)) = c
  <2> SUFFICES ASSUME NEW c \in 0 .. n - 1 PROVE Cardinality(Before(c)) = c
    OBVIOUS
  <2>1. Before(c) = 0 .. c - 1
    OBVIOUS
  <2>2. Cardinality(0 .. c - 1) = IF 0 > c - 1 THEN 0 ELSE (c - 1) - 0 + 1
    BY FS_Interval
  <2> HIDE DEF Before
  <2> QED  BY <2>1, <2>2
<1> HIDE DEF Before
<1>2. CrtcAt(i) = CHOOSE c \in 0 .. n - 1 : Cardinality(Before(c)) = i
  BY DEF CrtcAt, Before
<1>3. \A c \in 0 .. n - 1 : Cardinality(Before(c)) = i <=> c = i
  BY <1>1
<1> QED  BY <1>2, <1>3

\* The third CRTC of the device with a gap is the fourth channel.
LEMMA CrtcAtGap ==
  ASSUME Info.channels = {0, 1, 3}
  PROVE  CrtcAt(2) = 3
<1> DEFINE Before(c) == {d \in {0, 1, 3} : d < c}
<1>1. Cardinality(Before(0)) = 0 /\ Cardinality(Before(1)) = 1 /\ Cardinality(Before(3)) = 2
  <2>1. Before(0) = {} /\ Before(1) = {0} /\ Before(3) = 0..1
    OBVIOUS
  <2>2. Cardinality({}) = 0 /\ Cardinality({0}) = 1 /\ Cardinality(0..1) = 2
    BY FS_EmptySet, FS_Singleton, SmallIntervals
  <2> QED  BY <2>1, <2>2
<1> HIDE DEF Before
<1>2. CrtcAt(2) = CHOOSE c \in {0, 1, 3} : Cardinality(Before(c)) = 2
  BY DEF CrtcAt, Before
<1>3. \A c \in {0, 1, 3} : Cardinality(Before(c)) = 2 <=> c = 3
  BY <1>1
<1> QED  BY <1>2, <1>3

\* Where the outputs can come from.  On Gen3 one group has the register that
\* routes DPAD0, and the tables route only CRTCs of that group to it.  DPAD1 comes
\* from an odd channel, but on a device where nothing else is active with it.
LEMMA PossibleKnown ==
  ASSUME device \in Devices
  PROVE  /\ \A pad \in Pads : Possible(pad) \subseteq Info.channels
         /\ Dpad0Group \in Groups
         /\ Info.gen >= 3 => \A c \in Possible("dpad0") : c \div 2 = Dpad0Group
         /\ Info.masked => Possible("dpad1") = {}
         /\ \A c \in Possible("dpad1") : c = 1 \/ device = "r8a7779"
         /\ device = "r8a7779" =>
              /\ Info.channels = {0, 1} /\ Info.other = {} /\ Possible("dpad0") = {0}
<1> DEFINE U == Info
<1>1. /\ U.dpad0 \subseteq Nat /\ U.dpad1 \subseteq Nat
      /\ device # "r8a77965" => U.dpad0 \subseteq U.channels /\ U.dpad1 \subseteq U.channels
      /\ device = "r8a77965" => U.dpad0 = {2} /\ U.dpad1 = {}
      /\ U.masked => U.dpad1 = {}
      /\ device # "r8a7779" => U.dpad1 \subseteq {1}
      /\ device = "r8a7779" =>
           U.channels = {0, 1} /\ U.other = {} /\ U.dpad0 = {0} /\ U.gen = 1
      /\ (U.gen >= 3 /\ device # "r8a77965") =>
           \/ U.channels = 0..3 /\ U.dpad0 = {3}
           \/ U.channels = 0..2 /\ U.dpad0 = {2}
           \/ U.channels = 0..1 /\ U.dpad0 = 0..1
  BY DevicesKnown
  DEF R8a7779, R8a77470, R8a7790, R8a7791, R8a7795, R8a7796, R8a77965, R8a7799x
<1>2. /\ U.channels \subseteq 0..3 /\ U.gen \in 1..3
      /\ device = "r8a77965" => U.channels = {0, 1, 3}
      /\ device # "r8a77965" => \E n \in 2..4 : U.channels = 0 .. n - 1
  BY ChannelsKnown
<1>3. /\ Possible("dpad0") = {CrtcAt(i) : i \in U.dpad0}
      /\ Possible("dpad1") = {CrtcAt(i) : i \in U.dpad1}
  BY DEF Possible
<1>4. Dpad0Group = IF U.gen < 3 THEN 0 ELSE (Cardinality(U.channels) + 1) \div 2 - 1
  BY DEF Dpad0Group
<1>5. \A n \in 2..4 : U.channels = 0 .. n - 1 => \A i \in 0 .. n - 1 : CrtcAt(i) = i
  BY CrtcAtChannel
<1>6. device = "r8a77965" => CrtcAt(2) = 3
  BY <1>2, CrtcAtGap
<1>7. /\ device # "r8a77965" => Possible("dpad0") = U.dpad0 /\ Possible("dpad1") = U.dpad1
      /\ device = "r8a77965" => Possible("dpad0") = {3} /\ Possible("dpad1") = {}
  <2> HIDE DEF U
  <2>1. CASE device = "r8a77965"
    BY <2>1, <1>1, <1>3, <1>6
  <2>2. CASE device # "r8a77965"
    <3>1. \A i \in U.channels : CrtcAt(i) = i
      BY <2>2, <1>2, <1>5
    <3>2. \A i \in U.dpad0 \cup U.dpad1 : CrtcAt(i) = i
      BY <2>2, <3>1, <1>1
    <3> QED  BY <2>2, <3>2, <1>3
  <2> QED  BY <2>1, <2>2
<1>8. /\ Cardinality({0, 1, 3}) = 3
      /\ Cardinality(0..3) = 4 /\ Cardinality(0..2) = 3 /\ Cardinality(0..1) = 2
  <2>1. Cardinality(0..3) = 4 /\ Cardinality(0..2) = 3 /\ Cardinality(0..1) = 2
    BY SmallIntervals
  <2>2. {0, 1, 3} = (0..1) \cup {3} /\ 3 \notin 0..1 /\ IsFiniteSet(0..1)
    BY SmallIntervals
  <2>3. Cardinality((0..1) \cup {3}) = Cardinality(0..1) + 1
    BY <2>2, FS_AddElement
  <2> QED  BY <2>1, <2>2, <2>3
<1>9. /\ Dpad0Group \in Groups
      /\ U.gen >= 3 => \A c \in Possible("dpad0") : c \div 2 = Dpad0Group
  <2> HIDE DEF U
  <2>1. CASE U.gen < 3
    BY <2>1, <1>2, <1>4 DEF Groups
  <2>2. CASE U.gen >= 3 /\ device = "r8a77965"
    <3>1. Dpad0Group = (Cardinality({0, 1, 3}) + 1) \div 2 - 1
      <4>1. ~(U.gen < 3)
        BY <2>2, <1>2
      <4>2. U.channels = {0, 1, 3}
        BY <2>2, <1>2
      <4> QED  BY <4>1, <4>2, <1>4, Zenon
    <3>2. Dpad0Group = 1
      BY <3>1, <1>8
    <3> QED  BY <2>2, <3>2, <1>7 DEF Groups
  <2>3. CASE U.gen >= 3 /\ device # "r8a77965"
    <3>1. CASE U.channels = 0..3 /\ U.dpad0 = {3}
      BY <2>3, <3>1, <1>2, <1>4, <1>7, <1>8 DEF Groups
    <3>2. CASE U.channels = 0..2 /\ U.dpad0 = {2}
      BY <2>3, <3>2, <1>2, <1>4, <1>7, <1>8 DEF Groups
    <3>3. CASE U.channels = 0..1 /\ U.dpad0 = 0..1
      BY <2>3, <3>3, <1>2, <1>4, <1>7, <1>8 DEF Groups
    <3> QED  BY <2>3, <3>1, <3>2, <3>3, <1>1
  <2> QED  BY <2>1, <2>2, <2>3, <1>2
<1>10. \A pad \in Pads : Possible(pad) \subseteq U.channels
  <2> HIDE DEF U
  <2> QED  BY <1>1, <1>2, <1>7 DEF Pads
<1>11. /\ U.masked => Possible("dpad1") = {}
       /\ \A c \in Possible("dpad1") : c = 1 \/ device = "r8a7779"
       /\ device = "r8a7779" =>
            U.channels = {0, 1} /\ U.other = {} /\ Possible("dpad0") = {0}
  <2> HIDE DEF U
  <2> QED  BY <1>1, <1>7
<1> QED  BY <1>9, <1>10, <1>11

\* The levels a group writes hold exactly those of its channels that drive no
\* output.
LEMMA LevelsWritten ==
  ASSUME device \in Devices, device # "r8a77965", NEW c \in Info.channels
  PROVE  c % 2 \in DpadLevels(GroupOf(c)) <=> out[c] = {}
<1>1. PICK n \in 2..4 : Info.channels = 0 .. n - 1
  BY ChannelsKnown
<1>2. c \in 0 .. n - 1 /\ c = 2 * GroupOf(c) + (c % 2) /\ c % 2 \in {0, 1}
  BY <1>1 DEF GroupOf
<1>3. CrtcAt(2 * GroupOf(c) + (c % 2)) = c
  BY <1>1, <1>2, CrtcAtChannel
<1> DEFINE Mine == {d \in Info.channels : GroupOf(d) = GroupOf(c)}
           num == Cardinality(Mine)
<1>4. c % 2 < num
  <2>1. IsFiniteSet(Mine)
    <3>1. IsFiniteSet(0 .. n - 1)
      BY FS_Interval
    <3> QED  BY <1>1, <3>1, FS_Subset
  <2>2. CASE c % 2 = 0
    <3>1. c \in Mine
      OBVIOUS
    <3>2. num \in Nat /\ num # 0
      BY <2>1, <3>1, FS_CardinalityType, FS_EmptySet
    <3> HIDE DEF num, Mine
    <3> QED  BY <2>2, <3>2
  <2>3. CASE c % 2 = 1
    <3>1. {c - 1, c} \subseteq Mine /\ c - 1 # c
      <4>1. \A k \in 0..3 : k % 2 = 1 => (k - 1) \div 2 = k \div 2 /\ k - 1 \in 0..3
        OBVIOUS
      <4>2. c \in 0..3 /\ c - 1 \in 0 .. n - 1 /\ (c - 1) \div 2 = c \div 2
        BY <1>2, <2>3, <4>1
      <4> QED  BY <1>1, <4>2 DEF GroupOf
    <3>2. IsFiniteSet({c - 1}) /\ Cardinality({c - 1}) = 1
      BY FS_Singleton
    <3>3. {c - 1, c} = {c - 1} \cup {c} /\ c \notin {c - 1}
      BY <3>1
    <3>4. Cardinality({c - 1} \cup {c}) = Cardinality({c - 1}) + 1
      BY <3>2, <3>3, FS_AddElement
    <3>5. num \in Nat /\ Cardinality({c - 1} \cup {c}) <= num
      BY <2>1, <3>1, <3>3, FS_Subset, FS_CardinalityType
    <3> HIDE DEF num, Mine
    <3> QED  BY <2>3, <3>2, <3>4, <3>5
  <2> QED  BY <1>2, <2>2, <2>3
<1>5. DpadLevels(GroupOf(c))
        = {i \in {0, 1} : i < num /\ out[CrtcAt(2 * GroupOf(c) + i)] = {}}
  BY DEF DpadLevels
<1> HIDE DEF num
<1> QED  BY <1>2, <1>3, <1>4, <1>5

--------------------------------------------------------------------------------
(* The routing: its steps                                                    *)

\* CRTCs set up are CRTCs of the device.
LEMMA SetUpKnown ==
  ASSUME RoutingInv
  PROVE  SetUp \subseteq Acquired /\ Acquired \subseteq Info.channels /\ Info.channels \subseteq Crtcs
<1>1. Acquired \subseteq was \cup active
  BY DEF RoutingInv, TailInv, TailTypeOK, Acquired, Stopped, Begun, Wanted
<1> QED  BY <1>1, ChannelsKnown DEF RoutingInv, RoutingTypeOK, OutInv, SetUp

\* The initial state has nothing active.
LEMMA RoutingInitial == RoutingInit => RoutingInv
<1> SUFFICES ASSUME RoutingInit PROVE RoutingInv
  OBVIOUS
<1> USE DEF RoutingInit
<1>1. TailInv /\ Acquired = {}
  BY TailInitial
<1>2. dpad0_source \in 0..3
  <2>1. /\ Info.dpad0 \subseteq 0..3
        /\ \E a \in Info.dpad0 : \A b \in Info.dpad0 : a <= b
    BY DevicesKnown
    DEF R8a7779, R8a77470, R8a7790, R8a7791, R8a7795, R8a7796, R8a77965, R8a7799x
  <2>2. dpad0_source = CHOOSE a \in Info.dpad0 : \A b \in Info.dpad0 : a <= b
    BY DEF InitialSource, Min, Info
  <2> QED  BY <2>1, <2>2
<1>3. RoutingTypeOK
  BY <1>1, <1>2, RoutingAssumption DEF RoutingTypeOK, TailInv, Groups, Pads
<1>4. OutInv /\ SourceInv
  BY DEF OutInv, SourceInv, TailInit
<1>5. SetUp = {}
  BY <1>1 DEF SetUp
<1> QED  BY <1>1, <1>3, <1>4, <1>5 DEF RoutingInv

\* A commit takes CRTCs that change what they drive out of those set up, and its
\* sources are those of what the rest drives.
LEMMA RoutingCommitStep ==
  ASSUME RoutingInv, RoutingCommit
  PROVE  RoutingInv'
<1>1. PICK M \in SUBSET Info.channels,
           x \in Possible("dpad0") \cup {-1}, y \in Possible("dpad1") \cup {-1} :
        LET o == Outputs(x, y)
        IN /\ \A c \in Crtcs \ M : o[c] = out[c]
           /\ \E on \in SUBSET {c \in M : o[c] # {} \/ c \in Info.other}, flips \in SUBSET (active \ M) :
                LET S == M \cup flips
                IN /\ StartCommit(S, M, (active \ M) \cup on)
                   /\ dpad0_source' = SourceOf("dpad0", S, o, dpad0_source)
                   /\ dpad1_source' = SourceOf("dpad1", S, o, -1)
           /\ out' = o
           /\ UNCHANGED <<device, registers, unclocked>>
  BY DEF RoutingCommit
<1> DEFINE o == Outputs(x, y)
<1>2. PICK on \in SUBSET {c \in M : o[c] # {} \/ c \in Info.other}, flips \in SUBSET (active \ M) :
        LET S == M \cup flips
        IN /\ StartCommit(S, M, (active \ M) \cup on)
           /\ dpad0_source' = SourceOf("dpad0", S, o, dpad0_source)
           /\ dpad1_source' = SourceOf("dpad1", S, o, -1)
  BY <1>1
<1> DEFINE S == M \cup flips
           A == (active \ M) \cup on
<1>3. /\ \A c \in Crtcs \ M : o[c] = out[c]
      /\ StartCommit(S, M, A)
      /\ dpad0_source' = SourceOf("dpad0", S, o, dpad0_source)
      /\ dpad1_source' = SourceOf("dpad1", S, o, -1)
      /\ out' = o /\ device' = device /\ drgbs' = drgbs /\ pg2d' = pg2d /\ held' = held
      /\ unclocked' = unclocked
  BY <1>1, <1>2 DEF registers
<1>4. /\ o \in [Crtcs -> SUBSET Pads]
      /\ \A c \in Crtcs : ("dpad0" \in o[c] <=> c = x) /\ ("dpad1" \in o[c] <=> c = y)
  BY DEF Outputs, Pads
<1>5. /\ S \subseteq Info.channels /\ M \subseteq S /\ A \subseteq Info.channels
      /\ Info.channels \subseteq Crtcs /\ Info.channels \subseteq 0..3
      /\ \A c \in on : c \in M /\ (o[c] # {} \/ c \in Info.other)
  BY ChannelsKnown DEF RoutingInv, RoutingTypeOK, OutInv
<1> HIDE DEF o, S, A
<1>6. /\ TailInv' /\ Acquired' = Acquired
      /\ stage' = "disable" /\ stage = "idle" /\ modeset' = M /\ scope' = S
      /\ active' = A /\ was' = active
  <2>1. StartCommit(S, M, A) /\ TailInv
    BY <1>3 DEF RoutingInv
  <2>2. S \in SUBSET Crtcs /\ M \in SUBSET Crtcs /\ A \in SUBSET Crtcs
    BY <1>5
  <2> QED  BY <2>1, <2>2, TailStart DEF StartCommit
<1>7. Info' = Info /\ Dpad0Group' = Dpad0Group /\ \A pad : Possible(pad)' = Possible(pad)
  BY <1>3 DEF Info, Dpad0Group, Possible, CrtcAt
<1>8. OutInv'
  <2>1. \A c, d \in Crtcs : o[c] \cap o[d] # {} => c = d
    BY <1>4 DEF Pads
  <2>2. \A c \in Crtcs : \A pad \in o[c] : c \in Possible(pad)
    <3>1. \A c \in Crtcs : c \in Nat
      BY CrtcsAssumption
    <3> QED  BY <1>4, <3>1 DEF Pads
  <2>3. \A c \in A : o[c] # {} \/ c \in Info.other
    BY <1>3, <1>5 DEF A, RoutingInv, OutInv
  <2>4. S \cup A \cup active \subseteq Info.channels
    BY <1>5 DEF RoutingInv, OutInv
  <2> QED  BY <1>3, <1>6, <1>7, <2>1, <2>2, <2>3, <2>4 DEF OutInv
<1>9. \A pad \in Pads : \A z : \A c \in S :
        pad \in o[c] => SourceOf(pad, S, o, z) = c
  <2> SUFFICES ASSUME NEW pad \in Pads, NEW z, NEW c \in S, pad \in o[c]
               PROVE  SourceOf(pad, S, o, z) = c
    OBVIOUS
  <2>1. \A d \in S : pad \in o[d] <=> d = c
    BY <1>4, <1>5 DEF Pads
  <2> QED  BY <2>1 DEF SourceOf
<1>10. \A pad \in Pads : \A z : (\A c \in S : pad \notin o[c]) => SourceOf(pad, S, o, z) = z
  BY DEF SourceOf
<1>11. SourceInv'
  <2>1. ASSUME NEW c \in Crtcs, "dpad0" \in o[c] PROVE dpad0_source' = c
    <3>1. CASE \E d \in S : "dpad0" \in o[d]
      BY <3>1, <2>1, <1>3, <1>4, <1>5, <1>9 DEF Pads
    <3>2. CASE \A d \in S : "dpad0" \notin o[d]
      <4>1. c \notin M
        BY <3>2, <2>1, <1>5
      <4>2. dpad0_source' = dpad0_source
        BY <3>2, <1>3, <1>10 DEF Pads
      <4> QED  BY <4>1, <4>2, <2>1, <1>3 DEF RoutingInv, SourceInv
    <3> QED  BY <3>1, <3>2
  <2>2. ASSUME NEW c \in S, "dpad1" \in o[c] PROVE dpad1_source' = c
    BY <2>2, <1>3, <1>9 DEF Pads
  <2>3. CASE \E d \in S : "dpad1" \in o[d]
    <3>1. PICK d \in S : "dpad1" \in o[d]
      BY <2>3
    <3>2. dpad1_source' = d
      BY <3>1, <2>2
    <3> QED  BY <3>1, <3>2, <2>1, <2>2, <1>3, <1>5, <1>6 DEF SourceInv
  <2>4. CASE \A d \in S : "dpad1" \notin o[d]
    <3>1. dpad1_source' = -1
      BY <2>4, <1>3, <1>10 DEF Pads
    <3> QED  BY <3>1, <2>1, <2>2, <1>3, <1>6 DEF SourceInv
  <2> QED  BY <2>3, <2>4
<1>12. RoutingTypeOK'
  <2>1. dpad0_source' \in 0..3
    <3>1. CASE \E d \in S : "dpad0" \in o[d]
      BY <3>1, <1>3, <1>5, <1>9 DEF Pads
    <3>2. CASE \A d \in S : "dpad0" \notin o[d]
      BY <3>2, <1>3, <1>10 DEF Pads, RoutingInv, RoutingTypeOK
    <3> QED  BY <3>1, <3>2
  <2>2. dpad1_source' \in -1 .. 3
    <3>1. CASE \E d \in S : "dpad1" \in o[d]
      BY <3>1, <1>3, <1>5, <1>9 DEF Pads
    <3>2. CASE \A d \in S : "dpad1" \notin o[d]
      BY <3>2, <1>3, <1>10 DEF Pads
    <3> QED  BY <3>1, <3>2
  <2> QED  BY <1>3, <1>4, <1>6, <2>1, <2>2 DEF RoutingInv, RoutingTypeOK, TailInv
<1>13. ASSUME NEW c \in SetUp' PROVE RouteOK(c)' /\ LevelOK(c)'
  <2>1. c \in SetUp /\ c \in Crtcs /\ out'[c] = out[c]
    <3>1. c \in Acquired \ M
      BY <1>6, <1>13 DEF SetUp
    <3> QED  BY <3>1, <1>3, <1>6, SetUpKnown DEF SetUp
  <2>2. RouteOK(c) /\ LevelOK(c)
    BY <2>1 DEF RoutingInv
  <2> QED  BY <2>1, <2>2, <1>3, <1>7 DEF RouteOK, LevelOK
<1> QED  BY <1>6, <1>8, <1>11, <1>12, <1>13 DEF RoutingInv

\* A step that leaves the outputs, sources and registers alone, and sets no CRTC
\* up, keeps the invariant.
LEMMA RoutingKept ==
  ASSUME RoutingInv, TailInv', SetUp' \subseteq SetUp,
         UNCHANGED <<device, out, sources, registers, unclocked, scope, was, active>>,
         stage = "idle" => stage' = "idle"
  PROVE  RoutingInv'
<1>1. /\ device' = device /\ out' = out /\ drgbs' = drgbs /\ pg2d' = pg2d /\ held' = held
      /\ dpad0_source' = dpad0_source /\ dpad1_source' = dpad1_source
      /\ unclocked' = unclocked /\ scope' = scope /\ was' = was /\ active' = active
  BY DEF sources, registers
<1>2. Info' = Info /\ Dpad0Group' = Dpad0Group /\ \A pad : Possible(pad)' = Possible(pad)
  BY <1>1 DEF Info, Dpad0Group, Possible, CrtcAt
<1>3. RoutingTypeOK'
  BY <1>1 DEF RoutingInv, RoutingTypeOK, TailInv
<1>4. OutInv' /\ SourceInv'
  BY <1>1, <1>2 DEF RoutingInv, OutInv, SourceInv
<1>5. ASSUME NEW c \in SetUp' PROVE RouteOK(c)' /\ LevelOK(c)'
  <2>1. RouteOK(c) /\ LevelOK(c)
    BY <1>5 DEF RoutingInv
  <2> QED  BY <2>1, <1>1, <1>2 DEF RouteOK, LevelOK
<1> QED  BY <1>3, <1>4, <1>5 DEF RoutingInv

\* The handlers that have nothing to do with the routing are such steps; when all
\* disable handlers have run, no CRTC that changes modes is left.
LEMMA OtherHandlerStep ==
  ASSUME RoutingInv, OtherHandler
  PROVE  RoutingInv'
<1>1. TailInv /\ UNCHANGED <<device, out, sources, registers, unclocked>>
  BY DEF RoutingInv, OtherHandler
<1>2. CASE NextPhase
  <2>1. /\ TailInv' /\ Acquired' = Acquired /\ stage # "idle" /\ stage' = Following(stage)
        /\ UNCHANGED <<scope, modeset, was, active>>
    BY <1>1, <1>2, TailNextPhase DEF NextPhase
  <2>2. stage = "disable" => Acquired \cap modeset = {}
    BY <1>2, <1>1 DEF NextPhase, Acquired, Stopped, Begun, Wanted
  <2>3. stage # "disable" => stage' # "disable"
    BY <2>1 DEF Following
  <2>4. SetUp' \subseteq SetUp
    BY <2>1, <2>2, <2>3 DEF SetUp
  <2> QED  BY <1>1, <2>1, <2>4, RoutingKept
<1>3. ASSUME NEW c \in Crtcs, NEW phase \in {"disable", "flush", "enable"}, Handle(phase, c)
      PROVE  RoutingInv'
  <2>1. TailInv' /\ Acquired' \subseteq Acquired
    BY <1>1, <1>3, TailDisable, TailFlush, TailEnable
  <2>2. UNCHANGED <<stage, scope, modeset, was, active>>
    BY <1>3 DEF Handle
  <2>3. SetUp' \subseteq SetUp
    BY <2>1, <2>2 DEF SetUp
  <2> QED  BY <1>1, <2>1, <2>2, <2>3, RoutingKept
<1> QED  BY <1>2, <1>3 DEF OtherHandler

\* A begin handler sets its CRTC up, and with it what its group says of the other
\* CRTC there, which stays right: what DPAD1 can be taken from is odd, or alone.
LEMMA RoutingBeginStep ==
  ASSUME RoutingInv, NEW c \in Crtcs, RoutingBegin(c)
  PROVE  RoutingInv'
<1>1. /\ Handle("begin", c) /\ TailInv
      /\ UNCHANGED <<device, out, sources>>
  BY DEF RoutingBegin, RoutingInv
<1>2. /\ TailInv' /\ Acquired' = Acquired \cup {c}
      /\ stage = "begin" /\ UNCHANGED <<stage, scope, modeset, was, active>>
      /\ c \in scope /\ c \in active
  BY <1>1, TailBegin DEF Handle, TailInv, Wanted
<1>3. SetUp = Acquired /\ SetUp' = Acquired \cup {c}
  BY <1>2 DEF SetUp
<1>4. CASE c \in Acquired
  <2>1. UNCHANGED <<registers, unclocked>>
    BY <1>4 DEF RoutingBegin
  <2> QED  BY <1>1, <1>2, <1>3, <1>4, <2>1, RoutingKept
<1>5. ASSUME c \notin Acquired,
             NEW ok \in BOOLEAN,
             unclocked' = (IF ok THEN unclocked ELSE unclocked + 1),
             unclocked' <= MaxUnclocked,
             SetRouting(GroupOf(c), ok)
      PROVE  RoutingInv'
  <2>1. /\ c \in Info.channels /\ Info.channels \subseteq 0..3 /\ Info.channels \subseteq Crtcs
        /\ Acquired \subseteq Info.channels
        /\ GroupOf(c) \in Groups
    <3>1. c \in Info.channels
      BY <1>2 DEF RoutingInv, OutInv
    <3>2. Info.channels \subseteq 0..3
      BY ChannelsKnown DEF RoutingInv, RoutingTypeOK
    <3> QED  BY <3>1, <3>2, SetUpKnown DEF GroupOf, Groups
  <2>2. /\ device' = device /\ out' = out
        /\ dpad0_source' = dpad0_source /\ dpad1_source' = dpad1_source
    BY <1>1 DEF sources
  <2>3. Info' = Info /\ Dpad0Group' = Dpad0Group /\ \A pad : Possible(pad)' = Possible(pad)
    BY <2>2 DEF Info, Dpad0Group, Possible, CrtcAt
  <2>4. OutInv' /\ SourceInv'
    BY <1>2, <2>2, <2>3 DEF RoutingInv, OutInv, SourceInv
  <2>5. /\ device \in Devices /\ drgbs \in [Groups -> 0..3] /\ dpad0_source \in 0..3
        /\ pg2d \in [Groups -> {"ds1", "ds2"}] /\ held \in [Groups -> SUBSET {0, 1}]
        /\ unclocked \in 0..MaxUnclocked
    BY DEF RoutingInv, RoutingTypeOK
  <2>6. Dpad0Group \in Groups
    BY <2>5, PossibleKnown
  <2>7. \A values \in [Groups -> 0..3], g \in Groups : Defr8(values, g) \in [Groups -> 0..3]
    BY <2>5 DEF Defr8
  <2>8. GroupGet(GroupOf(c)) \in [Groups -> 0..3]
    BY <2>1, <2>5, <2>7 DEF GroupGet
  <2>9. drgbs' = SetDpad0Routing(GroupGet(GroupOf(c)), ok)
    BY <1>5 DEF SetRouting
  <2>10. RoutingTypeOK'
    <3>1. drgbs' \in [Groups -> 0..3]
      BY <2>6, <2>7, <2>8, <2>9 DEF SetDpad0Routing
    <3>2. pg2d' \in [Groups -> {"ds1", "ds2"}] /\ held' \in [Groups -> SUBSET {0, 1}]
      BY <1>5, <2>5 DEF SetRouting, DpadLevels
    <3>3. unclocked' \in 0..MaxUnclocked
      BY <1>5, <2>5, RoutingAssumption
    <3> QED  BY <1>2, <2>2, <3>1, <3>2, <3>3 DEF RoutingInv, RoutingTypeOK, TailInv
  <2>11. ASSUME NEW d \in Crtcs, unclocked' = 0, "dpad0" \in out[d], Info.gen >= 2
         PROVE  drgbs'[Dpad0Group] = d
    <3>1. ok
      BY <1>5, <2>5, <2>11, RoutingAssumption
    <3>2. dpad0_source = d /\ d \in Possible("dpad0")
      BY <2>11 DEF RoutingInv, SourceInv, OutInv
    <3>3. IF Info.gen < 3 THEN Dpad0Group = 0 ELSE Dpad0Group = dpad0_source \div 2
      <4>1. CASE Info.gen < 3
        BY <4>1 DEF Dpad0Group
      <4>2. CASE ~(Info.gen < 3)
        <5>1. Info.gen >= 3
          BY <4>2, <2>5, ChannelsKnown
        <5> QED  BY <4>2, <5>1, <3>2, <2>5, PossibleKnown
      <4> QED  BY <4>1, <4>2
    <3>4. drgbs' = Defr8(GroupGet(GroupOf(c)), Dpad0Group)
      BY <2>9, <2>11, <3>1 DEF SetDpad0Routing
    <3> QED  BY <2>6, <2>8, <3>2, <3>3, <3>4 DEF Defr8
  <2>12. ASSUME NEW d \in Acquired \cup {c}, "dpad1" \in out[d]
         PROVE  pg2d'[GroupOf(d)] = (IF d % 2 = 0 THEN "ds1" ELSE "ds2")
    <3>1. /\ d \in Possible("dpad1") /\ ~Info.masked /\ d \in 0..3 /\ d \in Crtcs
          /\ d = 1 \/ device = "r8a7779"
      BY <2>1, <2>5, <2>12, PossibleKnown DEF RoutingInv, OutInv
    <3>2. pg2d' = [pg2d EXCEPT ![GroupOf(c)] =
                     IF dpad1_source = 2 * GroupOf(c) THEN "ds1" ELSE "ds2"]
      BY <1>5, <3>1 DEF SetRouting
    <3>3. CASE d = c
      <4>1. dpad1_source = c
        BY <1>2, <2>12, <3>3 DEF RoutingInv, SourceInv
      <4>2. \A k \in 0..3 : k = 2 * (k \div 2) <=> k % 2 = 0
        OBVIOUS
      <4>3. dpad1_source = 2 * GroupOf(c) <=> c % 2 = 0
        BY <3>1, <3>3, <4>1, <4>2 DEF GroupOf
      <4> QED  BY <2>1, <2>5, <3>2, <3>3, <4>3
    <3>4. CASE d # c /\ GroupOf(d) # GroupOf(c)
      <4>1. RouteOK(d)
        BY <1>3, <2>12, <3>4 DEF RoutingInv
      <4> QED  BY <2>5, <2>12, <3>2, <3>4, <4>1 DEF RouteOK
    <3>5. CASE d # c /\ GroupOf(d) = GroupOf(c)
      <4>1. d = 1
        <5> SUFFICES ASSUME device = "r8a7779", d # 1 PROVE FALSE
          BY <3>1
        <5>1. Info.channels = {0, 1} /\ Info.other = {} /\ Possible("dpad0") = {0}
          BY <2>5, PossibleKnown
        <5>2. d = 0 /\ c = 1
          BY <2>1, <2>12, <3>5, <5>1
        <5>3. out[c] # {} /\ out[c] \subseteq Pads
          BY <1>2, <5>1 DEF RoutingInv, OutInv, RoutingTypeOK
        <5>4. "dpad0" \notin out[c]
          BY <5>1, <5>2 DEF RoutingInv, OutInv
        <5>5. "dpad1" \in out[c]
          BY <5>3, <5>4 DEF Pads
        <5> QED  BY <2>12, <3>1, <3>5, <5>5 DEF RoutingInv, OutInv
      <4>2. GroupOf(c) = 0 /\ 1 % 2 # 0
        BY <3>5, <4>1 DEF GroupOf
      <4>3. dpad1_source # 0
        <5> SUFFICES ASSUME dpad1_source = 0 PROVE FALSE
          OBVIOUS
        <5>1. 0 \in Crtcs /\ "dpad1" \in out[0]
          BY <1>2 DEF RoutingInv, SourceInv
        <5> QED  BY <2>12, <3>1, <4>1, <5>1 DEF RoutingInv, OutInv
      <4> QED  BY <2>1, <2>5, <3>2, <3>5, <4>1, <4>2, <4>3
    <3> QED  BY <3>3, <3>4, <3>5
  <2>13. ASSUME NEW d \in Acquired \cup {c}, Info.gen >= 2, device # "r8a77965"
         PROVE  d % 2 \in held'[GroupOf(d)] <=> out[d] = {}
    <3>1. held' = [held EXCEPT ![GroupOf(c)] = DpadLevels(GroupOf(c))]
      <4>1. ~(Info.gen < 2)
        BY <2>13, <2>5, ChannelsKnown
      <4> QED  BY <1>5, <4>1 DEF SetRouting
    <3>2. CASE GroupOf(d) = GroupOf(c)
      <4>1. d % 2 \in DpadLevels(GroupOf(d)) <=> out[d] = {}
        BY <2>1, <2>5, <2>13, LevelsWritten
      <4> QED  BY <2>1, <2>5, <3>1, <3>2, <4>1
    <3>3. CASE GroupOf(d) # GroupOf(c)
      <4>1. LevelOK(d)
        BY <1>3, <2>13, <3>3 DEF RoutingInv
      <4> QED  BY <2>5, <2>13, <3>1, <3>3, <4>1 DEF LevelOK
    <3> QED  BY <3>2, <3>3
  <2>14. \A d \in SetUp' : RouteOK(d)' /\ LevelOK(d)'
    <3> SUFFICES ASSUME NEW d \in SetUp' PROVE RouteOK(d)' /\ LevelOK(d)'
      OBVIOUS
    <3>1. d \in Acquired \cup {c} /\ d \in Crtcs
      BY <1>3, <2>1
    <3> QED  BY <2>2, <2>3, <2>11, <2>12, <2>13, <3>1 DEF RouteOK, LevelOK
  <2> QED  BY <1>2, <2>4, <2>10, <2>14 DEF RoutingInv
<1>6. c \notin Acquired =>
        \E ok \in BOOLEAN :
          /\ unclocked' = (IF ok THEN unclocked ELSE unclocked + 1)
          /\ unclocked' <= MaxUnclocked
          /\ SetRouting(GroupOf(c), ok)
  BY DEF RoutingBegin
<1> QED  BY <1>4, <1>5, <1>6

\* The invariant of the routing is one.
LEMMA RoutingInvariant == RoutingSpec => []RoutingInv
<1>1. RoutingInv /\ [RoutingNext]_routingVars => RoutingInv'
  <2> SUFFICES ASSUME RoutingInv, [RoutingNext]_routingVars PROVE RoutingInv'
    OBVIOUS
  <2>1. CASE UNCHANGED routingVars
    <3>1. TailInv' /\ Acquired' = Acquired
      BY <2>1, TailStutter DEF RoutingInv, routingVars
    <3>2. UNCHANGED <<device, out, sources, registers, unclocked, stage, scope, modeset, was, active>>
      BY <2>1 DEF routingVars, tail
    <3>3. SetUp' = SetUp
      BY <3>1, <3>2 DEF SetUp
    <3> QED  BY <3>1, <3>2, <3>3, RoutingKept
  <2> QED  BY <2>1, RoutingCommitStep, RoutingBeginStep, OtherHandlerStep DEF RoutingNext
<1> QED  BY <1>1, RoutingInitial, PTL DEF RoutingSpec

\* CRTCs that drive an output are set up.
LEMMA DrivingSetUp ==
  ASSUME TailInv
  PROVE  Driving \subseteq SetUp
BY DEF TailInv, TailTypeOK, Phases, Driving, SetUp, Started, Acquired, Stopped, Begun, Enabled, Wanted

\* Every started CRTC has its parallel outputs routed from it, whatever commits of
\* other CRTCs set up since: for each device of the tables, any sequence of commits
\* and any number of clocks that fail (rcar_du_group_set_routing,
\* rcar_du_set_dpad0_vsp1_routing).
THEOREM OutputsRouted == RoutingSpec => []DpadRouted
<1>1. RoutingInv => DpadRouted
  BY DrivingSetUp DEF RoutingInv, DpadRouted, RouteOK
<1> QED  BY <1>1, RoutingInvariant, PTL

\* Fixed levels are driven exactly at the channels whose CRTC has no parallel
\* output (rcar_du_group_set_dpad_levels).
THEOREM LevelsExact == RoutingSpec => []LevelsFixed
<1>1. RoutingInv => LevelsFixed
  <2> SUFFICES ASSUME RoutingInv, Info.gen >= 2, device # "r8a77965"
               PROVE  WrongLevels(Driving) = {}
    BY DEF LevelsFixed
  <2>1. \A c \in Driving : c % 2 \in held[GroupOf(c)] <=> out[c] = {}
    BY DrivingSetUp DEF RoutingInv, LevelOK
  <2> QED  BY <2>1 DEF WrongLevels
<1> QED  BY <1>1, RoutingInvariant, PTL
================================================================================
