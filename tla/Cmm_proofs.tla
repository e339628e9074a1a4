------------------------------- MODULE Cmm_proofs -------------------------------
(***************************************************************************)
(* Proofs about Cmm, for any set of CRTCs and of gamma tables and any      *)
(* number of failures of rcar_cmm_enable().                                *)
(***************************************************************************)
EXTENDS Cmm, CommitTail_proofs

--------------------------------------------------------------------------------
(* The inductive invariant                                                   *)

Uses(c) == IF c \in Started THEN 1 ELSE 0

\* Each failure of rcar_cmm_enable() may cost a unit one use of its device, and
\* nothing gives one more than its started channel has.
PowerInv == \A c \in Crtcs : Uses(c) - fails <= power[c] /\ power[c] <= Uses(c)

\* What the driver remembers of the LUT is what the hardware has, and only the
\* unit of a channel that is started has it on.
FlagInv == unpowered = {} => lut_enabled = lut_ctrl /\ lut_enabled \subseteq Started

\* The LUT of c is as the state of c wants it.
Loaded(c) ==
  IF gamma[c] = NoTable THEN c \notin lut_ctrl
  ELSE c \in lut_ctrl /\ lut_tbl[c] = gamma[c]

\* CRTCs of the commit in progress whose new table begin has not looked at yet.
Stale == IF stage = "idle" THEN {} ELSE color \ Begun

\* The LUTs of started channels are up to date, except those of Stale.
LutInv ==
  /\ stage # "idle" => color \subseteq scope
  /\ unpowered = {} => \A c \in Started \ Stale : Loaded(c)

IInv ==
  /\ TypeOK
  /\ TailInv
  /\ PowerInv
  /\ FlagInv
  /\ LutInv

--------------------------------------------------------------------------------
(* Lemmas                                                                    *)

\* Stale at the handlers of the tail: begin takes its CRTC out, the others leave it
\* alone.  A CRTC that was not active is not started when it begins.
LEMMA StaleAtHandlers ==
  ASSUME TailInv, NEW c \in Crtcs, color' = color
  PROVE  /\ Handle("disable", c) \/ Handle("flush", c) \/ Handle("enable", c) => Stale' = Stale
         /\ Handle("begin", c) => Stale' = Stale \ {c} /\ c \in active
         /\ Handle("begin", c) /\ c \notin was => c \notin Started
<1>1. ASSUME Handle("disable", c) \/ Handle("flush", c) \/ Handle("enable", c)
      PROVE  Stale' = Stale
  BY <1>1 DEF Handle, Stale, Begun, Wanted
<1>2. ASSUME Handle("begin", c)
      PROVE  Stale' = Stale \ {c} /\ c \in active
  BY <1>2 DEF Handle, Stale, Begun, Wanted, TailInv
<1>3. ASSUME Handle("begin", c), c \notin was
      PROVE  c \notin Started
  BY <1>3 DEF Handle, Started, Enabled
<1> QED  BY <1>1, <1>2, <1>3

\* No phase adds to it, and the CRTCs it holds at the end of a commit are not active.
LEMMA StaleAtPhases ==
  ASSUME TailInv, NextPhase, color' = color, color \subseteq scope
  PROVE  /\ stage # "enable" => Stale' = Stale
         /\ stage = "enable" => Stale \cap active = {}
<1>1. CASE stage = "disable"
  BY <1>1 DEF NextPhase, Following, Stale, Begun, Wanted
<1>2. CASE stage = "begin"
  BY <1>2 DEF NextPhase, Following, Stale, Begun, Wanted
<1>3. CASE stage = "flush"
  BY <1>3 DEF NextPhase, Following, Stale, Begun, Wanted
<1>4. CASE stage = "enable"
  BY <1>4 DEF Stale, Begun, Wanted
<1> QED  BY <1>1, <1>2, <1>3, <1>4 DEF TailInv, TailTypeOK, NextPhase, Phases

\* rcar_cmm_setup() leaves its unit loaded, if no write was lost, and the others
\* alone; it switches the LUT on only with power.
LEMMA SetupLoads ==
  ASSUME TypeOK, FlagInv, NEW c \in Crtcs, NEW powered, Setup(c, powered),
         gamma' = gamma
  PROVE  /\ lut_enabled' \subseteq Crtcs /\ lut_ctrl' \subseteq Crtcs
         /\ lut_tbl' \in [Crtcs -> Tables \cup {NoTable}]
         /\ unpowered' \subseteq Crtcs
         /\ unpowered' = {} =>
              /\ unpowered = {} /\ lut_enabled' = lut_ctrl'
              /\ lut_enabled' \subseteq lut_enabled \cup (IF powered THEN {c} ELSE {})
              /\ Loaded(c)'
              /\ \A d \in Crtcs \ {c} : Loaded(d)' <=> Loaded(d)
<1>1. CASE SetupNone(c, powered)
  BY <1>1 DEF SetupNone, TypeOK, FlagInv, Loaded
<1>2. CASE SetupTable(c, powered)
  <2>1. CASE powered
    BY <1>2, <2>1 DEF SetupTable, TypeOK, FlagInv, Loaded
  <2>2. CASE ~powered
    BY <1>2, <2>2 DEF SetupTable, TypeOK, FlagInv, Loaded
  <2> QED  BY <2>1, <2>2
<1> QED  BY <1>1, <1>2 DEF Setup

--------------------------------------------------------------------------------
(* Each action preserves the invariant                                       *)

\* A commit changes tables only of CRTCs whose begin handler is to come.
LEMMA CommitPreserves ==
  ASSUME IInv, Commit
  PROVE  IInv'
<1>1. PICK S \in SUBSET Crtcs \ {{}}, M \in SUBSET Crtcs, A \in SUBSET Crtcs,
           K \in SUBSET Crtcs, g \in [Crtcs -> Tables \cup {NoTable}] :
        /\ StartCommit(S, M, A)
        /\ K \subseteq S
        /\ \A c \in Crtcs \ K : g[c] = gamma[c]
        /\ gamma' = g
        /\ color' = K
        /\ UNCHANGED unit
  BY DEF Commit
<1>2. /\ TailInv' /\ Started' = Started
      /\ stage = "idle" /\ stage' = "disable" /\ scope' = S
  BY <1>1, TailStart DEF IInv, StartCommit
<1>3. UNCHANGED <<power, lut_enabled, lut_ctrl, lut_tbl, unpowered, fails>>
  BY <1>1 DEF unit
<1>4. TypeOK' /\ PowerInv' /\ FlagInv'
  BY <1>1, <1>2, <1>3 DEF IInv, TypeOK, TailInv, PowerInv, Uses, FlagInv
<1>5. LutInv'
  <2>1. Stale = {} /\ Stale' = K
    BY <1>1, <1>2 DEF Stale, Begun
  <2>2. Started \subseteq Crtcs
    BY TailSubsets DEF IInv
  <2>3. \A c \in Crtcs \ K : Loaded(c)' <=> Loaded(c)
    BY <1>1, <1>3 DEF Loaded
  <2> QED  BY <1>1, <1>2, <1>3, <2>1, <2>2, <2>3 DEF IInv, LutInv
<1> QED  BY <1>2, <1>4, <1>5 DEF IInv

\* The end of the commit leaves the active CRTCs started and none of them stale.
LEMMA AdvancePreserves ==
  ASSUME IInv, Advance
  PROVE  IInv'
<1>1. NextPhase /\ UNCHANGED <<gamma, color, power, lut_enabled, lut_ctrl, lut_tbl, unpowered, fails>>
  BY DEF Advance, unit
<1>2. /\ TailInv' /\ Started' = Started
      /\ stage = "enable" => Started = active
  BY <1>1, TailNextPhase DEF IInv
<1>3. stage # "idle" /\ scope' = scope
  BY <1>1 DEF NextPhase
<1>4. TypeOK' /\ PowerInv' /\ FlagInv'
  BY <1>1, <1>2 DEF IInv, TypeOK, TailInv, PowerInv, Uses, FlagInv
<1>5. LutInv'
  <2>1. Started' \ Stale' \subseteq Started \ Stale
    BY <1>1, <1>2, <1>3, StaleAtPhases DEF IInv, LutInv
  <2>2. \A c : Loaded(c)' <=> Loaded(c)
    BY <1>1 DEF Loaded
  <2> QED  BY <1>1, <1>3, <2>1, <2>2 DEF IInv, LutInv
<1> QED  BY <1>2, <1>4, <1>5 DEF IInv

\* The unit of a channel that stops is off, and gives its use of the device back.
LEMMA DisablePreserves ==
  ASSUME IInv, NEW c \in Crtcs, AtomicDisable(c)
  PROVE  IInv'
<1>1. Handle("disable", c) /\ Disable(c) /\ UNCHANGED <<gamma, color, lut_tbl, fails>>
  BY DEF AtomicDisable
<1>2. TailInv' /\ c \in Started /\ Started' = Started \ {c} /\ Stale' = Stale
  BY <1>1, TailDisable, StaleAtHandlers DEF IInv
<1>3. UNCHANGED <<stage, scope>>
  BY <1>1 DEF Handle
<1>4. PowerInv'
  BY <1>1, <1>2 DEF IInv, TypeOK, PowerInv, Uses, Disable
<1>5. power' \in [Crtcs -> -MaxFail .. 1]
  BY <1>1, <1>2, <1>4, CmmAssumption DEF IInv, TypeOK, PowerInv, Uses, Disable
<1>6. TypeOK'
  BY <1>1, <1>2, <1>5 DEF IInv, TypeOK, TailInv, Disable
<1>7. FlagInv' /\ (unpowered' = {} => unpowered = {} /\ lut_ctrl' = lut_ctrl \ {c})
  BY <1>1, <1>2 DEF IInv, FlagInv, Disable
<1>8. LutInv'
  <2>1. unpowered' = {} => \A d \in Crtcs \ {c} : Loaded(d) => Loaded(d)'
    BY <1>1, <1>7 DEF Loaded
  <2>2. Started \subseteq Crtcs
    BY TailSubsets DEF IInv
  <2> QED  BY <1>1, <1>2, <1>3, <1>7, <2>1, <2>2 DEF IInv, LutInv
<1> QED  BY <1>2, <1>4, <1>6, <1>7, <1>8 DEF IInv

\* Begin sets the unit up, unless that is left to enable or nothing changed.
LEMMA BeginPreserves ==
  ASSUME IInv, NEW c \in Crtcs, AtomicBegin(c)
  PROVE  IInv'
<1>1. Handle("begin", c) /\ UNCHANGED <<gamma, color, power, fails>>
  BY DEF AtomicBegin
<1>2. /\ TailInv' /\ Started' = Started /\ Stale' = Stale \ {c} /\ c \in active
      /\ c \notin was => c \notin Started
  BY <1>1, TailBegin, StaleAtHandlers DEF IInv
<1>3. UNCHANGED <<stage, scope>> /\ stage # "idle"
  BY <1>1 DEF Handle
<1>4. Started \subseteq Crtcs
  BY TailSubsets DEF IInv
<1>5. PowerInv'
  BY <1>1, <1>2 DEF IInv, PowerInv, Uses
<1>6. CASE c \in color /\ ~ActiveChanged(c) /\ Setup(c, power[c] > 0)
  <2>1. power[c] > 0 => c \in Started
    BY DEF IInv, TypeOK, PowerInv, Uses
  <2>2. /\ lut_enabled' \subseteq Crtcs /\ lut_ctrl' \subseteq Crtcs
        /\ lut_tbl' \in [Crtcs -> Tables \cup {NoTable}]
        /\ unpowered' \subseteq Crtcs
        /\ unpowered' = {} =>
             /\ unpowered = {} /\ lut_enabled' = lut_ctrl'
             /\ lut_enabled' \subseteq lut_enabled \cup (IF power[c] > 0 THEN {c} ELSE {})
             /\ Loaded(c)'
             /\ \A d \in Crtcs \ {c} : Loaded(d)' <=> Loaded(d)
    BY <1>1, <1>6, SetupLoads DEF IInv
  <2>3. TypeOK'
    BY <1>1, <1>2, <2>2 DEF IInv, TypeOK, TailInv
  <2>4. FlagInv'
    BY <1>2, <2>1, <2>2 DEF IInv, FlagInv
  <2>5. LutInv'
    BY <1>1, <1>2, <1>3, <1>4, <2>2 DEF IInv, LutInv
  <2> QED  BY <1>2, <1>5, <2>3, <2>4, <2>5 DEF IInv
<1>7. CASE /\ c \notin color \/ ActiveChanged(c)
           /\ UNCHANGED <<lut_enabled, lut_ctrl, lut_tbl, unpowered>>
  <2>1. TypeOK' /\ FlagInv'
    BY <1>1, <1>2, <1>7 DEF IInv, TypeOK, TailInv, FlagInv
  <2>2. c \notin Stale \/ c \notin Started
    BY <1>2, <1>7 DEF ActiveChanged, Stale
  <2>3. \A d : Loaded(d)' <=> Loaded(d)
    BY <1>1, <1>7 DEF Loaded
  <2>4. LutInv'
    BY <1>1, <1>2, <1>3, <1>7, <2>2, <2>3 DEF IInv, LutInv
  <2> QED  BY <1>2, <1>5, <2>1, <2>4 DEF IInv
<1> QED  BY <1>6, <1>7 DEF AtomicBegin

\* Flush has nothing to do with the unit.
LEMMA FlushPreserves ==
  ASSUME IInv, NEW c \in Crtcs, AtomicFlush(c)
  PROVE  IInv'
<1>1. /\ Handle("flush", c)
      /\ UNCHANGED <<gamma, color, power, lut_enabled, lut_ctrl, lut_tbl, unpowered, fails>>
  BY DEF AtomicFlush, unit
<1>2. TailInv' /\ Started' = Started /\ Stale' = Stale /\ UNCHANGED <<stage, scope>>
  BY <1>1, TailFlush, StaleAtHandlers DEF IInv, Handle
<1>3. TypeOK' /\ PowerInv' /\ FlagInv'
  BY <1>1, <1>2 DEF IInv, TypeOK, TailInv, PowerInv, Uses, FlagInv
<1>4. LutInv'
  BY <1>1, <1>2 DEF IInv, LutInv, Loaded
<1> QED  BY <1>2, <1>3, <1>4 DEF IInv

\* A channel that starts takes at most one use of the device, and its unit is
\* loaded unless its power is missing.
LEMMA EnablePreserves ==
  ASSUME IInv, NEW c \in Crtcs, AtomicEnable(c)
  PROVE  IInv'
<1>1. /\ Handle("enable", c) /\ Setup(c, power'[c] > 0) /\ UNCHANGED <<gamma, color>>
      /\ \/ power' = [power EXCEPT ![c] = @ + 1] /\ fails' = fails
         \/ fails < MaxFail /\ fails' = fails + 1 /\ power' = power
  BY DEF AtomicEnable
<1>2. /\ TailInv' /\ c \notin Started /\ Started' = Started \cup {c} /\ Stale' = Stale
      /\ UNCHANGED <<stage, scope>>
  BY <1>1, TailEnable, StaleAtHandlers DEF IInv, Handle
<1>3. /\ lut_enabled' \subseteq Crtcs /\ lut_ctrl' \subseteq Crtcs
      /\ lut_tbl' \in [Crtcs -> Tables \cup {NoTable}]
      /\ unpowered' \subseteq Crtcs
      /\ unpowered' = {} =>
           /\ unpowered = {} /\ lut_enabled' = lut_ctrl'
           /\ lut_enabled' \subseteq lut_enabled \cup {c}
           /\ Loaded(c)'
           /\ \A d \in Crtcs \ {c} : Loaded(d)' <=> Loaded(d)
  BY <1>1, SetupLoads DEF IInv
<1>4. PowerInv' /\ fails' \in 0..MaxFail
  BY <1>1, <1>2, CmmAssumption DEF IInv, TypeOK, PowerInv, Uses
<1>5. power' \in [Crtcs -> -MaxFail .. 1]
  BY <1>1, <1>2, <1>4, CmmAssumption DEF IInv, TypeOK, PowerInv, Uses
<1>6. TypeOK'
  BY <1>1, <1>2, <1>3, <1>4, <1>5 DEF IInv, TypeOK, TailInv
<1>7. FlagInv'
  BY <1>2, <1>3 DEF IInv, FlagInv
<1>8. LutInv'
  <2>1. Started \subseteq Crtcs
    BY TailSubsets DEF IInv
  <2> QED  BY <1>1, <1>2, <1>3, <2>1 DEF IInv, LutInv
<1> QED  BY <1>2, <1>4, <1>6, <1>7, <1>8 DEF IInv

\* All units are off at first.
LEMMA InitInvariant ==
  Init => IInv
<1> SUFFICES ASSUME Init PROVE IInv
  OBVIOUS
<1>1. TailInv /\ Started = {}
  BY TailInitial DEF Init
<1>2. TypeOK
  BY <1>1, CmmAssumption DEF Init, TypeOK, TailInv
<1>3. PowerInv /\ FlagInv
  BY <1>1 DEF Init, PowerInv, Uses, FlagInv
<1>4. LutInv
  BY <1>1 DEF Init, TailInit, LutInv
<1> QED  BY <1>1, <1>2, <1>3, <1>4 DEF IInv

\* Every step preserves the invariant.
LEMMA NextPreserves ==
  ASSUME IInv, [Next]_vars
  PROVE  IInv'
<1>1. CASE Commit
  BY <1>1, CommitPreserves
<1>2. CASE Advance
  BY <1>2, AdvancePreserves
<1>3. ASSUME NEW c \in Crtcs, AtomicDisable(c) PROVE IInv'
  BY <1>3, DisablePreserves
<1>4. ASSUME NEW c \in Crtcs, AtomicBegin(c) PROVE IInv'
  BY <1>4, BeginPreserves
<1>5. ASSUME NEW c \in Crtcs, AtomicFlush(c) PROVE IInv'
  BY <1>5, FlushPreserves
<1>6. ASSUME NEW c \in Crtcs, AtomicEnable(c) PROVE IInv'
  BY <1>6, EnablePreserves
<1>7. CASE UNCHANGED vars
  <2>1. /\ UNCHANGED tail
        /\ UNCHANGED <<gamma, color, power, lut_enabled, lut_ctrl, lut_tbl, unpowered, fails>>
    BY <1>7 DEF vars, unit
  <2>2. TailInv' /\ Started' = Started
    BY <2>1, TailStutter DEF IInv
  <2>3. TypeOK' /\ PowerInv' /\ FlagInv'
    BY <2>1, <2>2 DEF IInv, TypeOK, TailInv, PowerInv, Uses, FlagInv
  <2>4. LutInv'
    BY <2>1, <2>2 DEF tail, IInv, LutInv, Loaded, Stale, Begun, Wanted
  <2> QED  BY <2>2, <2>3, <2>4 DEF IInv
<1> QED  BY <1>1, <1>2, <1>3, <1>4, <1>5, <1>6, <1>7 DEF Next

--------------------------------------------------------------------------------
(* Theorems                                                                  *)

\* The inductive invariant holds in every reachable state.
THEOREM Invariant == Spec => []IInv
BY InitInvariant, NextPreserves, PTL DEF Spec

\* The type invariant.
THEOREM TypeCorrect == Spec => []TypeOK
<1>1. IInv => TypeOK
  BY DEF IInv
<1> QED  BY Invariant, <1>1, PTL

\* As long as rcar_cmm_enable() has not failed, a unit is powered, once, exactly
\* while its channel is started: PowerInv without failures.
THEOREM PoweredWhileStarted == Spec => []PowerExact
<1>1. ASSUME IInv PROVE PowerExact
  <2>1. SUFFICES ASSUME fails = 0
                 PROVE  power = [c \in Crtcs |-> IF c \in Started THEN 1 ELSE 0]
    BY DEF PowerExact
  <2>2. power \in [Crtcs -> -MaxFail .. 1]
    BY <1>1 DEF IInv, TypeOK
  <2>3. ASSUME NEW c \in Crtcs PROVE power[c] = IF c \in Started THEN 1 ELSE 0
    <3>1. power[c] \in Int /\ Uses(c) \in Int
      BY <2>2 DEF Uses
    <3>2. Uses(c) - 0 <= power[c] /\ power[c] <= Uses(c)
      BY <1>1, <2>1 DEF IInv, PowerInv
    <3> QED  BY <3>1, <3>2 DEF Uses
  <2> QED  BY <2>2, <2>3
<1> QED  BY Invariant, <1>1, PTL

\* Unless a register was written without power, the LUT of every active CRTC is,
\* between commits, as its state wants it: LutInv when nothing is stale.
THEOREM TablesLoaded == Spec => []LutExact
<1>1. ASSUME IInv PROVE LutExact
  <2>1. SUFFICES ASSUME stage = "idle", unpowered = {}, NEW c \in active
                 PROVE  Loaded(c)
    BY DEF LutExact, Loaded
  <2>2. c \in Started \ Stale
    BY <2>1 DEF Started, Stale
  <2> QED  BY <1>1, <2>1, <2>2 DEF IInv, LutInv
<1> QED  BY Invariant, <1>1, PTL
================================================================================
