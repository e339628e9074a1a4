---------------------------------- MODULE Cmm ----------------------------------
(***************************************************************************)
(* The colour management unit of each CRTC (rcar_cmm.c): powered around    *)
(* the time its channel runs, and loaded with the gamma table of the CRTC  *)
(* state, by the handlers of rcar_du_crtc.c.  Calls to enable and disable  *)
(* it are not reference-counted.                                           *)
(***************************************************************************)
EXTENDS CommitTail, Integers

CONSTANTS
  Tables,           \* gamma tables, already of the right size
  NoTable,          \* the NULL gamma_lut
  MaxFail           \* bound: failing rcar_cmm_enable() calls in a behaviour

ASSUME CmmAssumption == NoTable \notin Tables /\ MaxFail \in Nat

VARIABLES
  gamma,            \* gamma[c]: crtc->state->gamma_lut
  color,            \* CRTCs whose state has color_mgmt_changed
  power,            \* power[c]: runtime PM usage count of the CMM device
  lut_enabled,      \* CMMs with rcmm->lut.enabled
  lut_ctrl,         \* CMMs with CM2_LUT_CTRL_LUT_EN set in the register
  lut_tbl,          \* lut_tbl[c]: table in the CM2_LUT_TBL registers
  unpowered,        \* CMMs whose registers were written without power
  fails             \* rcar_cmm_enable() calls that failed so far

unit == <<power, lut_enabled, lut_ctrl, lut_tbl, unpowered, fails>>
vars == <<tail, gamma, color, unit>>

TypeOK ==
  /\ TailTypeOK
  /\ gamma \in [Crtcs -> Tables \cup {NoTable}]
  /\ color \subseteq Crtcs
  /\ power \in [Crtcs -> -MaxFail .. 1]
  /\ lut_enabled \subseteq Crtcs
  /\ lut_ctrl \subseteq Crtcs
  /\ lut_tbl \in [Crtcs -> Tables \cup {NoTable}]
  /\ unpowered \subseteq Crtcs
  /\ fails \in 0..MaxFail

Init ==
  /\ TailInit
  /\ gamma = [c \in Crtcs |-> NoTable]
  /\ color = {}
  /\ power = [c \in Crtcs |-> 0]
  /\ lut_enabled = {} /\ lut_ctrl = {}
  /\ lut_tbl = [c \in Crtcs |-> NoTable]
  /\ unpowered = {}
  /\ fails = 0

--------------------------------------------------------------------------------
(* rcar_cmm_setup() with `powered' telling whether the device is; a register *)
(* write that finds it off is lost.                                          *)

\* No table: the LUT is switched off if it was on.
SetupNone(c, powered) ==
  /\ gamma[c] = NoTable
  /\ lut_enabled' = lut_enabled \ {c}
  /\ lut_ctrl' = IF powered /\ c \in lut_enabled THEN lut_ctrl \ {c} ELSE lut_ctrl
  /\ unpowered' = IF ~powered /\ c \in lut_enabled THEN unpowered \cup {c} ELSE unpowered
  /\ UNCHANGED lut_tbl

\* A table: the LUT is switched on if it was off, and the table written.
SetupTable(c, powered) ==
  /\ gamma[c] # NoTable
  /\ lut_enabled' = lut_enabled \cup {c}
  /\ lut_ctrl' = IF powered /\ c \notin lut_enabled THEN lut_ctrl \cup {c} ELSE lut_ctrl
  /\ lut_tbl' = IF powered THEN [lut_tbl EXCEPT ![c] = gamma[c]] ELSE lut_tbl
  /\ unpowered' = IF powered THEN unpowered ELSE unpowered \cup {c}

Setup(c, powered) == SetupNone(c, powered) \/ SetupTable(c, powered)

\* Mutant of Disable: lut.enabled survives.
DisableKeepingFlag(c) ==
  /\ lut_ctrl' = IF power[c] > 0 THEN lut_ctrl \ {c} ELSE lut_ctrl
  /\ unpowered' = IF power[c] > 0 THEN unpowered ELSE unpowered \cup {c}
  /\ power' = [power EXCEPT ![c] = @ - 1]
  /\ UNCHANGED lut_enabled

\* rcar_cmm_disable(): the control register is cleared, then the device put.
Disable(c) ==
  /\ lut_ctrl' = IF power[c] > 0 THEN lut_ctrl \ {c} ELSE lut_ctrl
  /\ unpowered' = IF power[c] > 0 THEN unpowered ELSE unpowered \cup {c}
  /\ lut_enabled' = lut_enabled \ {c}
  /\ power' = [power EXCEPT ![c] = @ - 1]

--------------------------------------------------------------------------------
(* rcar_du_crtc.c                                                            *)

\* Mutant of AtomicDisable: the stop of the CRTC leaves the unit on.
AtomicDisableSkipped(c) ==
  Handle("disable", c) /\ UNCHANGED <<gamma, color, unit>>

\* rcar_du_crtc_stop() disables the unit once the planes are off.
AtomicDisable(c) ==
  /\ Handle("disable", c)
  /\ Disable(c)
  /\ UNCHANGED <<gamma, color, lut_tbl, fails>>

ActiveChanged(c) == (c \in was) # (c \in active)

\* "If the active state changed, we let .atomic_enable handle CMM."
AtomicBegin(c) ==
  /\ Handle("begin", c)
  /\ \/ /\ c \in color /\ ~ActiveChanged(c)
        /\ Setup(c, power[c] > 0)
     \/ /\ c \notin color \/ ActiveChanged(c)
        /\ UNCHANGED <<lut_enabled, lut_ctrl, lut_tbl, unpowered>>
  /\ UNCHANGED <<gamma, color, power, fails>>

AtomicFlush(c) == Handle("flush", c) /\ UNCHANGED <<gamma, color, unit>>

\* The unit is enabled before the channel starts, and set up after it has; the
\* outcome of rcar_cmm_enable() is ignored.
AtomicEnable(c) ==
  /\ Handle("enable", c)
  /\ \/ /\ power' = [power EXCEPT ![c] = @ + 1]
        /\ UNCHANGED fails
     \/ /\ fails < MaxFail
        /\ fails' = fails + 1
        /\ UNCHANGED power
  /\ Setup(c, power'[c] > 0)
  /\ UNCHANGED <<gamma, color>>

\* A commit, which may also change the gamma table of the CRTCs K.
Commit ==
  \E S \in SUBSET Crtcs \ {{}}, M \in SUBSET Crtcs, A \in SUBSET Crtcs, K \in SUBSET Crtcs,
     g \in [Crtcs -> Tables \cup {NoTable}] :
    /\ StartCommit(S, M, A)
    /\ K \subseteq S
    /\ \A c \in Crtcs \ K : g[c] = gamma[c]
    /\ gamma' = g
    /\ color' = K
    /\ UNCHANGED unit

Advance == NextPhase /\ UNCHANGED <<gamma, color, unit>>

Next ==
  \/ Commit
  \/ Advance
  \/ \E c \in Crtcs :
       AtomicDisable(c) \/ AtomicBegin(c) \/ AtomicFlush(c) \/ AtomicEnable(c)

Spec == Init /\ [][Next]_vars

--------------------------------------------------------------------------------
(* Properties *)

\* "It is an error to attempt to enable an already enabled CMM unit, or to attempt
\* to disable a disabled unit": the unit is powered, once, exactly while its
\* channel is started.
PowerExact ==
  fails = 0 => power = [c \in Crtcs |-> IF c \in Started THEN 1 ELSE 0]

\* Between commits the LUT of an active CRTC is on exactly if its state has a
\* gamma table, which is then the one loaded - unless a register was written
\* without power, as begin does for a CRTC that stays active over a mode set.
LutExact ==
  (stage = "idle" /\ unpowered = {}) =>
    \A c \in active : IF gamma[c] = NoTable THEN c \notin lut_ctrl
                      ELSE c \in lut_ctrl /\ lut_tbl[c] = gamma[c]
===============================================================================
