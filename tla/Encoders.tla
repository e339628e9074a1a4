-------------------------------- MODULE Encoders --------------------------------
(***************************************************************************)
(* The encoders that also clock the display controller: LVDS               *)
(* (rcar_lvds.c) and MIPI DSI (rcar_mipi_dsi.c), with the CRTC handlers    *)
(* of rcar_du_crtc.c that borrow their PLL.                                *)
(*                                                                         *)
(* The encoder of a CRTC bears its index.  A CRTC drives its encoder (the  *)
(* output "link"), the parallel output ("dpad"), both or none.  On D3 and  *)
(* E3 the dot clock of a CRTC with "dpad" alone comes from the PLL of its  *)
(* LVDS encoder, on V3U that of every CRTC from its DSI encoder.  In dual- *)
(* link mode LVDS 1 is the companion of LVDS 0, not an output of its own.  *)
(*                                                                         *)
(* The DRM core disables the bridges of a commit before its CRTCs, and     *)
(* enables them after.                                                     *)
(***************************************************************************)
EXTENDS CommitTail

CONSTANTS
  Socs,             \* "simple" (LVDS PLL for LVDS only), "ext" (D3, E3), "dsi" (V3U)
  MaxFail,          \* bound: failing calls in a behaviour
  MaxClk            \* bound: enables of a clock at which no commit starts

ASSUME EncodersAssumption ==
  /\ Crtcs \subseteq {0, 1}
  /\ Socs \subseteq {"simple", "ext", "dsi"}
  /\ MaxFail \in Nat /\ MaxClk \in Nat

VARIABLES
  soc, dual,        \* the device; LVDS 0 has LVDS 1 as its companion
  out, old_out,     \* outputs of each CRTC in its new and old state
  links,            \* CRTCs whose bridge the phase has still to handle
  enc,              \* the encoders
  cut,              \* the companion was disabled with the dot clock it provided
  underflow,        \* a clock was disabled that was not enabled
  fails             \* calls that failed

device == <<soc, dual>>
vars == <<tail, device, out, old_out, links, enc, cut, underflow, fails>>

\* clk: clk_prepare_enable() less clk_disable_unprepare() of clocks.mod;
\* dsi: of clocks.dsi; up: reset deasserted; lit: the output is on.
Encoder == [clk : 0 .. MaxClk + 2, dsi : 0..1, up : BOOLEAN,
            pll : {"off", "dot", "link"}, lit : BOOLEAN]

TypeOK ==
  /\ TailTypeOK
  /\ soc \in Socs /\ dual \in BOOLEAN
  /\ out \in [Crtcs -> SUBSET {"dpad", "link"}]
  /\ old_out \in [Crtcs -> SUBSET {"dpad", "link"}]
  /\ links \subseteq Crtcs
  /\ enc \in [Crtcs -> Encoder]
  /\ cut \in BOOLEAN /\ underflow \in BOOLEAN
  /\ fails \in 0..MaxFail

\* Only the extended PLL encoders of D3 and E3 have RCAR_LVDS_QUIRK_DUAL_LINK.
Init ==
  /\ TailInit
  /\ soc \in Socs
  /\ dual \in (IF soc = "ext" THEN BOOLEAN ELSE {FALSE})
  /\ out = [c \in Crtcs |-> {}] /\ old_out = out
  /\ links = {}
  /\ enc = [c \in Crtcs |-> [clk |-> 0, dsi |-> 0, up |-> FALSE, pll |-> "off", lit |-> FALSE]]
  /\ cut = FALSE /\ underflow = FALSE
  /\ fails = 0

\* clk_disable_unprepare(): the framework warns, and keeps the count, at zero.
Less(count) == IF count = 0 THEN 0 ELSE count - 1

--------------------------------------------------------------------------------
(* LVDS                                                                      *)

\* rcar_lvds_clk_enable(): the PLL for the dot clock alone, if the clock works.
LvdsClkEnable(e, ok) ==
  IF ok THEN [e EXCEPT !.up = TRUE, !.clk = @ + 1, !.pll = "dot"]
        ELSE [e EXCEPT !.up = TRUE]

\* __rcar_lvds_disable(): output and PLL off.
LvdsOff(e) == [e EXCEPT !.lit = FALSE, !.pll = "off"]

\* rcar_lvds_clk_disable(), and the end of rcar_lvds_atomic_disable().
LvdsClkDisable(e) == [LvdsOff(e) EXCEPT !.clk = Less(@), !.up = FALSE]

\* Mutant of LvdsEnable: the companion sets its PLL up as well.
LvdsEnableBothPlls(e, companion, ok) ==
  IF ok THEN [e EXCEPT !.up = TRUE, !.clk = @ + 1, !.lit = TRUE, !.pll = "link"]
        ELSE [e EXCEPT !.up = TRUE]

\* __rcar_lvds_atomic_enable(): the companion leaves its PLL alone.
LvdsEnable(e, companion, ok) ==
  IF ok THEN [e EXCEPT !.up = TRUE, !.clk = @ + 1, !.lit = TRUE,
                       !.pll = IF companion THEN @ ELSE "link"]
        ELSE [e EXCEPT !.up = TRUE]

\* Mutant of LvdsAtomicEnable: the companion is enabled on its own terms only.
LvdsAtomicEnableAlone(c, ok) ==
  [l \in Crtcs |-> IF l = c THEN LvdsEnable(enc[l], FALSE, l \in ok) ELSE enc[l]]

\* The companion is enabled within the enable of encoder 0, if its clock works.
LvdsAtomicEnable(c, ok) ==
  [l \in Crtcs |-> IF l = c THEN LvdsEnable(enc[l], FALSE, l \in ok)
                   ELSE IF dual /\ c \in ok THEN LvdsEnable(enc[l], TRUE, l \in ok)
                   ELSE enc[l]]

\* Mutant of LvdsAtomicDisable: the clock is left on.
LvdsAtomicDisableClocked(c) ==
  IF soc = "ext" THEN enc
  ELSE [enc EXCEPT ![c] = LvdsOff(@)]

\* rcar_lvds_atomic_disable(): nothing with an extended PLL, not even for the
\* companion; and without one there is no companion.
LvdsAtomicDisable(c) ==
  IF soc = "ext" THEN enc
  ELSE [enc EXCEPT ![c] = LvdsClkDisable(@)]

--------------------------------------------------------------------------------
(* MIPI DSI                                                                  *)

\* rcar_mipi_dsi_startup(), which polls for the PHY and its PLL, and shutdown.
DsiStartup(e) == [e EXCEPT !.pll = "dot"]
DsiShutdown(e) == [e EXCEPT !.pll = "off", !.lit = FALSE]

\* rcar_mipi_dsi_clk_enable() up to its n-th call that fails, or all of it (3):
\* module clock, DSI clock, start-up of the PHY.  Nothing is undone.
DsiClkEnable(e, n) ==
  LET clocked == [e EXCEPT !.up = TRUE,
                           !.clk = IF n > 0 THEN @ + 1 ELSE @,
                           !.dsi = IF n > 1 THEN @ + 1 ELSE @]
  IN IF n = 3 THEN DsiStartup(clocked) ELSE clocked

\* rcar_mipi_dsi_clk_disable(); the reset ends the transmission.
DsiClkDisable(e) == [DsiShutdown(e) EXCEPT !.dsi = Less(@), !.clk = Less(@), !.up = FALSE]

\* rcar_mipi_dsi_enable(): high speed clock and video, if the PHY runs.
DsiEnable(e, ok) == [e EXCEPT !.lit = (ok /\ e.pll = "dot")]

--------------------------------------------------------------------------------
(* The handlers of a commit                                                  *)

\* The dot clock of a CRTC with the outputs O comes from its encoder.
ClockedBy(O) == soc = "dsi" \/ (soc = "ext" /\ O = {"dpad"})

\* Which outputs the CRTCs may have: the parallel one is driven by one of them.
Routable(o) ==
  /\ \A c, d \in Crtcs : "dpad" \in o[c] \cap o[d] => c = d
  /\ soc = "dsi" => \A c \in Crtcs : "dpad" \notin o[c]
  /\ soc = "simple" \/ dual => \A c \in Crtcs : "link" \in o[c] => c = 0

\* A commit that sets a mode, and may change the outputs, of the CRTCs M.  Others
\* do not reach the encoders.
Commit ==
  \E M \in SUBSET Crtcs \ {{}}, A \in SUBSET Crtcs, o \in [Crtcs -> SUBSET {"dpad", "link"}] :
    /\ StartCommit(M, M, A)
    /\ \A c \in Crtcs : enc[c].clk <= MaxClk
    /\ Routable(o)
    /\ \A c \in Crtcs \ M : o[c] = out[c]
    /\ out' = o /\ old_out' = out
    /\ links' = {c \in M \cap active : "link" \in out[c]}
    /\ UNCHANGED <<device, enc, cut, underflow, fails>>

Advance ==
  /\ NextPhase
  /\ links = {}
  /\ links' = IF stage = "flush" THEN {c \in todo' : "link" \in out[c]} ELSE {}
  /\ old_out' = IF stage = "enable" THEN out ELSE old_out
  /\ UNCHANGED <<device, out, enc, cut, underflow, fails>>

\* .atomic_disable of the bridge; that of a DSI encoder has none.
BridgeDisable(c) ==
  /\ stage = "disable" /\ c \in links
  /\ links' = links \ {c}
  /\ enc' = IF soc = "dsi" THEN enc ELSE LvdsAtomicDisable(c)
  /\ underflow' = (underflow \/ (soc = "simple" /\ enc[c].clk = 0))
  /\ UNCHANGED <<tail, device, out, old_out, cut, fails>>

\* rcar_du_crtc_atomic_disable() releases, once the CRTC is stopped, the clock
\* that the outputs of its old state needed.
CrtcDisable(c) ==
  /\ Handle("disable", c)
  /\ links = {}
  /\ LET release == ClockedBy(old_out[c])
         without == IF soc = "dsi" THEN DsiClkDisable(enc[c]) ELSE LvdsClkDisable(enc[c])
     IN /\ enc' = IF release THEN [enc EXCEPT ![c] = without] ELSE enc
        /\ underflow' = (underflow \/ (release /\ (enc[c].clk = 0 \/ (soc = "dsi" /\ enc[c].dsi = 0))))
        /\ cut' = (cut \/ (release /\ dual /\ c = 1))
  /\ UNCHANGED <<device, out, old_out, links, fails>>

CrtcUpdate(c) ==
  /\ Handle("begin", c) \/ Handle("flush", c)
  /\ UNCHANGED <<device, out, old_out, links, enc, cut, underflow, fails>>

\* rcar_du_crtc_atomic_enable() takes the clock before it starts the CRTC, and
\* ignores whether it got it.
CrtcEnable(c) ==
  /\ Handle("enable", c)
  /\ \E n \in IF soc = "dsi" THEN 0..3 ELSE 2..3 :
       /\ fails' = IF n < 3 /\ ClockedBy(out[c]) THEN fails + 1 ELSE fails
       /\ fails' <= MaxFail
       /\ enc' = IF ~ClockedBy(out[c]) THEN enc
                 ELSE [enc EXCEPT ![c] = IF soc = "dsi" THEN DsiClkEnable(@, n)
                                         ELSE LvdsClkEnable(@, n = 3)]
  /\ UNCHANGED <<device, out, old_out, links, cut, underflow>>

\* The enable of the bridge, with the encoders `ok' whose calls succeed.
BridgeEnable(c) ==
  /\ stage = "enable" /\ todo = {} /\ c \in links
  /\ links' = links \ {c}
  /\ \E ok \in SUBSET Crtcs :
       /\ fails' = IF ok = Crtcs THEN fails ELSE fails + 1
       /\ fails' <= MaxFail
       /\ enc' = IF soc = "dsi" THEN [enc EXCEPT ![c] = DsiEnable(@, c \in ok)]
                 ELSE LvdsAtomicEnable(c, ok)
  /\ cut' = (cut /\ c # 0)
  /\ UNCHANGED <<tail, device, out, old_out, underflow>>

Next ==
  \/ Commit
  \/ Advance
  \/ \E c \in Crtcs :
       \/ BridgeDisable(c) \/ CrtcDisable(c)
       \/ CrtcUpdate(c)
       \/ CrtcEnable(c) \/ BridgeEnable(c)

Spec == Init /\ [][Next]_vars

--------------------------------------------------------------------------------
(* Properties *)

\* The outputs a started CRTC was started with.
Driving(c) == IF stage = "disable" /\ c \in todo THEN old_out[c] ELSE out[c]

\* "The MIPI DSI module should be enable before starting DU", "we need to enable
\* its clock output explicitly": a CRTC that takes its dot clock from its encoder
\* finds the PLL set up for it as long as it is started, whatever the encoder is
\* used for beside it.
DotClockRuns ==
  fails = 0 =>
    \A c \in Started : ClockedBy(Driving(c)) =>
      enc[c].pll = "dot" /\ enc[c].up /\ enc[c].clk > 0

\* Between commits the encoder of an active output is on, clocked and out of
\* reset, and so is its companion, unless it was also used as a dot clock.
LinksLit ==
  (stage = "idle" /\ fails = 0) =>
    \A c \in active : "link" \in out[c] =>
      /\ enc[c].lit /\ enc[c].up /\ enc[c].clk > 0 /\ enc[c].pll # "off"
      /\ dual /\ ~cut => \A l \in Crtcs : enc[l].lit /\ enc[l].up /\ enc[l].clk > 0

\* No clock is disabled more often than it was enabled unless enabling failed, and
\* even then, between commits, an encoder that is not in use is in reset with its
\* clocks off.  On D3 and E3 it is not.
ClocksBalanced ==
  /\ fails = 0 => ~underflow
  /\ (stage = "idle" /\ soc # "ext") =>
       \A c \in Crtcs \ active : enc[c].clk = 0 /\ enc[c].dsi = 0 /\ ~enc[c].up

\* "Disable the companion LVDS encoder in dual-link mode" (rcar_lvds.c): it is not
\* left on when the output it belongs to is off.
CompanionDisabled ==
  (stage = "idle" /\ dual) =>
    \/ \E c \in active : "link" \in out[c]
    \/ \A l \in Crtcs : ~enc[l].lit
===============================================================================
