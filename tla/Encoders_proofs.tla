---------------------------- MODULE Encoders_proofs ----------------------------
(***************************************************************************)
(* Proofs about Encoders, for any number of failing calls and of enables   *)
(* of a clock, on every kind of device; and, from "Clocks" on, about what  *)
(* the mode set behind them computes, for every mode and every board whose *)
(* clocks are in the ranges the PLLs take.                                 *)
(***************************************************************************)
EXTENDS Encoders, Clocks, CommitTail_proofs, WellFoundedInduction

--------------------------------------------------------------------------------
(* The inductive invariant                                                   *)

\* CRTCs whose bridge is enabled.  A mode set disables those of the CRTCs it stops
\* first, and enables those of the CRTCs it started last.
Linked ==
  IF stage = "idle" THEN {c \in active : "link" \in out[c]}
  ELSE {c \in was \ modeset : "link" \in out[c]}
       \cup (IF stage = "disable" THEN links
             ELSE IF stage = "enable" THEN {c \in Wanted("enable") \ links : "link" \in out[c]}
             ELSE {})

\* The bridges a phase has left belong to CRTCs of its mode set, and outputs are
\* changed by mode sets alone.
LinksInv ==
  /\ dual => soc = "ext"
  /\ Routable(out)
  /\ stage = "disable" =>
       links \subseteq Wanted("disable") /\ \A c \in Crtcs \ modeset : old_out[c] = out[c]
  /\ stage = "enable" => \A c \in links : c \in Wanted("enable") /\ "link" \in out[c]
  /\ stage \notin {"disable", "enable"} => links = {}

\* Every mode set enables the clocks of an encoder at most twice, for the CRTC and
\* for the bridge; that of encoder 0 includes its companion.
CountInv ==
  \A c \in Crtcs :
    /\ enc[c].clk <= MaxClk + 2
    /\ stage \in {"disable", "begin", "flush"} => enc[c].clk <= MaxClk
    /\ stage = "enable" /\ c \in todo => enc[c].clk <= MaxClk
    /\ stage = "enable" /\ (c \in links \/ (dual /\ links # {})) => enc[c].clk <= MaxClk + 1

\* Without an extended PLL, an encoder is clocked at most once, and only while it is
\* in use: a DSI encoder by its CRTC, an LVDS encoder by its bridge.
InUse == IF soc = "dsi" THEN Started ELSE Linked

QuietInv ==
  soc # "ext" =>
    \A c \in Crtcs :
      /\ enc[c].clk <= 1 /\ enc[c].dsi <= 1
      /\ soc = "simple" => enc[c].dsi = 0
      /\ c \notin InUse => enc[c].clk = 0 /\ enc[c].dsi = 0 /\ ~enc[c].up

Running(e) == e.up /\ e.clk > 0

\* What the encoders in use are set up for as long as no call failed.
ClockInv ==
  fails = 0 =>
    /\ ~underflow
    /\ \A c \in Started : ClockedBy(Driving(c)) =>
         enc[c].pll = "dot" /\ Running(enc[c]) /\ (soc = "dsi" => enc[c].dsi > 0)

LitInv ==
  fails = 0 =>
    /\ \A c \in Linked :
         enc[c].lit /\ (soc # "dsi" => Running(enc[c]) /\ enc[c].pll # "off")
    /\ dual /\ ~cut /\ Linked # {} => \A l \in Crtcs : enc[l].lit /\ Running(enc[l])

IInv ==
  /\ TypeOK
  /\ TailInv
  /\ LinksInv
  /\ CountInv
  /\ QuietInv
  /\ ClockInv
  /\ LitInv

--------------------------------------------------------------------------------
(* Lemmas about which bridges are enabled                                    *)

\* The commit enables and disables none, and leaves those of the CRTCs that stop
\* to its first phase.
LEMMA LinkedAtCommit ==
  ASSUME TailInv, LinksInv, NEW M \in SUBSET Crtcs, NEW A \in SUBSET Crtcs,
         StartCommit(M, M, A), Routable(out'), old_out' = out, UNCHANGED device,
         \A c \in Crtcs \ M : out'[c] = out[c],
         links' = {c \in M \cap active : "link" \in out[c]}
  PROVE  LinksInv' /\ Linked' = Linked
<1>1. /\ stage = "idle" /\ stage' = "disable" /\ modeset' = M /\ was' = active
      /\ active \subseteq Crtcs
  BY DEF StartCommit, TailInv, TailTypeOK
<1>2. Linked' = Linked
  BY <1>1 DEF Linked
<1>3. LinksInv'
  BY <1>1 DEF LinksInv, Routable, device, Wanted
<1> QED  BY <1>2, <1>3

\* Nor does the turn to the next phase, which has none left to handle.
LEMMA LinkedAtAdvance ==
  ASSUME TailInv, LinksInv, Advance
  PROVE  LinksInv' /\ Linked' = Linked
<1>1. /\ NextPhase /\ links = {} /\ UNCHANGED <<soc, dual, out>>
      /\ links' = IF stage = "flush" THEN {c \in todo' : "link" \in out[c]} ELSE {}
      /\ UNCHANGED <<was, modeset, active>> /\ stage # "idle" /\ stage' = Following(stage)
      /\ todo' = Wanted(stage')
  BY DEF Advance, NextPhase, device
<1>2. stage \in Phases
  BY <1>1 DEF TailInv, TailTypeOK
<1>3. LinksInv'
  BY <1>1, <1>2 DEF LinksInv, Routable, Following, Phases, Wanted
<1>4. Linked' = Linked
  <2>1. CASE stage = "disable"
    BY <1>1, <2>1 DEF Linked, Following
  <2>2. CASE stage = "begin"
    BY <1>1, <2>2 DEF Linked, Following
  <2>3. CASE stage = "flush"
    BY <1>1, <2>3 DEF Linked, Following, Wanted
  <2>4. CASE stage = "enable"
    <3>1. active = (was \ modeset) \cup (modeset \cap active)
      BY <2>4 DEF TailInv, TailTypeOK
    <3> QED  BY <1>1, <2>4, <3>1 DEF Linked, Following, Wanted
  <2> QED  BY <1>2, <2>1, <2>2, <2>3, <2>4 DEF Phases
<1> QED  BY <1>3, <1>4

\* A CRTC that stops has had its bridge disabled; other handlers of CRTCs find that
\* of their CRTC as they leave it.
LEMMA LinkedAtHandlers ==
  ASSUME TailInv, LinksInv, NEW c \in Crtcs, NEW phase \in Phases, Handle(phase, c),
         UNCHANGED <<device, out, old_out, links>>
  PROVE  /\ LinksInv' /\ Linked' = Linked
         /\ phase = "disable" /\ links = {} => c \notin Linked
<1>1. /\ stage = phase /\ c \in todo /\ UNCHANGED <<stage, scope, modeset, was, active>>
      /\ c \in Wanted(stage) /\ stage # "idle" /\ UNCHANGED <<soc, dual>>
  BY DEF Handle, TailInv, Phases, device
<1>2. LinksInv'
  BY <1>1 DEF LinksInv, Routable, Wanted
<1>3. Linked' = Linked
  BY <1>1 DEF Linked, Wanted
<1>4. phase = "disable" /\ links = {} => c \notin Linked
  BY <1>1 DEF Linked, Wanted
<1> QED  BY <1>2, <1>3, <1>4

\* The disable of a bridge that was enabled.
LEMMA LinkedAtBridgeDisable ==
  ASSUME TailInv, LinksInv, NEW c \in Crtcs, BridgeDisable(c)
  PROVE  LinksInv' /\ c \in Linked /\ Linked' = Linked \ {c}
<1>1. /\ stage = "disable" /\ c \in links /\ links' = links \ {c}
      /\ UNCHANGED <<stage, scope, modeset, was, active, soc, dual, out, old_out>>
  BY DEF BridgeDisable, tail, device
<1>2. links \subseteq modeset \cap was
  BY <1>1 DEF LinksInv, Wanted
<1>3. LinksInv'
  BY <1>1 DEF LinksInv, Routable, Wanted
<1> QED  BY <1>1, <1>2, <1>3 DEF Linked

\* The enable of one that was not, of a CRTC that is started.  In dual-link mode it
\* is that of encoder 0.
LEMMA LinkedAtBridgeEnable ==
  ASSUME TailInv, LinksInv, NEW c \in Crtcs, BridgeEnable(c)
  PROVE  /\ LinksInv'
         /\ c \in links /\ c \notin Linked /\ Linked' = Linked \cup {c}
         /\ c \in Started /\ "link" \in out[c] /\ stage = "enable" /\ todo = {}
         /\ soc = "simple" \/ dual => c = 0
         /\ dual => links' = {}
<1>1. /\ stage = "enable" /\ todo = {} /\ c \in links /\ links' = links \ {c}
      /\ UNCHANGED <<stage, scope, modeset, was, active, soc, dual, out, old_out>>
  BY DEF BridgeEnable, tail, device
<1>2. \A d \in links : d \in modeset \cap active /\ "link" \in out[d] /\ d \in Crtcs
  BY <1>1 DEF LinksInv, Wanted, TailInv, TailTypeOK
<1>3. LinksInv'
  BY <1>1 DEF LinksInv, Routable, Wanted
<1>4. c \notin Linked /\ Linked' = Linked \cup {c}
  BY <1>1, <1>2 DEF Linked, Wanted
<1>5. c \in Started
  BY <1>1, <1>2 DEF Started, Enabled, Wanted
<1>6. (soc = "simple" \/ dual => \A d \in links : d = 0)
  BY <1>2 DEF LinksInv, Routable
<1> QED  BY <1>1, <1>2, <1>3, <1>4, <1>5, <1>6

\* Bridges that are enabled are those of CRTCs.
LEMMA LinkedSubset ==
  ASSUME TailInv, LinksInv
  PROVE  Linked \subseteq Crtcs /\ links \subseteq Crtcs
BY DEF TailInv, TailTypeOK, LinksInv, Linked, Wanted

--------------------------------------------------------------------------------
(* Lemmas about the operations on an encoder                                 *)

\* An encoder with any number of enables.
AnyEncoder == [clk : Nat, dsi : 0..1, up : BOOLEAN, pll : {"off", "dot", "link"}, lit : BOOLEAN]

\* The bound on the enables is what makes one of the type.
LEMMA EncodersTyped ==
  ASSUME NEW f \in [Crtcs -> AnyEncoder], \A c \in Crtcs : f[c].clk <= MaxClk + 2
  PROVE  f \in [Crtcs -> Encoder]
<1>1. MaxClk \in Nat
  BY EncodersAssumption
<1>2. ASSUME NEW c \in Crtcs PROVE f[c] \in Encoder
  <2>1. f[c] \in AnyEncoder /\ f[c].clk <= MaxClk + 2
    OBVIOUS
  <2> QED  BY <1>1, <2>1 DEF AnyEncoder, Encoder
<1> QED  BY <1>2

\* Every encoder of the type is one with some number of enables.
LEMMA EncodersAny ==
  ASSUME NEW e \in Encoder
  PROVE  e \in AnyEncoder
BY EncodersAssumption DEF Encoder, AnyEncoder

\* Setting one field of an encoder.
LEMMA FieldSteps ==
  ASSUME NEW e \in AnyEncoder
  PROVE  /\ \A v \in Nat : [e EXCEPT !.clk = v] \in AnyEncoder
         /\ \A v \in 0..1 : [e EXCEPT !.dsi = v] \in AnyEncoder
         /\ \A v \in BOOLEAN : [e EXCEPT !.up = v] \in AnyEncoder
         /\ \A v \in {"off", "dot", "link"} : [e EXCEPT !.pll = v] \in AnyEncoder
         /\ \A v \in BOOLEAN : [e EXCEPT !.lit = v] \in AnyEncoder
<1>1. \A v \in Nat : [e EXCEPT !.clk = v] \in AnyEncoder
  BY DEF AnyEncoder
<1>2. \A v \in 0..1 : [e EXCEPT !.dsi = v] \in AnyEncoder
  BY DEF AnyEncoder
<1>3. \A v \in BOOLEAN : [e EXCEPT !.up = v] \in AnyEncoder
  BY DEF AnyEncoder
<1>4. \A v \in {"off", "dot", "link"} : [e EXCEPT !.pll = v] \in AnyEncoder
  BY DEF AnyEncoder
<1>5. \A v \in BOOLEAN : [e EXCEPT !.lit = v] \in AnyEncoder
  BY DEF AnyEncoder
<1> QED  BY <1>1, <1>2, <1>3, <1>4, <1>5

\* LVDS: enabling the clock for the CRTC, which leaves the output alone.
LEMMA LvdsClkEnableSteps ==
  ASSUME NEW e \in AnyEncoder, NEW ok \in BOOLEAN
  PROVE  /\ LvdsClkEnable(e, ok) \in AnyEncoder
         /\ LvdsClkEnable(e, ok).clk = (IF ok THEN e.clk + 1 ELSE e.clk)
         /\ LvdsClkEnable(e, ok).dsi = e.dsi
         /\ LvdsClkEnable(e, ok).up
         /\ LvdsClkEnable(e, ok).lit = e.lit
         /\ LvdsClkEnable(e, ok).pll = (IF ok THEN "dot" ELSE e.pll)
<1>1. e.clk + 1 \in Nat
  BY DEF AnyEncoder
<1>2. LvdsClkEnable(e, ok) =
        (IF ok THEN [[[e EXCEPT !.up = TRUE] EXCEPT !.clk = e.clk + 1] EXCEPT !.pll = "dot"]
               ELSE [e EXCEPT !.up = TRUE])
  BY DEF LvdsClkEnable, AnyEncoder
<1>3. LvdsClkEnable(e, ok) \in AnyEncoder
  <2>1. [e EXCEPT !.up = TRUE] \in AnyEncoder
    BY FieldSteps
  <2>2. [[e EXCEPT !.up = TRUE] EXCEPT !.clk = e.clk + 1] \in AnyEncoder
    BY <1>1, <2>1, FieldSteps
  <2> QED  BY <1>2, <2>1, <2>2, FieldSteps
<1>4. /\ LvdsClkEnable(e, ok).clk = (IF ok THEN e.clk + 1 ELSE e.clk)
      /\ LvdsClkEnable(e, ok).dsi = e.dsi
  BY DEF LvdsClkEnable, AnyEncoder
<1>5. LvdsClkEnable(e, ok).up
  BY DEF LvdsClkEnable, AnyEncoder
<1>6. LvdsClkEnable(e, ok).lit = e.lit
  BY DEF LvdsClkEnable, AnyEncoder
<1>7. LvdsClkEnable(e, ok).pll = (IF ok THEN "dot" ELSE e.pll)
  BY DEF LvdsClkEnable, AnyEncoder
<1> QED  BY <1>3, <1>4, <1>5, <1>6, <1>7

\* LVDS: disabling everything.
LEMMA LvdsClkDisableSteps ==
  ASSUME NEW e \in AnyEncoder
  PROVE  /\ LvdsClkDisable(e) \in AnyEncoder
         /\ LvdsClkDisable(e).clk = Less(e.clk)
         /\ LvdsClkDisable(e).dsi = e.dsi
         /\ ~LvdsClkDisable(e).up
<1>1. Less(e.clk) \in Nat
  BY DEF Less, AnyEncoder
<1>2. LvdsOff(e) \in AnyEncoder /\ LvdsOff(e).clk = e.clk /\ LvdsOff(e).dsi = e.dsi
  BY DEF LvdsOff, AnyEncoder
<1>3. LvdsClkDisable(e) = [[LvdsOff(e) EXCEPT !.clk = Less(e.clk)] EXCEPT !.up = FALSE]
  BY <1>2 DEF LvdsClkDisable, AnyEncoder
<1>4. [LvdsOff(e) EXCEPT !.clk = Less(e.clk)] \in AnyEncoder
  BY <1>1, <1>2, FieldSteps
<1>5. LvdsClkDisable(e) \in AnyEncoder
  BY <1>3, <1>4, FieldSteps
<1>6. LvdsClkDisable(e).clk = Less(e.clk)
  BY <1>2, <1>3 DEF AnyEncoder
<1>7. LvdsClkDisable(e).dsi = e.dsi
  BY <1>2, <1>3 DEF AnyEncoder
<1>8. ~LvdsClkDisable(e).up
  BY <1>2, <1>3 DEF AnyEncoder
<1> QED  BY <1>5, <1>6, <1>7, <1>8

\* LVDS: enabling the output, of a companion without its PLL.
LEMMA LvdsEnableSteps ==
  ASSUME NEW e \in AnyEncoder, NEW companion \in BOOLEAN, NEW ok \in BOOLEAN
  PROVE  /\ LvdsEnable(e, companion, ok) \in AnyEncoder
         /\ LvdsEnable(e, companion, ok).clk = (IF ok THEN e.clk + 1 ELSE e.clk)
         /\ LvdsEnable(e, companion, ok).dsi = e.dsi
         /\ LvdsEnable(e, companion, ok).up
         /\ ok => LvdsEnable(e, companion, ok).lit
         /\ ~companion /\ ok => LvdsEnable(e, companion, ok).pll = "link"
         /\ companion => LvdsEnable(e, companion, ok).pll = e.pll
<1>1. e.clk + 1 \in Nat
  BY DEF AnyEncoder
<1>2. /\ [e EXCEPT !.up = TRUE] \in AnyEncoder
      /\ [[e EXCEPT !.up = TRUE] EXCEPT !.clk = e.clk + 1] \in AnyEncoder
  <2>1. [e EXCEPT !.up = TRUE] \in AnyEncoder
    BY FieldSteps
  <2> QED  BY <1>1, <2>1, FieldSteps
<1>3. [[[e EXCEPT !.up = TRUE] EXCEPT !.clk = e.clk + 1] EXCEPT !.lit = TRUE] \in AnyEncoder
  BY <1>2, FieldSteps
<1>4. (IF companion THEN e.pll ELSE "link") \in {"off", "dot", "link"}
  BY DEF AnyEncoder
<1>5. LvdsEnable(e, companion, ok) =
        IF ok THEN [[[[e EXCEPT !.up = TRUE] EXCEPT !.clk = e.clk + 1] EXCEPT !.lit = TRUE]
                      EXCEPT !.pll = IF companion THEN e.pll ELSE "link"]
              ELSE [e EXCEPT !.up = TRUE]
  BY DEF LvdsEnable, AnyEncoder
<1>6. LvdsEnable(e, companion, ok) \in AnyEncoder
  BY <1>2, <1>3, <1>4, <1>5, FieldSteps
<1>7. /\ LvdsEnable(e, companion, ok).clk = (IF ok THEN e.clk + 1 ELSE e.clk)
      /\ LvdsEnable(e, companion, ok).dsi = e.dsi
  BY DEF LvdsEnable, AnyEncoder
<1>8. LvdsEnable(e, companion, ok).up
  BY DEF LvdsEnable, AnyEncoder
<1>9. ok => LvdsEnable(e, companion, ok).lit
  BY DEF LvdsEnable, AnyEncoder
<1>10. /\ ~companion /\ ok => LvdsEnable(e, companion, ok).pll = "link"
       /\ companion => LvdsEnable(e, companion, ok).pll = e.pll
  BY DEF LvdsEnable, AnyEncoder
<1> QED  BY <1>6, <1>7, <1>8, <1>9, <1>10

\* DSI: enabling the clocks of an encoder that has none enabled, which completes
\* only in the last case.
LEMMA DsiClkEnableSteps ==
  ASSUME NEW e \in AnyEncoder, e.clk = 0, e.dsi = 0, NEW n \in 0..3
  PROVE  /\ DsiClkEnable(e, n) \in AnyEncoder
         /\ DsiClkEnable(e, n).clk <= 1
         /\ n = 3 => /\ DsiClkEnable(e, n).pll = "dot" /\ DsiClkEnable(e, n).up
                     /\ DsiClkEnable(e, n).clk = 1 /\ DsiClkEnable(e, n).dsi = 1
         /\ DsiClkEnable(e, n).lit = e.lit
<1> DEFINE one == IF n > 0 THEN 1 ELSE 0
           two == IF n > 1 THEN 1 ELSE 0
           clocked == [[[e EXCEPT !.up = TRUE] EXCEPT !.clk = one] EXCEPT !.dsi = two]
<1>1. /\ one \in Nat /\ two \in 0..1 /\ one <= 1
      /\ n = 3 => one = 1 /\ two = 1
  OBVIOUS
<1> HIDE DEF one, two
<1>2. clocked \in AnyEncoder
  <2>1. [e EXCEPT !.up = TRUE] \in AnyEncoder
    BY FieldSteps
  <2>2. [[e EXCEPT !.up = TRUE] EXCEPT !.clk = one] \in AnyEncoder
    BY <1>1, <2>1, FieldSteps
  <2> QED  BY <1>1, <2>2, FieldSteps
<1>3. clocked.clk = one /\ clocked.dsi = two /\ clocked.lit = e.lit /\ clocked.up
  BY DEF AnyEncoder
<1>4. DsiClkEnable(e, n) = IF n = 3 THEN [clocked EXCEPT !.pll = "dot"] ELSE clocked
  BY DEF DsiClkEnable, DsiStartup, AnyEncoder, one, two
<1> HIDE DEF clocked
<1>5. DsiClkEnable(e, n) \in AnyEncoder
  BY <1>2, <1>4, FieldSteps
<1>6. DsiClkEnable(e, n).clk = one /\ DsiClkEnable(e, n).dsi = two
  BY <1>2, <1>3, <1>4 DEF AnyEncoder
<1>7. DsiClkEnable(e, n).lit = e.lit
  BY <1>2, <1>3, <1>4 DEF AnyEncoder
<1>8. n = 3 => DsiClkEnable(e, n).pll = "dot" /\ DsiClkEnable(e, n).up
  BY <1>2, <1>3, <1>4 DEF AnyEncoder
<1> QED  BY <1>1, <1>5, <1>6, <1>7, <1>8

\* DSI: disabling the clocks.
LEMMA DsiClkDisableSteps ==
  ASSUME NEW e \in AnyEncoder
  PROVE  /\ DsiClkDisable(e) \in AnyEncoder
         /\ DsiClkDisable(e).clk = Less(e.clk)
         /\ DsiClkDisable(e).dsi = Less(e.dsi)
         /\ ~DsiClkDisable(e).up
<1>1. Less(e.clk) \in Nat /\ Less(e.dsi) \in 0..1
  BY DEF Less, AnyEncoder
<1>2. DsiShutdown(e) \in AnyEncoder /\ DsiShutdown(e).clk = e.clk /\ DsiShutdown(e).dsi = e.dsi
  BY DEF DsiShutdown, AnyEncoder
<1> DEFINE without == [[DsiShutdown(e) EXCEPT !.dsi = Less(e.dsi)] EXCEPT !.clk = Less(e.clk)]
<1>3. without \in AnyEncoder
  <2>1. [DsiShutdown(e) EXCEPT !.dsi = Less(e.dsi)] \in AnyEncoder
    BY <1>1, <1>2, FieldSteps
  <2> QED  BY <1>1, <2>1, FieldSteps
<1>4. without.clk = Less(e.clk) /\ without.dsi = Less(e.dsi)
  BY <1>2 DEF AnyEncoder
<1>5. DsiClkDisable(e) = [without EXCEPT !.up = FALSE]
  BY <1>2 DEF DsiClkDisable, AnyEncoder
<1> HIDE DEF without
<1>6. DsiClkDisable(e) \in AnyEncoder
  BY <1>3, <1>5, FieldSteps
<1>7. DsiClkDisable(e).clk = Less(e.clk) /\ DsiClkDisable(e).dsi = Less(e.dsi)
  BY <1>3, <1>4, <1>5 DEF AnyEncoder
<1>8. ~DsiClkDisable(e).up
  BY <1>3, <1>5 DEF AnyEncoder
<1> QED  BY <1>6, <1>7, <1>8

\* DSI: enabling the output, if the PHY runs.
LEMMA DsiEnableSteps ==
  ASSUME NEW e \in AnyEncoder, NEW ok \in BOOLEAN
  PROVE  /\ DsiEnable(e, ok) \in AnyEncoder
         /\ DsiEnable(e, ok).clk = e.clk /\ DsiEnable(e, ok).dsi = e.dsi
         /\ DsiEnable(e, ok).up = e.up
         /\ DsiEnable(e, ok).pll = e.pll
         /\ ok /\ e.pll = "dot" => DsiEnable(e, ok).lit
<1>1. DsiEnable(e, ok) \in AnyEncoder
  BY FieldSteps DEF DsiEnable
<1>2. /\ DsiEnable(e, ok).clk = e.clk /\ DsiEnable(e, ok).dsi = e.dsi
      /\ DsiEnable(e, ok).pll = e.pll
  BY DEF DsiEnable, AnyEncoder
<1>3. DsiEnable(e, ok).up = e.up
  BY DEF DsiEnable, AnyEncoder
<1>4. ok /\ e.pll = "dot" => DsiEnable(e, ok).lit
  BY DEF DsiEnable, AnyEncoder
<1> QED  BY <1>1, <1>2, <1>3, <1>4

--------------------------------------------------------------------------------
(* Each action preserves the invariant                                       *)

\* Steps that leave the encoders alone, and what their CRTCs and bridges are in.
LEMMA EncodersAlone ==
  ASSUME IInv, UNCHANGED <<device, enc, cut, underflow, fails>>,
         Started' = Started, Linked' = Linked,
         \A c \in Started : Driving(c)' = Driving(c)
  PROVE  QuietInv' /\ ClockInv' /\ LitInv'
<1>1. UNCHANGED <<soc, dual>>
  BY DEF device
<1>2. QuietInv'
  BY <1>1 DEF IInv, QuietInv, InUse
<1>3. ClockInv'
  <2>1. \A c \in Started : ClockedBy(Driving(c))' <=> ClockedBy(Driving(c))
    BY <1>1 DEF ClockedBy
  <2> QED  BY <1>1, <2>1 DEF IInv, ClockInv, Running
<1>4. LitInv'
  BY <1>1 DEF IInv, LitInv, Running
<1> QED  BY <1>2, <1>3, <1>4

\* A commit leaves the outputs of the CRTCs that are started to their old state.
LEMMA CommitPreserves ==
  ASSUME IInv, Commit
  PROVE  IInv'
<1>1. PICK M \in SUBSET Crtcs \ {{}}, A \in SUBSET Crtcs, o \in [Crtcs -> SUBSET {"dpad", "link"}] :
        /\ StartCommit(M, M, A)
        /\ \A c \in Crtcs : enc[c].clk <= MaxClk
        /\ Routable(o)
        /\ \A c \in Crtcs \ M : o[c] = out[c]
        /\ out' = o /\ old_out' = out
        /\ links' = {c \in M \cap active : "link" \in out[c]}
        /\ UNCHANGED <<device, enc, cut, underflow, fails>>
  BY DEF Commit
<1>2. TailInv' /\ Started' = Started
  BY <1>1, TailStart DEF IInv
<1>3. LinksInv' /\ Linked' = Linked
  <2>1. Routable(out') /\ \A c \in Crtcs \ M : out'[c] = out[c]
    BY <1>1
  <2> QED  BY <1>1, <2>1, LinkedAtCommit DEF IInv
<1>4. /\ stage = "idle" /\ stage' = "disable" /\ todo' = M \cap active
      /\ Started = active /\ UNCHANGED <<soc, dual>>
  BY <1>1 DEF StartCommit, Started, device
<1>5. TypeOK'
  BY <1>1, <1>2, <1>4 DEF IInv, TypeOK, TailInv
<1>6. CountInv'
  BY <1>1, <1>4 DEF IInv, CountInv
<1>7. \A c \in Started : Driving(c)' = Driving(c)
  <2> SUFFICES ASSUME NEW c \in Started PROVE Driving(c)' = Driving(c)
    OBVIOUS
  <2>1. Driving(c) = out[c]
    BY <1>4 DEF Driving
  <2>2. c \in Crtcs /\ c \in active
    BY <1>4, TailSubsets DEF IInv
  <2>3. CASE c \in M
    BY <1>1, <1>4, <2>1, <2>2, <2>3 DEF Driving
  <2>4. CASE c \notin M
    BY <1>1, <1>4, <2>1, <2>2, <2>4 DEF Driving
  <2> QED  BY <2>3, <2>4
<1> QED  BY <1>1, <1>2, <1>3, <1>5, <1>6, <1>7, EncodersAlone DEF IInv

\* So does the turn to the next phase: a CRTC of the mode set is stopped by then.
LEMMA AdvancePreserves ==
  ASSUME IInv, Advance
  PROVE  IInv'
<1>1. /\ NextPhase /\ UNCHANGED <<device, out, enc, cut, underflow, fails>>
      /\ links = {} /\ links' = IF stage = "flush" THEN {c \in todo' : "link" \in out[c]} ELSE {}
      /\ old_out' = IF stage = "enable" THEN out ELSE old_out
  BY DEF Advance
<1>2. TailInv' /\ Started' = Started
  BY <1>1, TailNextPhase DEF IInv
<1>3. LinksInv' /\ Linked' = Linked
  BY LinkedAtAdvance DEF IInv
<1>4. /\ stage # "idle" /\ todo = {} /\ stage' = Following(stage) /\ stage' # "disable"
      /\ UNCHANGED <<soc, dual>> /\ stage \in Phases
  BY <1>1 DEF NextPhase, Following, device, IInv, TailInv, TailTypeOK
<1>5. TypeOK'
  BY <1>1, <1>2, <1>4 DEF IInv, TypeOK, TailInv, TailTypeOK
<1>6. CountInv'
  <2>1. stage' \in {"begin", "flush", "enable"} => stage \in {"disable", "begin", "flush"}
    BY <1>4 DEF Following, Phases
  <2>2. ASSUME NEW c \in Crtcs
        PROVE  /\ MaxClk \in Nat /\ enc[c].clk \in Nat
               /\ enc[c].clk <= MaxClk + 2
               /\ stage' \in {"begin", "flush", "enable"} => enc[c].clk <= MaxClk
    BY <2>1, EncodersAny, EncodersAssumption DEF IInv, TypeOK, AnyEncoder, CountInv
  <2>3. stage' # "disable"
    BY <1>4
  <2> QED  BY <1>1, <1>4, <2>2, <2>3 DEF CountInv
<1>7. \A c \in Started : Driving(c)' = Driving(c)
  BY <1>1, <1>4 DEF Driving
<1> QED  BY <1>1, <1>2, <1>3, <1>5, <1>6, <1>7, EncodersAlone DEF IInv

\* Begin and flush have nothing to do with the encoders.
LEMMA UpdatePreserves ==
  ASSUME IInv, NEW c \in Crtcs, CrtcUpdate(c)
  PROVE  IInv'
<1>1. /\ Handle("begin", c) \/ Handle("flush", c)
      /\ UNCHANGED <<device, out, old_out, links, enc, cut, underflow, fails>>
  BY DEF CrtcUpdate
<1>2. TailInv' /\ Started' = Started
  BY <1>1, TailBegin, TailFlush DEF IInv
<1>3. LinksInv' /\ Linked' = Linked
  BY <1>1, LinkedAtHandlers DEF IInv, Phases
<1>4. stage' = stage /\ stage \in {"begin", "flush"} /\ UNCHANGED <<soc, dual>>
  BY <1>1 DEF Handle, device
<1>5. TypeOK' /\ CountInv'
  BY <1>1, <1>2, <1>4 DEF IInv, TypeOK, TailInv, CountInv
<1>6. \A d \in Started : Driving(d)' = Driving(d)
  BY <1>1, <1>4 DEF Driving
<1> QED  BY <1>1, <1>2, <1>3, <1>5, <1>6, EncodersAlone DEF IInv

\* What an invariant says of the encoders' records.
LEMMA EncodersOK ==
  ASSUME IInv
  PROVE  /\ MaxClk \in Nat /\ MaxFail \in Nat /\ fails \in Nat
         /\ soc \in {"simple", "ext", "dsi"} /\ dual \in BOOLEAN
         /\ enc \in [Crtcs -> AnyEncoder]
         /\ \A c \in Crtcs :
              /\ enc[c] \in AnyEncoder
              /\ enc[c].clk \in Nat /\ enc[c].dsi \in 0..1
              /\ enc[c].up \in BOOLEAN /\ enc[c].lit \in BOOLEAN
<1>1. \A c \in Crtcs : enc[c] \in AnyEncoder
  BY EncodersAny DEF IInv, TypeOK
<1>2. enc \in [Crtcs -> AnyEncoder]
  BY <1>1 DEF IInv, TypeOK
<1>3. ASSUME NEW c \in Crtcs
      PROVE  /\ enc[c].clk \in Nat /\ enc[c].dsi \in 0..1
             /\ enc[c].up \in BOOLEAN /\ enc[c].lit \in BOOLEAN
  BY <1>1 DEF AnyEncoder
<1> QED  BY <1>1, <1>2, <1>3, EncodersAssumption DEF IInv, TypeOK

\* The type invariant after a step of encoders within the bound.
LEMMA TypeAfterStep ==
  ASSUME IInv, TailInv', CountInv', enc' \in [Crtcs -> AnyEncoder],
         UNCHANGED <<device, out, old_out>>, links' \subseteq links,
         cut' \in BOOLEAN, underflow' \in BOOLEAN, fails' \in Nat, fails' <= MaxFail
  PROVE  TypeOK'
<1>1. enc' \in [Crtcs -> Encoder]
  BY EncodersTyped DEF CountInv
<1>2. fails' \in 0..MaxFail
  BY EncodersAssumption
<1> QED  BY <1>1, <1>2 DEF IInv, TypeOK, TailInv, device

\* The bridge of an LVDS encoder without an extended PLL gives its clock back; others
\* keep theirs.
LEMMA BridgeDisablePreserves ==
  ASSUME IInv, NEW c \in Crtcs, BridgeDisable(c)
  PROVE  IInv'
<1>1. /\ stage = "disable" /\ links' = links \ {c}
      /\ enc' = IF soc = "dsi" THEN enc ELSE LvdsAtomicDisable(c)
      /\ underflow' = (underflow \/ (soc = "simple" /\ enc[c].clk = 0))
      /\ UNCHANGED <<tail, device, out, old_out, cut, fails>>
      /\ UNCHANGED <<stage, todo, soc, dual>>
  BY DEF BridgeDisable, tail, device
<1>2. TailInv' /\ Started' = Started
  BY <1>1, TailStutter DEF IInv
<1>3. LinksInv' /\ c \in Linked /\ Linked' = Linked \ {c}
  BY LinkedAtBridgeDisable DEF IInv
<1>4. \A d \in Started : Driving(d)' = Driving(d)
  BY <1>1 DEF Driving
<1>5. CASE soc # "simple"
  <2>1. enc' = enc /\ underflow' = underflow
    BY <1>1, <1>5, EncodersOK DEF LvdsAtomicDisable, IInv, TypeOK
  <2>2. CountInv'
    BY <1>1, <2>1 DEF IInv, CountInv
  <2>3. TypeOK'
    BY <1>1, <1>2, <2>1, <2>2, EncodersOK, TypeAfterStep DEF IInv, TypeOK
  <2>4. QuietInv'
    BY <1>1, <1>2, <1>5, <2>1, EncodersOK DEF IInv, QuietInv, InUse
  <2>5. ClockInv'
    BY <1>1, <1>2, <1>4, <2>1 DEF IInv, ClockInv, ClockedBy, Running
  <2>6. LitInv'
    BY <1>1, <1>3, <2>1 DEF IInv, LitInv, Running
  <2> QED  BY <1>2, <1>3, <2>2, <2>3, <2>4, <2>5, <2>6 DEF IInv
<1>6. CASE soc = "simple"
  <2>1. enc' = [enc EXCEPT ![c] = LvdsClkDisable(enc[c])]
    BY <1>1, <1>6 DEF LvdsAtomicDisable
  <2>2. /\ enc' \in [Crtcs -> AnyEncoder]
        /\ enc'[c].clk = Less(enc[c].clk) /\ enc'[c].dsi = enc[c].dsi /\ ~enc'[c].up
        /\ \A d \in Crtcs \ {c} : enc'[d] = enc[d]
    <3>1. LvdsClkDisable(enc[c]) \in AnyEncoder
      BY EncodersOK, LvdsClkDisableSteps
    <3> QED  BY <2>1, <3>1, EncodersOK, LvdsClkDisableSteps
  <2>3. Less(enc[c].clk) <= enc[c].clk /\ Less(enc[c].clk) \in Nat
    BY EncodersOK DEF Less
  <2>4. CountInv'
    BY <1>1, <2>2, <2>3, EncodersOK DEF IInv, CountInv
  <2>5. TypeOK'
    BY <1>1, <1>2, <2>2, <2>4, EncodersOK, TypeAfterStep DEF IInv, TypeOK
  <2>6. QuietInv'
    BY <1>1, <1>3, <1>6, <2>2, EncodersOK DEF IInv, QuietInv, InUse, Less
  <2>7. ClockInv'
    <3>1. fails = 0 => enc[c].clk # 0
      BY <1>3, <1>6, EncodersOK DEF IInv, LitInv, Running
    <3>2. fails' = 0 => ~underflow'
      BY <1>1, <3>1 DEF IInv, ClockInv
    <3>3. \A d : ~ClockedBy(Driving(d))'
      BY <1>1, <1>6 DEF ClockedBy
    <3> QED  BY <3>2, <3>3 DEF ClockInv
  <2>8. LitInv'
    BY <1>1, <1>3, <1>6, <2>2, LinkedSubset DEF IInv, LitInv, LinksInv, Running
  <2> QED  BY <1>2, <1>3, <2>4, <2>5, <2>6, <2>7, <2>8 DEF IInv
<1> QED  BY <1>5, <1>6

\* A CRTC that stops gives the clock back that it took for its old outputs.
LEMMA CrtcDisablePreserves ==
  ASSUME IInv, NEW c \in Crtcs, CrtcDisable(c)
  PROVE  IInv'
<1> DEFINE release == ClockedBy(old_out[c])
<1>1. /\ Handle("disable", c) /\ links = {}
      /\ enc' = IF release
                THEN [enc EXCEPT ![c] = IF soc = "dsi" THEN DsiClkDisable(enc[c])
                                        ELSE LvdsClkDisable(enc[c])]
                ELSE enc
      /\ underflow' = (underflow \/ (release /\ (enc[c].clk = 0 \/ (soc = "dsi" /\ enc[c].dsi = 0))))
      /\ cut' = (cut \/ (release /\ dual /\ c = 1))
      /\ UNCHANGED <<device, out, old_out, links, fails>>
  BY DEF CrtcDisable
<1>2. /\ stage = "disable" /\ stage' = "disable" /\ c \in todo /\ todo' = todo \ {c}
      /\ UNCHANGED <<soc, dual>>
  BY <1>1 DEF Handle, device
<1>3. TailInv' /\ c \in Started /\ Started' = Started \ {c}
  BY <1>1, TailDisable DEF IInv
<1>4. LinksInv' /\ Linked' = Linked /\ c \notin Linked
  BY <1>1, LinkedAtHandlers DEF IInv, Phases
<1>5. Driving(c) = old_out[c] /\ \A d \in Started \ {c} : Driving(d)' = Driving(d)
  BY <1>1, <1>2 DEF Driving
<1>6. /\ enc' \in [Crtcs -> AnyEncoder]
      /\ \A d \in Crtcs \ {c} : enc'[d] = enc[d]
      /\ ~release => enc'[c] = enc[c]
      /\ release => enc'[c].clk = Less(enc[c].clk) /\ ~enc'[c].up
      /\ release /\ soc = "dsi" => enc'[c].dsi = Less(enc[c].dsi)
      /\ soc = "simple" => ~release
  <2>1. CASE ~release
    BY <1>1, <2>1, EncodersOK
  <2>2. CASE release
    <3>1. DsiClkDisable(enc[c]) \in AnyEncoder /\ LvdsClkDisable(enc[c]) \in AnyEncoder
      BY EncodersOK, DsiClkDisableSteps, LvdsClkDisableSteps
    <3>2. soc # "simple"
      BY <2>2 DEF ClockedBy
    <3> HIDE DEF release
    <3> QED
      BY <1>1, <2>2, <3>1, <3>2, EncodersOK, DsiClkDisableSteps, LvdsClkDisableSteps
  <2> QED  BY <2>1, <2>2
<1>7. release /\ fails = 0 => enc[c].clk # 0 /\ (soc = "dsi" => enc[c].dsi # 0)
  BY <1>3, <1>5, EncodersOK DEF IInv, ClockInv, Running
<1>8. release <=> ClockedBy(old_out[c])
  OBVIOUS
<1> HIDE DEF release
<1>9. Less(enc[c].clk) <= enc[c].clk /\ Less(enc[c].clk) \in Nat
  BY EncodersOK DEF Less
<1>10. CountInv'
  BY <1>1, <1>2, <1>6, <1>9, EncodersOK DEF IInv, CountInv
<1>11. TypeOK'
  BY <1>1, <1>3, <1>6, <1>10, EncodersOK, TypeAfterStep DEF IInv, TypeOK
<1>12. QuietInv'
  <2>1. CASE soc = "dsi"
    <3>1. release
      BY <1>8, <2>1 DEF ClockedBy
    <3> QED  BY <1>2, <1>3, <1>6, <2>1, <3>1, EncodersOK DEF IInv, QuietInv, InUse, Less
  <2>2. CASE soc = "simple"
    BY <1>2, <1>4, <1>6, <2>2 DEF IInv, QuietInv, InUse
  <2> QED  BY <1>2, <2>1, <2>2, EncodersOK DEF QuietInv
<1>13. ClockInv'
  <2>1. fails' = 0 => ~underflow'
    BY <1>1, <1>7 DEF IInv, ClockInv
  <2>2. \A d \in Started' : ClockedBy(Driving(d))' <=> ClockedBy(Driving(d))
    BY <1>2, <1>3, <1>5 DEF ClockedBy
  <2>3. Started \subseteq Crtcs
    BY TailSubsets DEF IInv
  <2> QED  BY <1>1, <1>2, <1>3, <1>6, <2>1, <2>2, <2>3 DEF IInv, ClockInv, Running
<1>14. LitInv'
  <2>1. \A d \in Linked : d \in Crtcs /\ d # c
    BY <1>4, LinkedSubset DEF IInv
  <2>2. dual /\ release /\ Linked # {} => c = 1
    <3>1. \A d \in Linked : "link" \in out[d]
      BY <1>1, <1>2 DEF Linked
    <3> QED  BY <2>1, <3>1, EncodersAssumption DEF IInv, LinksInv, Routable
  <2> QED  BY <1>1, <1>2, <1>4, <1>6, <2>1, <2>2 DEF IInv, LitInv, Running
<1> QED  BY <1>3, <1>4, <1>10, <1>11, <1>12, <1>13, <1>14 DEF IInv

\* A CRTC that starts takes the clock it needs for its outputs, or fails to.
LEMMA CrtcEnablePreserves ==
  ASSUME IInv, NEW c \in Crtcs, CrtcEnable(c)
  PROVE  IInv'
<1> DEFINE take == ClockedBy(out[c])
<1>1. PICK n \in IF soc = "dsi" THEN 0..3 ELSE 2..3 :
        /\ fails' = IF n < 3 /\ take THEN fails + 1 ELSE fails
        /\ fails' <= MaxFail
        /\ enc' = IF ~take THEN enc
                  ELSE [enc EXCEPT ![c] = IF soc = "dsi" THEN DsiClkEnable(@, n)
                                          ELSE LvdsClkEnable(@, n = 3)]
  BY DEF CrtcEnable
<1>2. Handle("enable", c) /\ UNCHANGED <<device, out, old_out, links, cut, underflow>>
  BY DEF CrtcEnable
<1>3. /\ stage = "enable" /\ stage' = "enable" /\ c \in todo /\ todo' = todo \ {c}
      /\ UNCHANGED <<soc, dual>>
  BY <1>2 DEF Handle, device
<1>4. TailInv' /\ c \notin Started /\ Started' = Started \cup {c}
  BY <1>2, TailEnable DEF IInv
<1>5. LinksInv' /\ Linked' = Linked
  BY <1>2, LinkedAtHandlers DEF IInv, Phases
<1>6. Driving(c)' = out[c] /\ \A d \in Started : Driving(d)' = Driving(d)
  BY <1>2, <1>3 DEF Driving
<1>7. /\ n \in 0..3 /\ (soc # "dsi" => n \in 2..3) /\ fails' \in Nat
      /\ fails' = 0 => fails = 0 /\ (take => n = 3)
  BY <1>1, EncodersOK
<1>8. /\ enc' \in [Crtcs -> AnyEncoder]
      /\ \A d \in Crtcs \ {c} : enc'[d] = enc[d]
      /\ ~take => enc'[c] = enc[c]
      /\ take => /\ enc'[c].lit = enc[c].lit
                 /\ enc'[c].clk <= enc[c].clk + 1
                 /\ soc = "dsi" => enc'[c].clk <= 1
                 /\ soc # "dsi" => enc'[c].clk >= enc[c].clk
                 /\ soc # "dsi" => /\ enc'[c].up
                                   /\ enc'[c].pll = (IF n = 3 THEN "dot" ELSE enc[c].pll)
                 /\ n = 3 => /\ enc'[c].pll = "dot" /\ enc'[c].up /\ enc'[c].clk > 0
                             /\ soc = "dsi" => enc'[c].dsi > 0
      /\ soc = "simple" => ~take
  <2>1. CASE ~take
    BY <1>1, <2>1, EncodersOK
  <2>2. CASE take /\ soc = "dsi"
    <3>1. enc[c].clk = 0 /\ enc[c].dsi = 0
      BY <1>4, <2>2 DEF IInv, QuietInv, InUse
    <3>2. enc' = [enc EXCEPT ![c] = DsiClkEnable(enc[c], n)]
      BY <1>1, <2>2
    <3> HIDE DEF take
    <3>3. /\ DsiClkEnable(enc[c], n) \in AnyEncoder
          /\ DsiClkEnable(enc[c], n).clk <= 1
          /\ n = 3 => /\ DsiClkEnable(enc[c], n).pll = "dot" /\ DsiClkEnable(enc[c], n).up
                      /\ DsiClkEnable(enc[c], n).clk = 1 /\ DsiClkEnable(enc[c], n).dsi = 1
          /\ DsiClkEnable(enc[c], n).lit = enc[c].lit
      BY <1>7, <3>1, EncodersOK, DsiClkEnableSteps
    <3> QED  BY <2>2, <3>1, <3>2, <3>3, EncodersOK
  <2>3. CASE take /\ soc # "dsi"
    <3>1. soc # "simple"
      BY <2>3 DEF ClockedBy
    <3>2. enc' = [enc EXCEPT ![c] = LvdsClkEnable(enc[c], n = 3)]
      BY <1>1, <2>3
    <3> HIDE DEF take
    <3>3. /\ LvdsClkEnable(enc[c], n = 3) \in AnyEncoder
          /\ LvdsClkEnable(enc[c], n = 3).clk = (IF n = 3 THEN enc[c].clk + 1 ELSE enc[c].clk)
          /\ LvdsClkEnable(enc[c], n = 3).up
          /\ LvdsClkEnable(enc[c], n = 3).lit = enc[c].lit
          /\ LvdsClkEnable(enc[c], n = 3).pll = (IF n = 3 THEN "dot" ELSE enc[c].pll)
      <4>1. (n = 3) \in BOOLEAN /\ enc[c] \in AnyEncoder
        BY EncodersOK
      <4> HIDE DEF LvdsClkEnable
      <4> QED  BY <4>1, LvdsClkEnableSteps
    <3> QED  BY <2>3, <3>1, <3>2, <3>3, EncodersOK
  <2> QED  BY <2>1, <2>2, <2>3
<1>9. take <=> ClockedBy(out[c])
  OBVIOUS
<1>10. enc'[c].clk \in Nat /\ enc'[c].dsi \in 0..1
  BY <1>8 DEF AnyEncoder
<1> HIDE DEF take
<1>11. CountInv'
  <2>1. enc[c].clk <= MaxClk /\ enc'[c].clk <= enc[c].clk + 1
    BY <1>3, <1>8, EncodersOK DEF IInv, CountInv
  <2> QED  BY <1>2, <1>3, <1>8, <1>10, <2>1, EncodersOK DEF IInv, CountInv
<1>12. TypeOK'
  BY <1>1, <1>2, <1>4, <1>7, <1>8, <1>11, EncodersOK, TypeAfterStep DEF IInv, TypeOK
<1>13. QuietInv'
  <2>1. CASE soc = "dsi"
    <3>1. take
      BY <1>9, <2>1 DEF ClockedBy
    <3> QED  BY <1>3, <1>4, <1>8, <1>10, <2>1, <3>1, EncodersOK DEF IInv, QuietInv, InUse
  <2>2. CASE soc = "simple"
    BY <1>3, <1>5, <1>8, <2>2 DEF IInv, QuietInv, InUse
  <2> QED  BY <1>3, <2>1, <2>2, EncodersOK DEF QuietInv
<1>14. ClockInv'
  <2>1. \A d \in Started : ClockedBy(Driving(d))' <=> ClockedBy(Driving(d))
    BY <1>3, <1>6 DEF ClockedBy
  <2>2. ClockedBy(Driving(c))' <=> take
    BY <1>3, <1>6, <1>9 DEF ClockedBy
  <2>3. Started \subseteq Crtcs
    BY TailSubsets DEF IInv
  <2> QED  BY <1>2, <1>3, <1>4, <1>7, <1>8, <2>1, <2>2, <2>3 DEF IInv, ClockInv, Running
<1>15. LitInv'
  <2>1. Linked \subseteq Crtcs
    BY LinkedSubset DEF IInv
  <2>2. /\ enc'[c].lit = enc[c].lit
        /\ fails' = 0 /\ soc # "dsi" /\ Running(enc[c]) =>
             /\ Running(enc'[c])
             /\ enc[c].pll # "off" => enc'[c].pll # "off"
    BY <1>7, <1>8, <1>10, EncodersOK DEF Running
  <2>3. dual => soc # "dsi"
    BY DEF IInv, LinksInv
  <2> QED  BY <1>2, <1>3, <1>5, <1>7, <1>8, <2>1, <2>2, <2>3 DEF IInv, LitInv, Running
<1> QED  BY <1>4, <1>5, <1>11, <1>12, <1>13, <1>14, <1>15 DEF IInv

\* The bridge of a CRTC that is started lights its encoder and the companion of that,
\* and leaves the PLL of an encoder alone that clocks a CRTC.
LEMMA BridgeEnablePreserves ==
  ASSUME IInv, NEW c \in Crtcs, BridgeEnable(c)
  PROVE  IInv'
<1>1. PICK ok \in SUBSET Crtcs :
        /\ fails' = IF ok = Crtcs THEN fails ELSE fails + 1
        /\ fails' <= MaxFail
        /\ enc' = IF soc = "dsi" THEN [enc EXCEPT ![c] = DsiEnable(@, c \in ok)]
                  ELSE LvdsAtomicEnable(c, ok)
  BY DEF BridgeEnable
<1>2. /\ links' = links \ {c} /\ cut' = (cut /\ c # 0)
      /\ UNCHANGED <<tail, device, out, old_out, underflow>>
      /\ UNCHANGED <<stage, todo, soc, dual>>
  BY DEF BridgeEnable, tail, device
<1>3. TailInv' /\ Started' = Started
  BY <1>2, TailStutter DEF IInv
<1>4. /\ LinksInv' /\ c \in links /\ c \notin Linked /\ Linked' = Linked \cup {c}
      /\ c \in Started /\ "link" \in out[c] /\ stage = "enable" /\ todo = {}
      /\ dual => links' = {}
  BY LinkedAtBridgeEnable DEF IInv
<1>5. \A d : Driving(d) = out[d] /\ Driving(d)' = out[d]
  BY <1>2, <1>4 DEF Driving
<1>6. fails' \in Nat /\ (fails' = 0 => fails = 0 /\ ok = Crtcs)
  BY <1>1, EncodersOK
<1>7. cut' \in BOOLEAN /\ underflow' \in BOOLEAN
  BY <1>2 DEF IInv, TypeOK
<1>8. Started \subseteq Crtcs /\ Linked \subseteq Crtcs
  BY TailSubsets, LinkedSubset DEF IInv
<1>9. CASE soc = "dsi"
  <2>1. enc' = [enc EXCEPT ![c] = DsiEnable(enc[c], c \in ok)]
    BY <1>1, <1>9
  <2>2. /\ enc' \in [Crtcs -> AnyEncoder]
        /\ \A d \in Crtcs \ {c} : enc'[d] = enc[d]
        /\ enc'[c].clk = enc[c].clk /\ enc'[c].dsi = enc[c].dsi /\ enc'[c].up = enc[c].up
        /\ enc'[c].pll = enc[c].pll
        /\ c \in ok /\ enc[c].pll = "dot" => enc'[c].lit
    <3>1. (c \in ok) \in BOOLEAN /\ enc[c] \in AnyEncoder
      BY EncodersOK
    <3> HIDE DEF DsiEnable
    <3> QED  BY <2>1, <3>1, EncodersOK, DsiEnableSteps
  <2>3. \A d \in Crtcs : /\ enc'[d].clk = enc[d].clk /\ enc'[d].dsi = enc[d].dsi
                         /\ enc'[d].up = enc[d].up /\ enc'[d].pll = enc[d].pll
    BY <2>2
  <2>4. CountInv'
    BY <1>2, <1>4, <2>3 DEF IInv, CountInv
  <2>5. TypeOK'
    BY <1>1, <1>2, <1>3, <1>6, <1>7, <2>2, <2>4, TypeAfterStep
  <2>6. QuietInv'
    BY <1>2, <1>3, <1>9, <2>3 DEF IInv, QuietInv, InUse
  <2>7. \A d \in Started : ClockedBy(Driving(d))
    BY <1>9 DEF ClockedBy
  <2>8. ClockInv'
    BY <1>2, <1>3, <1>6, <1>8, <1>9, <2>3, <2>7 DEF IInv, ClockInv, Running
  <2>9. LitInv'
    <3>1. fails' = 0 => enc'[c].lit
      BY <1>4, <1>6, <2>2, <2>7 DEF IInv, ClockInv
    <3>2. ~dual
      BY <1>9 DEF IInv, LinksInv
    <3> QED  BY <1>2, <1>4, <1>6, <1>8, <1>9, <2>2, <3>1, <3>2 DEF IInv, LitInv
  <2> QED  BY <1>3, <1>4, <2>4, <2>5, <2>6, <2>8, <2>9 DEF IInv
<1>10. CASE soc # "dsi"
  <2>1. \A d \in Crtcs :
          enc'[d] = IF d = c THEN LvdsEnable(enc[d], FALSE, d \in ok)
                    ELSE IF dual /\ c \in ok THEN LvdsEnable(enc[d], TRUE, d \in ok)
                    ELSE enc[d]
    BY <1>1, <1>10 DEF LvdsAtomicEnable
  <2>2. ASSUME NEW d \in Crtcs
        PROVE  /\ enc'[d] \in AnyEncoder
               /\ enc'[d].dsi = enc[d].dsi
               /\ enc'[d].clk >= enc[d].clk /\ enc'[d].clk <= enc[d].clk + 1
               /\ d # c /\ ~dual => enc'[d] = enc[d]
               /\ d # c => /\ enc'[d].pll = enc[d].pll
                           /\ enc'[d] = enc[d] \/ enc'[d].up
               /\ fails' = 0 /\ (d = c \/ dual) =>
                    enc'[d].lit /\ enc'[d].up /\ enc'[d].clk = enc[d].clk + 1
               /\ fails' = 0 /\ d = c => enc'[d].pll = "link"
    <3>1. (d \in ok) \in BOOLEAN /\ enc[d] \in AnyEncoder /\ enc[d].clk \in Nat
      BY EncodersOK
    <3>2. fails' = 0 => d \in ok /\ c \in ok
      BY <1>6
    <3> HIDE DEF LvdsEnable
    <3>3. CASE d = c
      <4>1. enc'[d] = LvdsEnable(enc[d], FALSE, d \in ok)
        BY <2>1, <3>3
      <4>2. /\ LvdsEnable(enc[d], FALSE, d \in ok) \in AnyEncoder
            /\ LvdsEnable(enc[d], FALSE, d \in ok).clk = (IF d \in ok THEN enc[d].clk + 1 ELSE enc[d].clk)
            /\ LvdsEnable(enc[d], FALSE, d \in ok).dsi = enc[d].dsi
            /\ LvdsEnable(enc[d], FALSE, d \in ok).up
            /\ d \in ok => LvdsEnable(enc[d], FALSE, d \in ok).lit
            /\ d \in ok => LvdsEnable(enc[d], FALSE, d \in ok).pll = "link"
        BY <3>1, LvdsEnableSteps
      <4>3. /\ enc'[d].clk >= enc[d].clk /\ enc'[d].clk <= enc[d].clk + 1
            /\ fails' = 0 => enc'[d].clk = enc[d].clk + 1
        <5>1. enc'[d].clk = (IF d \in ok THEN enc[d].clk + 1 ELSE enc[d].clk)
          BY <4>1, <4>2, Zenon
        <5> QED  BY <3>1, <3>2, <5>1
      <4> QED  BY <3>2, <3>3, <4>1, <4>2, <4>3
    <3>4. CASE d # c /\ dual /\ c \in ok
      <4>1. enc'[d] = LvdsEnable(enc[d], TRUE, d \in ok)
        BY <2>1, <3>4
      <4>2. /\ LvdsEnable(enc[d], TRUE, d \in ok) \in AnyEncoder
            /\ LvdsEnable(enc[d], TRUE, d \in ok).clk = (IF d \in ok THEN enc[d].clk + 1 ELSE enc[d].clk)
            /\ LvdsEnable(enc[d], TRUE, d \in ok).dsi = enc[d].dsi
            /\ LvdsEnable(enc[d], TRUE, d \in ok).up
            /\ d \in ok => LvdsEnable(enc[d], TRUE, d \in ok).lit
            /\ LvdsEnable(enc[d], TRUE, d \in ok).pll = enc[d].pll
        BY <3>1, LvdsEnableSteps
      <4>3. /\ enc'[d].clk >= enc[d].clk /\ enc'[d].clk <= enc[d].clk + 1
            /\ fails' = 0 => enc'[d].clk = enc[d].clk + 1
        <5>1. enc'[d].clk = (IF d \in ok THEN enc[d].clk + 1 ELSE enc[d].clk)
          BY <4>1, <4>2, Zenon
        <5> QED  BY <3>1, <3>2, <5>1
      <4> QED  BY <3>2, <3>4, <4>1, <4>2, <4>3
    <3>5. CASE d # c /\ ~(dual /\ c \in ok)
      <4>1. enc'[d] = enc[d] /\ ~(fails' = 0 /\ dual)
        BY <2>1, <3>2, <3>5
      <4>2. enc[d].clk >= enc[d].clk /\ enc[d].clk <= enc[d].clk + 1
        BY <3>1
      <4> QED  BY <3>1, <3>5, <4>1, <4>2
    <3> QED  BY <3>3, <3>4, <3>5
  <2>3. enc' \in [Crtcs -> AnyEncoder]
    <3>1. enc' = [d \in Crtcs |-> enc'[d]]
      BY <1>1, <1>10 DEF LvdsAtomicEnable
    <3> QED  BY <2>2, <3>1
  <2>4. CountInv'
    <3> SUFFICES ASSUME NEW d \in Crtcs
                 PROVE  /\ enc'[d].clk <= MaxClk + 2
                        /\ d \in links' => enc'[d].clk <= MaxClk + 1
      BY <1>2, <1>4 DEF CountInv
    <3>1. enc'[d].clk \in Nat /\ enc[d].clk \in Nat /\ MaxClk \in Nat
      BY <2>2, EncodersOK DEF AnyEncoder
    <3>2. CASE d = c \/ dual
      <4>1. enc[d].clk <= MaxClk + 1
        BY <1>4, <3>2 DEF IInv, CountInv
      <4>2. d \notin links'
        BY <1>2, <1>4, <3>2
      <4> QED  BY <2>2, <3>1, <4>1, <4>2
    <3>3. CASE d # c /\ ~dual
      BY <1>2, <1>4, <2>2, <3>3 DEF IInv, CountInv
    <3> QED  BY <3>2, <3>3
  <2>5. TypeOK'
    BY <1>1, <1>2, <1>3, <1>6, <1>7, <2>3, <2>4, TypeAfterStep
  <2>6. QuietInv'
    <3>1. CASE soc = "simple"
      <4>1. ~dual /\ c \notin InUse /\ InUse' = InUse \cup {c}
        BY <1>2, <1>4, <3>1 DEF IInv, LinksInv, InUse
      <4>2. \A d \in Crtcs : enc'[d].dsi = 0 /\ enc'[d].clk \in Nat /\ enc'[d].clk <= 1
        <5> SUFFICES ASSUME NEW d \in Crtcs
                     PROVE  enc'[d].dsi = 0 /\ enc'[d].clk \in Nat /\ enc'[d].clk <= 1
          OBVIOUS
        <5>1. enc'[d].clk \in Nat /\ enc[d].clk \in Nat /\ enc[d].dsi = 0 /\ enc[d].clk <= 1
          BY <2>2, <3>1, EncodersOK DEF IInv, QuietInv, AnyEncoder
        <5>2. CASE d = c
          BY <2>2, <3>1, <4>1, <5>1, <5>2 DEF IInv, QuietInv
        <5>3. CASE d # c
          BY <2>2, <4>1, <5>1, <5>3
        <5> QED  BY <5>2, <5>3
      <4> QED  BY <1>2, <2>2, <3>1, <4>1, <4>2 DEF IInv, QuietInv
    <3> QED  BY <1>2, <1>10, <3>1, EncodersOK DEF QuietInv
  <2>7. ClockInv'
    <3>1. \A d \in Started : ClockedBy(Driving(d))' <=> ClockedBy(Driving(d))
      BY <1>2, <1>5 DEF ClockedBy
    <3>2. ~ClockedBy(Driving(c))
      BY <1>4, <1>5, <1>10 DEF ClockedBy
    <3>3. \A d \in Crtcs : d # c /\ Running(enc[d]) => Running(enc'[d])
      BY <2>2, EncodersOK DEF AnyEncoder, Running
    <3> QED  BY <1>2, <1>3, <1>6, <1>8, <1>10, <2>2, <3>1, <3>2, <3>3 DEF IInv, ClockInv, Running
  <2>8. LitInv'
    <3>1. \A d \in Crtcs : fails' = 0 /\ (d = c \/ dual) => enc'[d].lit /\ Running(enc'[d])
      BY <2>2, EncodersOK DEF AnyEncoder, Running
    <3>2. \A d \in Crtcs : d # c /\ ~dual => enc'[d] = enc[d]
      BY <2>2
    <3>3. \A d \in Crtcs : d # c => enc'[d].pll = enc[d].pll
      BY <2>2
    <3>4. fails' = 0 => enc'[c].pll = "link"
      BY <2>2
    <3> QED  BY <1>2, <1>4, <1>6, <1>8, <1>10, <3>1, <3>2, <3>3, <3>4 DEF IInv, LitInv
  <2> QED  BY <1>3, <1>4, <2>4, <2>5, <2>6, <2>7, <2>8 DEF IInv
<1> QED  BY <1>9, <1>10

\* All encoders are off at first.
LEMMA InitInvariant ==
  Init => IInv
<1> SUFFICES ASSUME Init PROVE IInv
  OBVIOUS
<1>1. TailInv /\ Started = {} /\ stage = "idle" /\ todo = {} /\ active = {}
  BY TailInitial DEF Init, TailInit
<1>2. \A c \in Crtcs : /\ enc[c] = [clk |-> 0, dsi |-> 0, up |-> FALSE, pll |-> "off", lit |-> FALSE]
                       /\ out[c] = {}
  BY DEF Init
<1>3. enc \in [Crtcs -> AnyEncoder]
  BY <1>2 DEF Init, AnyEncoder
<1>4. CountInv
  <2> SUFFICES ASSUME NEW c \in Crtcs
               PROVE  enc[c].clk <= MaxClk + 2 /\ enc[c].clk <= MaxClk + 1 /\ enc[c].clk <= MaxClk
    BY DEF CountInv
  <2>1. enc[c].clk = 0
    BY <1>2
  <2> QED  BY <2>1, EncodersAssumption
<1>5. enc \in [Crtcs -> Encoder]
  BY <1>3, <1>4, EncodersTyped DEF CountInv
<1>6. TypeOK
  <2>1. soc \in Socs /\ dual \in BOOLEAN /\ links \subseteq Crtcs
    BY DEF Init
  <2>2. out \in [Crtcs -> SUBSET {"dpad", "link"}] /\ old_out = out
    BY DEF Init
  <2>3. fails = 0 /\ cut \in BOOLEAN /\ underflow \in BOOLEAN
    BY DEF Init
  <2>4. 0 \in 0..MaxFail
    BY EncodersAssumption
  <2> QED  BY <1>1, <1>5, <2>1, <2>2, <2>3, <2>4 DEF TypeOK, TailInv
<1>7. Linked = {} /\ LinksInv
  BY <1>1, <1>2 DEF Init, Linked, LinksInv, Routable
<1>8. QuietInv /\ ClockInv /\ LitInv
  BY <1>1, <1>2, <1>7 DEF Init, QuietInv, ClockInv, LitInv
<1> QED  BY <1>1, <1>4, <1>6, <1>7, <1>8 DEF IInv

\* Every step preserves the invariant.
LEMMA NextPreserves ==
  ASSUME IInv, [Next]_vars
  PROVE  IInv'
<1>1. CASE Commit
  BY <1>1, CommitPreserves
<1>2. CASE Advance
  BY <1>2, AdvancePreserves
<1>3. ASSUME NEW c \in Crtcs, BridgeDisable(c) PROVE IInv'
  BY <1>3, BridgeDisablePreserves
<1>4. ASSUME NEW c \in Crtcs, CrtcDisable(c) PROVE IInv'
  BY <1>4, CrtcDisablePreserves
<1>5. ASSUME NEW c \in Crtcs, CrtcUpdate(c) PROVE IInv'
  BY <1>5, UpdatePreserves
<1>6. ASSUME NEW c \in Crtcs, CrtcEnable(c) PROVE IInv'
  BY <1>6, CrtcEnablePreserves
<1>7. ASSUME NEW c \in Crtcs, BridgeEnable(c) PROVE IInv'
  BY <1>7, BridgeEnablePreserves
<1>8. CASE UNCHANGED vars
  <2>1. UNCHANGED tail /\ UNCHANGED <<device, out, old_out, links, enc, cut, underflow, fails>>
    BY <1>8 DEF vars
  <2>2. TailInv' /\ Started' = Started
    BY <2>1, TailStutter DEF IInv
  <2>3. UNCHANGED <<stage, modeset, was, active, todo, soc, dual>>
    BY <2>1 DEF tail, device
  <2>4. LinksInv' /\ Linked' = Linked
    BY <2>1, <2>3 DEF IInv, LinksInv, Routable, Linked, Wanted
  <2>5. TypeOK' /\ CountInv'
    BY <2>1, <2>2, <2>3 DEF IInv, TypeOK, TailInv, CountInv
  <2>6. \A c \in Started : Driving(c)' = Driving(c)
    BY <2>1, <2>3 DEF Driving
  <2> QED  BY <2>1, <2>2, <2>4, <2>5, <2>6, EncodersAlone DEF IInv
<1> QED  BY <1>1, <1>2, <1>3, <1>4, <1>5, <1>6, <1>7, <1>8 DEF Next

--------------------------------------------------------------------------------
(* Theorems                                                                  *)

\* The inductive invariant holds in every reachable state.
THEOREM Invariant == Spec => []IInv
BY InitInvariant, NextPreserves, PTL DEF Spec

\* The type invariant, and with it the bound on the enables of a clock in a commit.
THEOREM TypeCorrect == Spec => []TypeOK
<1>1. IInv => TypeOK
  BY DEF IInv
<1> QED  BY Invariant, <1>1, PTL

\* A CRTC that takes its dot clock from its encoder finds the PLL set up for it, and
\* running, as long as it is started: ClockInv.
THEOREM ClockWhileStarted == Spec => []DotClockRuns
<1>1. IInv => DotClockRuns
  BY DEF IInv, ClockInv, DotClockRuns, Running
<1> QED  BY Invariant, <1>1, PTL

\* Between commits the encoder of an active output is on and clocked, and its
\* companion too unless its clock was cut off: LitInv, and for DSI, whose clocks are
\* the CRTC's, ClockInv.
THEOREM OutputsLit == Spec => []LinksLit
<1>1. ASSUME IInv PROVE LinksLit
  <2> SUFFICES ASSUME stage = "idle", fails = 0, NEW c \in active, "link" \in out[c]
               PROVE  /\ enc[c].lit /\ enc[c].up /\ enc[c].clk > 0 /\ enc[c].pll # "off"
                      /\ dual /\ ~cut => \A l \in Crtcs : enc[l].lit /\ enc[l].up /\ enc[l].clk > 0
    BY DEF LinksLit
  <2>1. c \in Linked /\ c \in Started
    BY DEF Linked, Started
  <2>2. enc[c].lit /\ enc[c].up /\ enc[c].clk > 0 /\ enc[c].pll # "off"
    <3>1. CASE soc = "dsi"
      BY <1>1, <2>1, <3>1 DEF IInv, LitInv, ClockInv, ClockedBy, Running
    <3>2. CASE soc # "dsi"
      BY <1>1, <2>1, <3>2 DEF IInv, LitInv, Running
    <3> QED  BY <3>1, <3>2
  <2>3. dual /\ ~cut => \A l \in Crtcs : enc[l].lit /\ enc[l].up /\ enc[l].clk > 0
    BY <1>1, <2>1 DEF IInv, LitInv, Running
  <2> QED  BY <2>2, <2>3
<1> QED  BY Invariant, <1>1, PTL

\* No clock is disabled more often than it was enabled, and between commits an
\* encoder without an extended PLL that is not in use has no clock on, however many
\* calls have failed: QuietInv, with nobody in use but the active CRTCs.
THEOREM ClocksReturned == Spec => []ClocksBalanced
<1>1. ASSUME IInv PROVE ClocksBalanced
  <2>1. fails = 0 => ~underflow
    BY <1>1 DEF IInv, ClockInv
  <2>2. ASSUME stage = "idle", soc # "ext", NEW c \in Crtcs \ active
        PROVE  enc[c].clk = 0 /\ enc[c].dsi = 0 /\ ~enc[c].up
    <3>1. c \notin InUse
      BY <2>2 DEF InUse, Linked, Started
    <3> QED  BY <1>1, <2>2, <3>1 DEF IInv, QuietInv
  <2> QED  BY <2>1, <2>2 DEF ClocksBalanced
<1> QED  BY Invariant, <1>1, PTL

--------------------------------------------------------------------------------
(* Clocks: the searches                                                      *)

\* The least of a set of numbers is one of them.
LEMMA MinOfNat ==
  ASSUME NEW S \in SUBSET Nat, S # {}
  PROVE  Min(S) \in S /\ \A y \in S : Min(S) <= y
<1> DEFINE Smaller == OpToRel(<, Nat)
<1>1. PICK x \in S : \A y \in S : ~ (<<y, x>> \in Smaller)
  <2> HIDE DEF Smaller
  <2> QED  BY NatLessThanWellFounded, WFMin DEF Smaller
<1>2. ASSUME NEW y \in S  PROVE  x <= y
  <2>1. x \in Nat /\ y \in Nat /\ <<y, x>> \notin Smaller
    BY <1>1
  <2>2. ~ (y < x)
    BY <2>1 DEF OpToRel
  <2> HIDE DEF Smaller
  <2> QED  BY <2>1, <2>2
<1> QED  BY <1>2 DEF Min

\* The lesser and the greater of two numbers.
LEMMA OfTwo ==
  ASSUME NEW a \in Int, NEW b \in Int
  PROVE  /\ Min({a, b}) = IF a <= b THEN a ELSE b
         /\ Max({a, b}) = IF a >= b THEN a ELSE b
BY DEF Min, Max

\* A search that tries anything finds one of the settings it tries.
LEMMA FirstFound ==
  ASSUME NEW found, found # {}, \A s \in found : s.diff \in Nat /\ s.rank \in Nat
  PROVE  First(found) \in found /\ \A s \in found : First(found).diff <= s.diff
<1> DEFINE least == Min({s.diff : s \in found})
           ties == {s \in found : s.diff = least}
           rank == Min({s.rank : s \in ties})
<1>1. least \in {s.diff : s \in found} /\ \A d \in {s.diff : s \in found} : least <= d
  <2>1. {s.diff : s \in found} \in SUBSET Nat /\ {s.diff : s \in found} # {}
    OBVIOUS
  <2> QED  BY <2>1, MinOfNat
<1>2. ties # {} /\ \A s \in found : least <= s.diff
  BY <1>1
<1> HIDE DEF least
<1>3. rank \in {s.rank : s \in ties}
  <2>1. {s.rank : s \in ties} \in SUBSET Nat /\ {s.rank : s \in ties} # {}
    BY <1>2
  <2> HIDE DEF ties
  <2> QED  BY <2>1, MinOfNat
<1>4. PICK s \in ties : s.rank = rank
  <2> HIDE DEF ties
  <2> QED  BY <1>3
<1>5. First(found) = CHOOSE t \in ties : t.rank = rank
  BY DEF First, least
<1> HIDE DEF rank
<1>6. First(found) \in ties
  BY <1>4, <1>5
<1> QED  BY <1>2, <1>6

\* Quotients, by their bounds.
LEMMA Quotient ==
  ASSUME NEW a \in Nat, NEW b \in Nat \ {0}
  PROVE  /\ a \div b \in Nat /\ (a \div b) * b <= a /\ a < (a \div b) * b + b
         /\ \A c \in Nat : c * b <= a => c <= a \div b
         /\ \A c \in Nat : a < c * b => a \div b < c
<1> DEFINE q == a \div b
<1>1. q \in Nat /\ q * b <= a /\ a < q * b + b
  BY SMTT(30)
<1> HIDE DEF q
<1>2. ASSUME NEW c \in Nat, c * b <= a PROVE c <= q
  <2> SUFFICES ASSUME c >= q + 1 PROVE FALSE
    BY <1>1
  <2>1. c * b >= (q + 1) * b /\ (q + 1) * b = q * b + b
    BY <1>1
  <2> QED  BY <1>1, <1>2, <2>1
<1>3. ASSUME NEW c \in Nat, a < c * b PROVE q < c
  <2> SUFFICES ASSUME q >= c PROVE FALSE
    BY <1>1
  <2>1. q * b >= c * b
    BY <1>1
  <2> QED  BY <1>1, <1>3, <2>1
<1> QED  BY <1>1, <1>2, <1>3 DEF q

--------------------------------------------------------------------------------
(* Clocks: the divider of the CRTC                                           *)

\* What rcar_du_escr_divider() finds for a clock: a divider it has, and what is left;
\* no more than half a step if the divider is the nearest multiple.
LEMMA EscrDividerClose ==
  ASSUME NEW rate \in Nat, NEW target \in Nat \ {0},
         NEW s, s = EscrDivider(rate, target)
  PROVE  /\ s.div \in 0..63 /\ s.diff = Diff(rate \div (s.div + 1), target) /\ s.diff \in Nat
         /\ LET d == DivRoundClosest(rate, target)
            IN /\ rate = 0 => d \notin 1..64
               /\ d \in 1..64 => s.diff <= target \div (2 * d) + 1
<1> DEFINE d == DivRoundClosest(rate, target)
           half == target \div 2
           c == Max({1, Min({64, d})})
<1>1. half \in Nat /\ 2 * half <= target /\ target <= 2 * half + 1
  OBVIOUS
<1>2. d = (rate + half) \div target
  BY DEF DivRoundClosest
<1> HIDE DEF half
<1>3. d \in Nat /\ d * target <= rate + half /\ rate + half < d * target + target
  <2>1. rate + half \in Nat
    BY <1>1
  <2> HIDE DEF d
  <2> QED  BY <1>2, <2>1, Quotient
<1>4. s.div = c - 1 /\ s.diff = Diff(rate \div (c - 1 + 1), target)
  BY DEF EscrDivider
<1> HIDE DEF d
<1>5. c \in 1..64 /\ (d \in 1..64 => c = d)
  <2> DEFINE most == Min({64, d})
  <2>1. most = IF 64 <= d THEN 64 ELSE d
    BY <1>3, OfTwo
  <2>2. most \in Nat
    BY <1>3, <2>1
  <2> HIDE DEF most
  <2>3. Max({1, most}) = IF 1 >= most THEN 1 ELSE most
    BY <2>2, OfTwo
  <2>4. Max({1, most}) \in 1..64 /\ (d \in 1..64 => Max({1, most}) = d)
    BY <1>3, <2>1, <2>2, <2>3
  <2> QED  BY <2>4 DEF most
<1> HIDE DEF c
<1>6. c - 1 + 1 = c /\ s.div + 1 = c /\ s.div \in 0..63
  BY <1>4, <1>5
<1> DEFINE q == rate \div c
<1>7. q \in Nat /\ q * c <= rate /\ rate < q * c + c
  BY <1>5, Quotient
<1>8. s.diff = Diff(q, target)
  BY <1>4, <1>6
<1>9. s.diff = Diff(rate \div (s.div + 1), target) /\ s.diff \in Nat
  <2>1. Diff(q, target) \in Nat
    <3> HIDE DEF q
    <3> QED  BY <1>7 DEF Diff
  <2> QED  BY <1>6, <1>8, <2>1
<1> HIDE DEF q
<1>10. ASSUME rate = 0 PROVE d \notin 1..64
  <2> SUFFICES ASSUME d >= 1 PROVE FALSE
    BY <1>3
  <2>1. d \in Nat /\ d >= 1
    BY <1>3
  <2>2. d * target = (d - 1) * target + target /\ (d - 1) * target >= 0
    BY <2>1
  <2> QED  BY <1>1, <1>3, <1>10, <2>2
<1>11. ASSUME d \in 1..64 PROVE s.diff <= target \div (2 * d) + 1
  <2> DEFINE e == target \div (2 * d)
             qd == q * d
             dt == d * target
  <2>1. qd \in Nat /\ dt \in Nat /\ qd <= rate /\ rate < qd + d
        /\ dt <= rate + half /\ rate + half < dt + target
    BY <1>3, <1>5, <1>7, <1>11
  <2>2. \A x \in Nat : x * (2 * d) <= target => x <= e
    <3>1. 2 * d \in Nat \ {0}
      BY <1>11
    <3> QED  BY <3>1, Quotient
  <2> HIDE DEF e
  <2>3. CASE q > target
    <3>1. q - target \in Nat /\ (q - target) * (2 * d) = 2 * (qd - dt)
      BY <1>7, <1>11, <2>3
    <3>2. 2 * (qd - dt) <= target
      <4> HIDE DEF qd, dt
      <4> QED  BY <1>1, <2>1
    <3>3. q - target <= e
      BY <2>2, <3>1, <3>2
    <3> HIDE DEF qd, dt
    <3>4. e \in Int
      BY <1>11 DEF e
    <3> QED  BY <1>7, <1>8, <2>3, <3>3, <3>4 DEF Diff, e
  <2>4. CASE q < target
    <3>1. target - q - 1 \in Nat /\ (target - q - 1) * (2 * d) = 2 * (dt - qd - d)
      BY <1>7, <1>11, <2>4
    <3>2. 2 * (dt - qd - d) <= target
      <4> HIDE DEF qd, dt
      <4> QED  BY <1>1, <1>11, <2>1
    <3>3. target - q - 1 <= e
      BY <2>2, <3>1, <3>2
    <3> HIDE DEF qd, dt
    <3>4. e \in Int
      BY <1>11 DEF e
    <3> QED  BY <1>7, <1>8, <2>4, <3>3, <3>4 DEF Diff, e
  <2>5. CASE q = target
    <3>1. 0 <= e
      <4>1. 0 * (2 * d) <= target
        BY <1>11
      <4> QED  BY <2>2, <4>1
    <3>2. e \in Int
      BY <1>11 DEF e
    <3> QED  BY <1>8, <2>5, <3>1, <3>2 DEF Diff, e
  <2> QED  BY <1>7, <2>3, <2>4, <2>5
<1> QED  BY <1>6, <1>9, <1>10, <1>11 DEF d

\* Of its two clocks, rcar_du_crtc_set_display_timing() takes one that comes as close.
LEMMA EscrParamsClose ==
  ASSUME NEW b \in Boards, b.kind = "divider", NEW target \in Nat \ {0},
         NEW p, p = EscrParams(b, target), NEW rate \in {b.cpg, b.ext}
  PROVE  LET multiple == DivRoundClosest(rate, target)
         IN multiple \in 1..64 =>
              Diff(p.rate \div (p.div + 1), target) <= target \div (2 * multiple) + 1
<1> DEFINE cpg == EscrDivider(b.cpg, target)
           ext == EscrDivider(b.ext, target)
           multiple == DivRoundClosest(rate, target)
           step == target \div (2 * multiple) + 1
<1> SUFFICES ASSUME multiple \in 1..64
             PROVE  Diff(p.rate \div (p.div + 1), target) <= step
  OBVIOUS
<1>1. b.cpg \in Nat /\ b.ext \in Nat
  BY ClocksAssumption, SMT DEF BoardOK
<1>2. /\ cpg.diff = Diff(b.cpg \div (cpg.div + 1), target) /\ cpg.diff \in Nat
      /\ ext.diff = Diff(b.ext \div (ext.div + 1), target) /\ ext.diff \in Nat
      /\ rate = b.cpg => cpg.diff <= step
      /\ rate = b.ext => ext.diff <= step /\ b.ext # 0
  BY <1>1, EscrDividerClose, Zenon
<1>3. p = IF b.ext > 0 /\ ext.diff < cpg.diff
          THEN [clk |-> "dclkin", rate |-> b.ext, div |-> ext.div]
          ELSE [clk |-> "clks", rate |-> b.cpg, div |-> cpg.div]
  BY DEF EscrParams
<1>4. step \in Int
  OBVIOUS
<1> HIDE DEF cpg, ext, multiple, step
<1>5. CASE b.ext > 0 /\ ext.diff < cpg.diff
  <2>1. Diff(p.rate \div (p.div + 1), target) = ext.diff
    BY <1>2, <1>3, <1>5
  <2> QED  BY <1>2, <1>4, <1>5, <2>1
<1>6. CASE ~(b.ext > 0 /\ ext.diff < cpg.diff)
  <2>1. Diff(p.rate \div (p.div + 1), target) = cpg.diff
    BY <1>2, <1>3, <1>6
  <2> QED  BY <1>1, <1>2, <1>4, <1>6, <2>1
<1> QED  BY <1>5, <1>6

--------------------------------------------------------------------------------
(* Clocks: the PLL of the LVDS encoder                                       *)

\* What the operating ranges ask of a setting of the LVDS PLL.
PllRanges(fin, m, n, e) ==
  /\ m \in 1..8 /\ InRange(fin \div m, 12000000, 24000000)
  /\ n \in 60..119 /\ InRange((fin \div m) * n, 900000000, 1800000000)
  /\ e \in 0..2 /\ ((fin \div m) * n) \div 2 ^ e <= 1039500000

\* The pre-dividers tried for a clock.
Predividers(fin) == Max({1, DivRoundUp(fin, 24000000)}) .. Min({8, fin \div 12000000})

\* They bring a clock into the range of the phase detector, and there are some.
LEMMA PredividersInRange ==
  ASSUME NEW fin \in Nat, InRange(fin, 12000000, 192000000)
  PROVE  /\ \A m \in Predividers(fin) : m \in 1..8 /\ InRange(fin \div m, 12000000, 24000000)
         /\ Predividers(fin) # {}
<1> DEFINE low == DivRoundUp(fin, 24000000)
           high == fin \div 12000000
<1>1. low \in Int /\ high \in Int
  BY DEF DivRoundUp
<1>2. /\ \A m \in Int : m >= low => fin <= m * 24000000
      /\ \A m \in Int : m <= high => m * 12000000 <= fin
  BY DEF DivRoundUp
<1>3. low <= high /\ low <= 8 /\ 1 <= high
  BY DEF DivRoundUp, InRange
<1>4. Predividers(fin) = Max({1, low}) .. Min({8, high})
  BY DEF Predividers
<1> HIDE DEF low, high
<1>5. /\ Max({1, low}) = IF 1 >= low THEN 1 ELSE low
      /\ Min({8, high}) = IF 8 <= high THEN 8 ELSE high
  BY <1>1, OfTwo
<1>6. ASSUME NEW m \in Predividers(fin)
      PROVE  m \in 1..8 /\ InRange(fin \div m, 12000000, 24000000)
  <2>1. m \in 1..8 /\ m >= low /\ m <= high
    BY <1>1, <1>4, <1>5, <1>6
  <2>2. m * 12000000 <= fin /\ fin <= m * 24000000
    BY <1>2, <2>1
  <2> QED  BY <2>1, <2>2 DEF InRange
<1>7. Max({1, low}) \in Predividers(fin)
  BY <1>1, <1>3, <1>4, <1>5
<1> QED  BY <1>6, <1>7

\* The multipliers bring it into the range of the oscillator, and there are some.
LEMMA MultipliersInRange ==
  ASSUME NEW fin \in Nat, NEW m \in 1..8, InRange(fin \div m, 12000000, 24000000)
  PROVE  /\ \A n \in Multipliers(fin, m) :
              n \in 60..119 /\ InRange((fin \div m) * n, 900000000, 1800000000)
         /\ Multipliers(fin, m) # {}
<1> DEFINE f == fin \div m
           low == DivRoundUp(900000000, f)
           high == 1800000000 \div f
<1>1. f \in Nat /\ 12000000 <= f /\ f <= 24000000
  BY DEF InRange
<1>2. Multipliers(fin, m) = Max({60, low}) .. Min({120, high}) - 1
  BY DEF Multipliers
<1>3. (fin \div m) = f
  OBVIOUS
<1> HIDE DEF f
<1>4. low \in Int /\ high \in Int
  BY <1>1 DEF DivRoundUp
<1>5. /\ \A n \in Int : n >= low => n * f >= 900000000
      /\ \A n \in Int : n <= high => n * f <= 1800000000
  BY <1>1 DEF DivRoundUp
<1>6. \/ low <= 60 /\ high >= 75
      \/ low <= 75 /\ high >= 120
  BY <1>1 DEF DivRoundUp
<1> HIDE DEF low, high
<1>7. /\ Max({60, low}) = IF 60 >= low THEN 60 ELSE low
      /\ Min({120, high}) = IF 120 <= high THEN 120 ELSE high
  BY <1>4, OfTwo
<1>8. ASSUME NEW n \in Multipliers(fin, m)
      PROVE  n \in 60..119 /\ InRange(f * n, 900000000, 1800000000)
  <2>1. n \in Int /\ n >= 60 /\ n >= low /\ n <= 119 /\ n <= high
    BY <1>2, <1>4, <1>7, <1>8
  <2>2. n * f >= 900000000 /\ n * f <= 1800000000 /\ n * f = f * n
    BY <1>1, <1>5, <2>1
  <2> QED  BY <2>1, <2>2 DEF InRange
<1>9. Max({60, low}) \in Multipliers(fin, m)
  BY <1>2, <1>4, <1>6, <1>7
<1> QED  BY <1>3, <1>8, <1>9

\* The frequency a setting of the PLL gives the divider.
PllOutput(fin, m, n, e, dot_clock_only) ==
  (((fin \div m) * n) \div (2 ^ e)) \div (IF dot_clock_only THEN 1 ELSE 7)

\* What rcar_lvds_d3_e3_pll_calc() keeps of a setting.
Setting(k, fin, target, dot_clock_only, m, n, e) ==
  LET fout == PllOutput(fin, m, n, e, dot_clock_only)
      div == Max({1, DivRoundClosest(fout, target)})
  IN [diff |-> Diff(fout \div div, target), rank |-> ((k * 10 + m) * 1000 + n) * 10 + e,
      clk |-> k, m |-> m, n |-> n, e |-> e, div |-> div]

\* What rcar_lvds_d3_e3_pll_calc() tries, and the clocks it takes; and the targets
\* for which every divider fits in its six bits.
Tried(s, k, fin, target, dot_clock_only) ==
  \E m \in 1..8, n \in 60..119, e \in 0..2 :
    PllRanges(fin, m, n, e) /\ s = Setting(k, fin, target, dot_clock_only, m, n, e)
ClockTaken(fin) == InRange(fin, 12000000, 192000000)
FastEnough(target, dot_clock_only) == target >= IF dot_clock_only THEN 16200000 ELSE 5000000

\* All settings it tries are within the operating ranges, and there are some if the
\* clock is in the range the PLL takes.
LEMMA LvdsPllCalcInRange ==
  ASSUME NEW k \in 1..3, NEW fin \in Nat, NEW target \in Nat \ {0}, NEW only \in BOOLEAN
  PROVE  /\ \A s \in LvdsPllCalc(k, fin, target, only) : Tried(s, k, fin, target, only)
         /\ ClockTaken(fin) => LvdsPllCalc(k, fin, target, only) # {}
<1> DEFINE Post(fvco) == (IF fvco > 1039500000 THEN 1 ELSE 0) .. 2
           Settings(m, n) == {Setting(k, fin, target, only, m, n, e) : e \in Post((fin \div m) * n)}
           Pairs == UNION {{<<m, n>> : n \in Multipliers(fin, m)} : m \in Predividers(fin)}
<1>1. LvdsPllCalc(k, fin, target, only)
        = IF ~InRange(fin, 12000000, 192000000) THEN {}
          ELSE UNION {Settings(p[1], p[2]) : p \in Pairs}
  BY DEF LvdsPllCalc, Predividers, Setting, PllOutput
<1>2. \A fvco : 2 \in Post(fvco) /\ Post(fvco) \subseteq 0..2 /\ (fvco > 1039500000 => 0 \notin Post(fvco))
  OBVIOUS
<1> HIDE DEF Post
<1>3. CASE ~InRange(fin, 12000000, 192000000)
  BY <1>1, <1>3 DEF ClockTaken
<1>4. CASE InRange(fin, 12000000, 192000000)
  <2>1. /\ \A m \in Predividers(fin) : m \in 1..8 /\ InRange(fin \div m, 12000000, 24000000)
        /\ Predividers(fin) # {}
    BY <1>4, PredividersInRange
  <2>2. \A m \in Predividers(fin) :
          /\ \A n \in Multipliers(fin, m) :
               n \in 60..119 /\ InRange((fin \div m) * n, 900000000, 1800000000)
          /\ Multipliers(fin, m) # {}
    BY <2>1, MultipliersInRange
  <2>3. ASSUME NEW s \in LvdsPllCalc(k, fin, target, only)
        PROVE  Tried(s, k, fin, target, only)
    <3>1. PICK p \in Pairs : s \in Settings(p[1], p[2])
      BY <1>1, <1>4, <2>3
    <3>2. PICK m \in Predividers(fin) : \E n \in Multipliers(fin, m) : p = <<m, n>>
      BY <3>1
    <3>3. PICK n \in Multipliers(fin, m) : p = <<m, n>>
      BY <3>2
    <3>4. PICK e \in Post((fin \div m) * n) : s = Setting(k, fin, target, only, m, n, e)
      BY <3>1, <3>3
    <3>5. /\ m \in 1..8 /\ n \in 60..119 /\ e \in 0..2
          /\ InRange(fin \div m, 12000000, 24000000)
          /\ InRange((fin \div m) * n, 900000000, 1800000000)
          /\ (fin \div m) * n > 1039500000 => e # 0
      BY <1>2, <2>1, <2>2, <3>4
    <3>6. (fin \div m) * n \in Nat
      <4>1. fin \div m \in Nat /\ n \in Nat
        BY <3>5
      <4> QED  BY <4>1
    <3>7. ((fin \div m) * n) \div 2 ^ e <= 1039500000
      <4> DEFINE f == (fin \div m) * n
      <4>1. /\ f \in Nat /\ InRange(f, 900000000, 1800000000)
            /\ e \in 0..2
            /\ f > 1039500000 => e # 0
        BY <3>5, <3>6
      <4> HIDE DEF f
      <4>2. 2 ^ 0 = 1 /\ 2 ^ 1 = 2 /\ 2 ^ 2 = 4
        OBVIOUS
      <4>3. f <= 1800000000
        BY <4>1 DEF InRange
      <4>4. f \div 2 ^ e <= 1039500000
        <5>1. CASE e = 0
          BY <4>1, <4>2, <5>1
        <5>2. CASE e = 1
          BY <4>1, <4>2, <4>3, <5>2
        <5>3. CASE e = 2
          BY <4>1, <4>2, <4>3, <5>3
        <5> QED  BY <4>1, <5>1, <5>2, <5>3
      <4> QED  BY <4>4 DEF f
    <3>8. PllRanges(fin, m, n, e)
      BY <3>5, <3>7 DEF PllRanges
    <3> QED  BY <3>4, <3>5, <3>8 DEF Tried
  <2>4. LvdsPllCalc(k, fin, target, only) # {}
    <3>1. PICK m \in Predividers(fin) : TRUE
      BY <2>1
    <3>2. PICK n \in Multipliers(fin, m) : TRUE
      BY <2>2
    <3>3. <<m, n>> \in Pairs
      OBVIOUS
    <3>4. Settings(m, n) # {}
      BY <1>2
    <3>5. <<m, n>>[1] = m /\ <<m, n>>[2] = n
      OBVIOUS
    <3>6. PICK s : s \in Settings(m, n)
      BY <3>4
    <3> HIDE DEF Settings, Pairs
    <3>7. s \in Settings(<<m, n>>[1], <<m, n>>[2])
      BY <3>5, <3>6
    <3>8. s \in UNION {Settings(p[1], p[2]) : p \in Pairs}
      BY <3>3, <3>7, Zenon
    <3> QED  BY <1>1, <1>4, <3>8
  <2> QED  BY <2>3, <2>4
<1> QED  BY <1>3, <1>4

\* What the search has to compare is numbers, and the divider it computes fits in
\* its six bits, unless the dot clock is too slow.
LEMMA SettingDivides ==
  ASSUME NEW k \in 1..3, NEW fin \in Nat, NEW target \in Nat \ {0}, NEW only \in BOOLEAN,
         NEW s, Tried(s, k, fin, target, only)
  PROVE  /\ s.diff \in Nat /\ s.rank \in Nat
         /\ FastEnough(target, only) => s.div \in 1..64
<1>1. PICK m \in 1..8, n \in 60..119, e \in 0..2 :
        PllRanges(fin, m, n, e) /\ s = Setting(k, fin, target, only, m, n, e)
  BY DEF Tried
<1> DEFINE f == (fin \div m) * n
           fout == PllOutput(fin, m, n, e, only)
           closest == DivRoundClosest(fout, target)
<1>2. f \in Nat
  <2>1. fin \div m \in Nat /\ n \in Nat
    OBVIOUS
  <2> QED  BY <2>1
<1>3. f \div 2 ^ e \in Nat /\ f \div 2 ^ e <= 1039500000
  <2>1. f \div 2 ^ e <= 1039500000
    BY <1>1 DEF PllRanges
  <2> HIDE DEF f
  <2>2. 2 ^ 0 = 1 /\ 2 ^ 1 = 2 /\ 2 ^ 2 = 4
    OBVIOUS
  <2>3. f \div 1 \in Nat /\ f \div 2 \in Nat /\ f \div 4 \in Nat
    BY <1>2
  <2>4. e = 0 \/ e = 1 \/ e = 2
    OBVIOUS
  <2>5. f \div 2 ^ e \in Nat
    BY <2>2, <2>3, <2>4, Zenon
  <2> QED  BY <2>1, <2>5
<1>4. fout = (f \div 2 ^ e) \div (IF only THEN 1 ELSE 7)
  BY DEF PllOutput
<1>5. fout \in Nat /\ fout <= (IF only THEN 1039500000 ELSE 148500000)
  <2> DEFINE g == f \div 2 ^ e
  <2>1. g \in Nat /\ g <= 1039500000 /\ fout = g \div (IF only THEN 1 ELSE 7)
    BY <1>3, <1>4
  <2> HIDE DEF g, fout
  <2> QED  BY <2>1
<1>6. /\ s.diff = Diff(fout \div Max({1, closest}), target)
      /\ s.rank = ((k * 10 + m) * 1000 + n) * 10 + e
      /\ s.div = Max({1, closest})
  BY <1>1 DEF Setting
<1> HIDE DEF fout
<1>7. closest \in Nat
  BY <1>5 DEF DivRoundClosest
<1>8. Max({1, closest}) = IF 1 >= closest THEN 1 ELSE closest
  <2> HIDE DEF closest
  <2> QED  BY <1>7, OfTwo
<1>9. FastEnough(target, only) => closest <= 64
  <2>1. closest * target <= fout + target \div 2
    BY <1>5 DEF DivRoundClosest
  <2>2. CASE only
    BY <1>5, <1>7, <2>1, <2>2 DEF DivRoundClosest, FastEnough
  <2>3. CASE ~only
    BY <1>5, <1>7, <2>1, <2>3 DEF DivRoundClosest, FastEnough
  <2> QED  BY <2>2, <2>3
<1>10. s.diff \in Nat
  <2> DEFINE d == Max({1, closest})
  <2>1. d \in Nat \ {0}
    BY <1>7, <1>8
  <2>2. s.diff = Diff(fout \div d, target)
    BY <1>6
  <2> HIDE DEF d
  <2>3. fout \div d \in Nat
    BY <1>5, <2>1
  <2> QED  BY <2>2, <2>3 DEF Diff
<1>11. s.rank \in Nat
  BY <1>6
<1> HIDE DEF closest
<1>12. FastEnough(target, only) => s.div \in 1..64
  BY <1>6, <1>7, <1>8, <1>9
<1> QED  BY <1>10, <1>11, <1>12

\* The fields r of the registers say a setting in range.
FieldsInRange(b, r) ==
  \E k \in 1..3, m \in 1..8, n \in 60..119, e \in 0..2 :
    /\ PllRanges(b.pll[k], m, n, e)
    /\ r.clk = k /\ r.m = m - 1 /\ r.n = n - 1 /\ r.e = e

\* The setting the search ends with is in range, and its divider fits unless the
\* dot clock is too slow.
LEMMA LvdsPllSetupInRange ==
  ASSUME NEW b \in Boards, b.kind = "lvds", NEW freq \in Nat \ {0}, NEW only \in BOOLEAN,
         NEW r, r = LvdsPllSetup(b, freq, only)
  PROVE  /\ FieldsInRange(b, r)
         /\ FastEnough(freq, only) => ~r.divstp
<1> DEFINE found == UNION {LvdsPllCalc(k, b.pll[k], freq, only) : k \in 1..3}
<1>1. /\ b.pll \in [1..3 -> Nat]
      /\ \E k \in 1..3 : ClockTaken(b.pll[k])
  BY ClocksAssumption, SMT DEF BoardOK, ClockTaken
<1>2. ASSUME NEW t \in found PROVE \E k \in 1..3 : Tried(t, k, b.pll[k], freq, only)
  <2>1. PICK k \in 1..3 : t \in LvdsPllCalc(k, b.pll[k], freq, only)
    BY <1>2
  <2>2. b.pll[k] \in Nat
    BY <1>1
  <2> QED  BY <2>1, <2>2, LvdsPllCalcInRange
<1>3. found # {}
  <2>1. PICK k \in 1..3 : ClockTaken(b.pll[k])
    BY <1>1
  <2>2. b.pll[k] \in Nat
    BY <1>1
  <2>3. LvdsPllCalc(k, b.pll[k], freq, only) # {}
    BY <2>1, <2>2, LvdsPllCalcInRange
  <2> QED  BY <2>3
<1>4. \A t \in found : t.diff \in Nat /\ t.rank \in Nat
  <2> SUFFICES ASSUME NEW t \in found PROVE t.diff \in Nat /\ t.rank \in Nat
    OBVIOUS
  <2>1. PICK k \in 1..3 : Tried(t, k, b.pll[k], freq, only)
    BY <1>2
  <2>2. b.pll[k] \in Nat
    BY <1>1
  <2> HIDE DEF found
  <2> QED  BY <2>1, <2>2, SettingDivides
<1> HIDE DEF found
<1>5. First(found) \in found
  BY <1>3, <1>4, FirstFound
<1> DEFINE s == First(found)
<1>6. PICK k \in 1..3 : Tried(s, k, b.pll[k], freq, only)
  BY <1>2, <1>5
<1>7. b.pll[k] \in Nat
  BY <1>1
<1>8. /\ r.clk = s.clk /\ r.n = s.n - 1 /\ r.m = s.m - 1 /\ r.e = s.e
      /\ r.divstp = (((s.div - 1) \div 64) % 2 = 1)
  BY DEF LvdsPllSetup, found
<1> HIDE DEF s
<1>9. PICK m \in 1..8, n \in 60..119, e \in 0..2 :
        PllRanges(b.pll[k], m, n, e) /\ s = Setting(k, b.pll[k], freq, only, m, n, e)
  BY <1>6 DEF Tried
<1>10. s.clk = k /\ s.m = m /\ s.n = n /\ s.e = e
  BY <1>9 DEF Setting
<1>11. ASSUME FastEnough(freq, only) PROVE ~r.divstp
  <2>1. s.div \in 1..64
    BY <1>6, <1>7, <1>11, SettingDivides
  <2>2. (s.div - 1) \div 64 = 0
    BY <2>1
  <2>3. 0 % 2 # 1
    OBVIOUS
  <2> QED  BY <1>8, <2>2, <2>3, Zenon
<1>12. FieldsInRange(b, r)
  BY <1>8, <1>9, <1>10 DEF FieldsInRange
<1> QED  BY <1>11, <1>12

--------------------------------------------------------------------------------
(* Clocks: the PLL of the DSI encoder and the HDMI PHY                       *)

\* The greatest of some numbers with a bound is one of them.
LEMMA MaxOfBounded ==
  ASSUME NEW S \in SUBSET Nat, S # {}, NEW high \in Nat, \A x \in S : x <= high
  PROVE  Max(S) \in S /\ \A x \in S : x <= Max(S)
<1> DEFINE T == {high - x : x \in S}
<1>1. T \in SUBSET Nat /\ T # {}
  <2>1. \A x \in S : high - x \in Nat
    OBVIOUS
  <2>2. PICK x \in S : TRUE
    OBVIOUS
  <2>3. high - x \in T
    BY <2>2
  <2> QED  BY <2>1, <2>3
<1>2. Min(T) \in T /\ \A y \in T : Min(T) <= y
  <2> HIDE DEF T
  <2> QED  BY <1>1, MinOfNat
<1>3. PICK x \in S : Min(T) = high - x
  BY <1>2
<1>4. \A y \in S : y <= x
  <2> SUFFICES ASSUME NEW y \in S PROVE y <= x
    OBVIOUS
  <2>1. high - x <= high - y
    BY <1>2, <1>3
  <2> QED  BY <2>1
<1> QED  BY <1>3, <1>4 DEF Max

\* The error is in units of a ten thousandth, rounded down.
LEMMA TenThousandthsKnown ==
  ASSUME NEW diff \in Nat, NEW target \in Nat, target >= 10000,
         NEW k, k = TenThousandths(diff, target)
  PROVE  k \in Nat /\ k * target <= 10000 * diff /\ 10000 * diff < (k + 1) * target
<1> DEFINE whole == target \div 10000
           part == target % 10000
           low == diff \div (whole + 1)
           high == diff \div whole
           S == {j \in low .. high : j * whole + DivRoundUp(j * part, 10000) <= diff}
<1>1. whole \in Nat \ {0} /\ part \in 0..9999 /\ target = whole * 10000 + part
  OBVIOUS
<1>2. k = Max(S)
  BY DEF TenThousandths
<1> HIDE DEF whole, part
<1>3. /\ low \in Nat /\ low * (whole + 1) <= diff
      /\ high \in Nat /\ high * whole <= diff /\ diff < high * whole + whole
  BY <1>1, Quotient
<1> HIDE DEF high, low
<1>4. \A j \in Nat : /\ j * part \in Nat /\ DivRoundUp(j * part, 10000) \in Nat
                     /\ j * part <= 10000 * DivRoundUp(j * part, 10000)
                     /\ 10000 * DivRoundUp(j * part, 10000) < j * part + 10000
  <2> SUFFICES ASSUME NEW j \in Nat, NEW p \in Nat
               PROVE  /\ DivRoundUp(p, 10000) \in Nat
                      /\ p <= 10000 * DivRoundUp(p, 10000)
                      /\ 10000 * DivRoundUp(p, 10000) < p + 10000
    BY <1>1
  <2> QED  BY DEF DivRoundUp
<1>5. low \in S
  <2>1. low * (whole + 1) = low * whole + low
    BY <1>1, <1>3
  <2>2. low * part <= 10000 * low
    BY <1>1, <1>3
  <2>3. DivRoundUp(low * part, 10000) <= low
    BY <1>3, <1>4, <2>2
  <2>4. low * whole + DivRoundUp(low * part, 10000) <= diff
    BY <1>1, <1>3, <1>4, <2>1, <2>3
  <2>5. low <= high
    <3> SUFFICES ASSUME low >= high + 1 PROVE FALSE
      BY <1>3
    <3>1. low * whole >= (high + 1) * whole /\ (high + 1) * whole = high * whole + whole
      BY <1>1, <1>3
    <3> QED  BY <1>1, <1>3, <2>1, <3>1
  <2> QED  BY <1>3, <2>4, <2>5
<1>6. k \in S /\ \A j \in S : j <= k
  <2>1. S \in SUBSET Nat /\ S # {} /\ \A j \in S : j <= high
    BY <1>3, <1>5
  <2>2. high \in Nat
    BY <1>3
  <2> HIDE DEF S
  <2>3. Max(S) \in S /\ \A j \in S : j <= Max(S)
    BY <2>1, <2>2, MaxOfBounded
  <2> QED  BY <1>2, <2>3
<1>7. k \in Nat /\ k <= high /\ k * whole + DivRoundUp(k * part, 10000) <= diff
  BY <1>3, <1>6
<1>8. k * target <= 10000 * diff
  <2>1. k * target = (k * whole) * 10000 + k * part
    BY <1>1, <1>7
  <2>2. k * whole \in Nat
    BY <1>1, <1>7
  <2> QED  BY <1>4, <1>7, <2>1, <2>2
<1>9. 10000 * diff < (k + 1) * target
  <2>1. /\ (k + 1) * target = ((k + 1) * whole) * 10000 + (k + 1) * part
        /\ (k + 1) * whole \in Nat /\ (k + 1) * part \in Nat
    BY <1>1, <1>7
  <2>2. CASE k = high
    BY <1>1, <1>3, <2>1, <2>2
  <2>3. CASE k # high
    <3>1. k + 1 \in low .. high /\ k + 1 \notin S
      BY <1>3, <1>6, <1>7, <2>3
    <3>2. (k + 1) * whole + DivRoundUp((k + 1) * part, 10000) > diff
      <4>1. DivRoundUp((k + 1) * part, 10000) \in Nat
        BY <1>4, <1>7
      <4> QED  BY <2>1, <3>1, <4>1
    <3>3. 10000 * DivRoundUp((k + 1) * part, 10000) < (k + 1) * part + 10000
      BY <1>4, <1>7
    <3>4. DivRoundUp((k + 1) * part, 10000) \in Nat
      BY <1>4, <1>7
    <3> QED  BY <2>1, <3>2, <3>3, <3>4
  <2> QED  BY <2>2, <2>3
<1> QED  BY <1>7, <1>8, <1>9

\* The rates the PLL of the DSI encoder is asked for.
RateCovered(target) == DsiInRange(target) /\ target # 40000000

DividedInRange(target, div) ==
  \/ div = 0 /\ target > 320000000
  \/ div = 1 /\ target > 160000000 /\ target <= 320000000
  \/ div = 2 /\ target > 80000000 /\ target <= 160000000
  \/ div = 3 /\ target > 40000000 /\ target <= 80000000

\* The tables of the DSI encoder cover the rates it runs at: a row for the
\* oscillator, which multiplied by its divider is in a range of its own.
LEMMA VcoCovers ==
  ASSUME NEW target \in Nat, RateCovered(target)
  PROVE  /\ Vco(target) \in 1..11
         /\ DividedInRange(target, VcoTable[Vco(target)][3])
<1> DEFINE rows == {i \in DOMAIN VcoTable : target > VcoTable[i][1] /\ target <= VcoTable[i][2]}
           OK(i) == DividedInRange(target, VcoTable[i][3])
<1>1. target > 40000000 /\ target <= 1250000000
  BY SMT DEF RateCovered, DsiInRange, InRange
<1>2. DOMAIN VcoTable = 1..11
  BY SMT DEF VcoTable
<1>3. /\ VcoTable[1] = <<40000000, 55000000, 3>> /\ VcoTable[2] = <<52500000, 80000000, 3>>
      /\ VcoTable[3] = <<80000000, 110000000, 2>> /\ VcoTable[4] = <<105000000, 160000000, 2>>
      /\ VcoTable[5] = <<160000000, 220000000, 1>> /\ VcoTable[6] = <<210000000, 320000000, 1>>
      /\ VcoTable[7] = <<320000000, 440000000, 0>> /\ VcoTable[8] = <<420000000, 660000000, 0>>
      /\ VcoTable[9] = <<630000000, 1149000000, 0>> /\ VcoTable[10] = <<1100000000, 1152000000, 0>>
      /\ VcoTable[11] = <<1150000000, 1250000000, 0>>
  BY SMT DEF VcoTable
<1>4. \E i \in 1..11 : target > VcoTable[i][1] /\ target <= VcoTable[i][2]
  BY <1>1, <1>3, SMT
<1>5. rows \in SUBSET Nat /\ rows # {} /\ rows \subseteq 1..11
  BY <1>2, <1>4, SMT
<1>6. \A i \in rows : OK(i)
  <2> SUFFICES ASSUME NEW i \in rows PROVE OK(i)
    OBVIOUS
  <2>1. i \in 1..11 /\ target > VcoTable[i][1] /\ target <= VcoTable[i][2]
    BY <1>2, SMT
  <2> HIDE DEF rows
  <2>2. CASE i \in 1..4
    BY <1>3, <2>1, <2>2, SMT DEF DividedInRange
  <2>3. CASE i \in 5..8
    BY <1>3, <2>1, <2>3, SMT DEF DividedInRange
  <2>4. CASE i \in 9..11
    BY <1>3, <2>1, <2>4, SMT DEF DividedInRange
  <2> QED  BY <2>1, <2>2, <2>3, <2>4, SMT
<1>7. Vco(target) = IF rows = {} THEN 0 ELSE Min(rows)
  BY SMT DEF Vco
<1> HIDE DEF rows, OK
<1>8. Min(rows) \in rows
  BY <1>5, MinOfNat
<1>9. Vco(target) \in rows
  BY <1>5, <1>7, <1>8
<1>10. OK(Vco(target)) /\ Vco(target) \in 1..11
  BY <1>5, <1>6, <1>9
<1> QED  BY <1>10 DEF OK

\* And a row for the lanes.
LEMMA HsCovers ==
  ASSUME NEW target \in Nat, RateCovered(target)
  PROVE  \A i \in HsRows(target) : i # 0
<1> DEFINE h == HsTable
           rows == {i \in 2..63 : target > h[i - 1] * 500000 /\ target <= h[i] * 500000}
<1>1. target > 40000000 /\ target <= 1250000000
  BY SMT DEF RateCovered, DsiInRange, InRange
<1>2. Len(h) = 63 /\ h[1] = 80 /\ h[63] = 2500
  BY SMT DEF HsTable
<1>3. \A i \in 1..63 : h[i] \in Nat
  BY SMT DEF HsTable
<1>4. HsRows(target) = IF rows = {} THEN {0, 1} ELSE rows
  BY <1>2, SMT DEF HsRows
<1> DEFINE above == {i \in 2..63 : target <= h[i] * 500000}
<1>5. above \in SUBSET Nat /\ 63 \in above
  <2>1. target <= h[63] * 500000
    BY <1>1, <1>2, SMT
  <2>2. 63 \in 2..63 /\ 2..63 \subseteq Nat
    BY SMT
  <2> HIDE DEF h
  <2> QED  BY <2>1, <2>2, SMT
<1>6. Min(above) \in above /\ \A i \in above : Min(above) <= i
  <2>1. above # {}
    BY <1>5
  <2> HIDE DEF above
  <2> QED  BY <1>5, <2>1, MinOfNat
<1> DEFINE i == Min(above)
<1>7. i \in 2..63 /\ target <= h[i] * 500000 /\ (i # 2 => ~(target <= h[i - 1] * 500000))
  <2>1. i \in above /\ \A j \in above : i <= j
    BY <1>6
  <2> HIDE DEF i
  <2>2. i \in 2..63 /\ target <= h[i] * 500000
    BY <2>1, SMT
  <2>3. ASSUME i # 2, target <= h[i - 1] * 500000 PROVE FALSE
    <3>1. i - 1 \in 2..63
      BY <2>2, <2>3, SMT
    <3>2. i - 1 \in above
      BY <3>1, <2>3, SMT
    <3> QED  BY <2>1, <2>2, <3>2, SMT
  <2> QED  BY <2>2, <2>3, SMT
<1> HIDE DEF i, h
<1>8. i \in rows
  <2>1. i - 1 \in 1..63 /\ h[i - 1] \in Nat
    BY <1>3, <1>7, SMT
  <2>2. CASE i = 2
    BY <1>1, <1>2, <1>7, <2>2, SMT
  <2>3. CASE i # 2
    BY <1>7, <2>1, <2>3, SMT
  <2> QED  BY <2>2, <2>3
<1> QED  BY <1>4, <1>8, SMT

\* What NearMultiplier is about: a clock of the DSI encoder, the rate multiplied by
\* the divider, and what is near enough.
DsiClock(fin) == InRange(fin, 10000000, 40000000)
Oscillator(T) == InRange(T, 320000000, 1250000000)
Near(x, y) == 128 * Diff(x, y) <= y

\* Some pre-divider, the eighth or the fifth part, has a multiplier next to the
\* exact one that is within the limits and near.
LEMMA NearMultiplier ==
  ASSUME NEW fin \in Nat, DsiClock(fin), NEW T \in Nat, Oscillator(T)
  PROVE  \E n \in 3..8, k \in -1 .. 2 :
           LET f == fin \div n
               m == T \div f + k
           IN m \in 64..625 /\ Near(f * m, T)
<1>1. fin >= 10000000 /\ fin <= 40000000 /\ T >= 320000000 /\ T <= 1250000000
  BY SMT DEF DsiClock, Oscillator, InRange
<1> DEFINE f8 == fin \div 8
           f5 == fin \div 5
           q8 == T \div f8
           q5 == T \div f5
<1>2. /\ f8 \in Nat /\ f8 >= 1250000 /\ f8 <= 5000000 /\ fin <= 8 * f8 + 7
      /\ f5 \in Nat /\ f5 >= 2000000 /\ f5 <= 8000000 /\ 5 * f5 <= fin
  BY <1>1, SMT
<1> HIDE DEF f8, f5
<1>3. /\ q8 \in Nat /\ q8 * f8 <= T /\ T < q8 * f8 + f8
      /\ \A c \in Nat : c * f8 <= T => c <= q8
      /\ \A c \in Nat : T < c * f8 => q8 < c
  <2>1. f8 \in Nat \ {0}
    BY <1>2, SMT
  <2> QED  BY <2>1, Quotient
<1>4. /\ q5 \in Nat /\ q5 * f5 <= T /\ T < q5 * f5 + f5
      /\ \A c \in Nat : c * f5 <= T => c <= q5
      /\ \A c \in Nat : T < c * f5 => q5 < c
  <2>1. f5 \in Nat \ {0}
    BY <1>2, SMT
  <2> QED  BY <2>1, Quotient
<1> HIDE DEF q8, q5
<1>5. q8 >= 64
  <2>1. 64 * f8 <= T
    BY <1>1, <1>2, SMT
  <2> QED  BY <1>3, <2>1, SMT
<1>6. CASE q8 <= 624
  <2>1. 64 * f8 <= T
    BY <1>1, <1>2, SMT
  <2>2. q8 * f8 \in Nat /\ f8 * q8 = q8 * f8 /\ f8 * (q8 + 1) = q8 * f8 + f8
    BY <1>2, <1>3, SMT
  <2>3. CASE 2 * (T - q8 * f8) <= f8
    <3>1. Near(f8 * q8, T)
      BY <1>2, <1>3, <2>1, <2>2, <2>3, SMT DEF Near, Diff
    <3>2. q8 + 0 = q8 /\ q8 \in 64..625
      BY <1>3, <1>5, <1>6, SMT
    <3>3. (T \div (fin \div 8)) + 0 \in 64..625 /\ Near((fin \div 8) * ((T \div (fin \div 8)) + 0), T)
      BY <3>1, <3>2 DEF q8, f8
    <3>4. 8 \in 3..8 /\ 0 \in -1 .. 2
      BY SMT
    <3> QED  BY <3>3, <3>4, SMT
  <2>4. CASE ~(2 * (T - q8 * f8) <= f8)
    <3>1. Near(f8 * (q8 + 1), T)
      BY <1>2, <1>3, <2>1, <2>2, <2>4, SMT DEF Near, Diff
    <3>2. q8 + 1 \in 64..625
      BY <1>3, <1>5, <1>6, SMT
    <3>3. (T \div (fin \div 8)) + 1 \in 64..625 /\ Near((fin \div 8) * ((T \div (fin \div 8)) + 1), T)
      BY <3>1, <3>2 DEF q8, f8
    <3>4. 8 \in 3..8 /\ 1 \in -1 .. 2
      BY SMT
    <3> QED  BY <3>3, <3>4, SMT
  <2> QED  BY <2>3, <2>4
<1>7. CASE q8 > 624
  <2>1. 625 * f8 <= T
    <3>1. q8 >= 625
      BY <1>3, <1>7, SMT
    <3>2. 625 * f8 <= q8 * f8
      BY <1>2, <1>3, <3>1, SMT
    <3> QED  BY <1>2, <1>3, <3>2, SMT
  <2>2. 380 * f5 <= T /\ T < 626 * f5
    BY <1>1, <1>2, <2>1, SMT
  <2>3. q5 >= 380 /\ q5 < 626
    BY <1>4, <2>2, SMT
  <2>4. q5 * f5 \in Nat /\ f5 * q5 = q5 * f5
    BY <1>2, <1>4, SMT
  <2>5. Near(f5 * q5, T)
    BY <1>2, <1>4, <2>2, <2>4, SMT DEF Near, Diff
  <2>6. q5 + 0 = q5 /\ q5 \in 64..625
    BY <1>4, <2>3, SMT
  <2>7. (T \div (fin \div 5)) + 0 \in 64..625 /\ Near((fin \div 5) * ((T \div (fin \div 5)) + 0), T)
    BY <2>5, <2>6 DEF q5, f5
  <2>8. 5 \in 3..8 /\ 0 \in -1 .. 2
    BY SMT
  <2> QED  BY <2>7, <2>8, SMT
<1>8. q8 <= 624 \/ q8 > 624
  BY <1>3, SMT
<1> QED  BY <1>6, <1>7, <1>8

\* What the PLL makes of the frequency f of its phase detector.
DsiFout(f, d, m) == ((f \div d) * m) + ((f % d) * m) \div d

\* It is the product over the divider, and little more without the part below one.
LEMMA DsiFoutBounds ==
  ASSUME NEW f \in Nat, NEW d \in {1, 2, 4, 8}, NEW m \in Nat
  PROVE  /\ DsiFout(f, d, m) \in Nat
         /\ DsiFout(f, d, m) * d <= f * m /\ f * m < DsiFout(f, d, m) * d + d
         /\ (f \div d) * m \in Nat
         /\ (f \div d) * m <= DsiFout(f, d, m) /\ DsiFout(f, d, m) <= (f \div d) * m + m
<1> DEFINE a == f \div d
           r == f % d
<1>1. a \in Nat /\ r \in Nat /\ r < d /\ f = a * d + r
  BY SMT
<1>2. DsiFout(f, d, m) = (a * m) + (r * m) \div d
  BY DEF DsiFout
<1> HIDE DEF a, r
<1> DEFINE am == a * m
           rm == r * m
<1>3. am \in Nat /\ rm \in Nat /\ rm <= d * m
  BY <1>1, SMT
<1>4. f * m = am * d + rm
  BY <1>1, SMT
<1>5. DsiFout(f, d, m) = am + rm \div d
  BY <1>2
<1> HIDE DEF am, rm
<1>6. /\ rm \div d \in Nat /\ (rm \div d) * d <= rm /\ rm < (rm \div d) * d + d
      /\ rm \div d <= m
  BY <1>3, SMT
<1>7. (am + rm \div d) * d = am * d + (rm \div d) * d
  BY <1>3, <1>6, SMT
<1>8. /\ DsiFout(f, d, m) \in Nat
      /\ DsiFout(f, d, m) * d <= f * m /\ f * m < DsiFout(f, d, m) * d + d
      /\ am \in Nat
      /\ am <= DsiFout(f, d, m) /\ DsiFout(f, d, m) <= am + m
  BY <1>3, <1>4, <1>5, <1>6, <1>7, SMT
<1> QED  BY <1>8 DEF am, a

\* The multipliers within the limits, and the ten thousandths of a near rate.
DsiMultipliers == 64..625
Most == 78

\* A setting near enough is off by less than 79 ten thousandths of the rate; and
\* one that is off by less is within a hundredth without the part below one.
LEMMA NearIsClose ==
  ASSUME NEW f \in Nat, NEW d \in {1, 2, 4, 8}, NEW m \in DsiMultipliers,
         NEW target \in Nat, RateCovered(target)
  PROVE  /\ Near(f * m, target * d) =>
              TenThousandths(Diff(DsiFout(f, d, m), target), target) <= Most
         /\ TenThousandths(Diff(DsiFout(f, d, m), target), target) \in Nat
         /\ TenThousandths(Diff(DsiFout(f, d, m), target), target) <= Most =>
              Diff((f \div d) * m, target) <= target \div 100
<1> DEFINE F == DsiFout(f, d, m)
           am == (f \div d) * m
           fm == f * m
           diff == Diff(F, target)
           k == TenThousandths(diff, target)
<1>1. target > 40000000
  BY SMT DEF RateCovered, DsiInRange, InRange
<1>2. /\ F \in Nat /\ F * d <= fm /\ fm < F * d + d
      /\ am \in Nat /\ am <= F /\ F <= am + m
  <2>1. m \in Nat
    BY SMT DEF DsiMultipliers
  <2> QED  BY <2>1, DsiFoutBounds, Zenon
<1>3. fm \in Nat
  BY SMT DEF DsiMultipliers
<1> HIDE DEF F, am, fm
<1>4. diff \in Nat
  BY <1>2, SMT DEF Diff
<1>5. k \in Nat /\ k * target <= 10000 * diff /\ 10000 * diff < (k + 1) * target
  <2>1. target >= 10000
    BY <1>1, SMT
  <2>2. k = TenThousandths(diff, target)
    OBVIOUS
  <2> HIDE DEF diff, k
  <2> QED  BY <1>4, <2>1, <2>2, TenThousandthsKnown, SMT
<1> HIDE DEF k
<1>6. ASSUME Near(fm, target * d) PROVE k <= Most
  <2>1. 128 * Diff(fm, target * d) <= target * d
    BY <1>6 DEF Near
  <2>2. 128 * diff <= target + 128
    <3>1. CASE d = 1
      BY <1>2, <1>3, <2>1, <3>1, SMT DEF Diff
    <3>2. CASE d = 2
      BY <1>2, <1>3, <2>1, <3>2, SMT DEF Diff
    <3>3. CASE d = 4
      BY <1>2, <1>3, <2>1, <3>3, SMT DEF Diff
    <3>4. CASE d = 8
      BY <1>2, <1>3, <2>1, <3>4, SMT DEF Diff
    <3> QED  BY <3>1, <3>2, <3>3, <3>4
  <2> HIDE DEF diff
  <2>3. 10000 * diff < 79 * target
    BY <1>1, <1>4, <2>2, SMT
  <2> SUFFICES ASSUME k >= 79 PROVE FALSE
    BY <1>5, SMT DEF Most
  <2>4. k * target >= 79 * target
    BY <1>5, SMT
  <2> QED  BY <1>4, <1>5, <2>3, <2>4, SMT
<1>7. ASSUME k <= Most PROVE Diff(am, target) <= target \div 100
  <2>1. (k + 1) * target <= 79 * target
    BY <1>5, <1>7, SMT DEF Most
  <2>2. 10000 * diff < 79 * target
    BY <1>4, <1>5, <2>1, SMT
  <2>3. Diff(am, target) <= diff + m /\ Diff(am, target) \in Nat
    BY <1>2, SMT DEF Diff, DsiMultipliers
  <2> HIDE DEF diff
  <2> DEFINE off == Diff(am, target)
  <2> HIDE DEF off
  <2>4. 100 * off <= target
    <3>1. m <= 625 /\ m \in Nat
      BY SMT DEF DsiMultipliers
    <3> QED  BY <1>1, <1>4, <2>2, <2>3, <3>1, SMT DEF off
  <2>5. off <= target \div 100
    BY <2>3, <2>4, SMT DEF off
  <2> QED  BY <2>5 DEF off
<1> QED  BY <1>5, <1>6, <1>7 DEF k, diff, F, am, fm

\* What rcar_mipi_dsi_parametters_calc() tries.
DsiSetting(fin, d, target, n, m) ==
  [diff |-> TenThousandths(Diff(DsiFout(fin \div n, d, m), target), target),
   rank |-> n * 1000 + m, n |-> n, m |-> m]
Clipped(m) == Max({64, Min({625, m})})
DsiNext(fin, d, target, n) == {Clipped((target * d) \div (fin \div n) + k) : k \in -1..2}
DsiTried(fin, d, target) ==
  UNION {{DsiSetting(fin, d, target, n, m) : m \in DsiNext(fin, d, target, n)} : n \in 3..8}

\* The setting it ends with is in range and near the rate it was asked for.
LEMMA DsiFirstClose ==
  ASSUME NEW fin \in Nat, DsiClock(fin), NEW d \in {1, 2, 4, 8},
         NEW target \in Nat, RateCovered(target), Oscillator(target * d)
  PROVE  LET s == First(DsiTried(fin, d, target))
         IN /\ s.n \in 3..8 /\ s.m \in DsiMultipliers
            /\ Diff(((fin \div s.n) \div d) * s.m, target) <= target \div 100
<1> DEFINE T == target * d
           found == DsiTried(fin, d, target)
           s == First(found)
<1>1. T \in Nat
  BY SMT
<1>2. \A n \in 3..8 : fin \div n \in Nat \ {0}
  <2>1. fin >= 10000000
    BY SMT DEF DsiClock, InRange
  <2> QED  BY <2>1, SMT
<1>3. ASSUME NEW n \in 3..8, NEW k \in -1..2
      PROVE  /\ Clipped(T \div (fin \div n) + k) \in DsiMultipliers
             /\ T \div (fin \div n) + k \in DsiMultipliers =>
                  Clipped(T \div (fin \div n) + k) = T \div (fin \div n) + k
  <2> DEFINE q == T \div (fin \div n) + k
             most == Min({625, q})
  <2>1. T \div (fin \div n) \in Nat
    <3> HIDE DEF T
    <3>1. fin \div n \in Nat \ {0}
      BY <1>2
    <3> QED  BY <1>1, <3>1, Quotient
  <2>2. q \in Int
    BY <2>1
  <2> HIDE DEF q
  <2>3. most = IF 625 <= q THEN 625 ELSE q
    BY <2>2, OfTwo
  <2>4. most \in Int
    BY <2>2, <2>3
  <2> HIDE DEF most
  <2>5. Max({64, most}) = IF 64 >= most THEN 64 ELSE most
    BY <2>4, OfTwo
  <2>6. Max({64, most}) \in DsiMultipliers /\ (q \in DsiMultipliers => Max({64, most}) = q)
    BY <2>2, <2>3, <2>5 DEF DsiMultipliers
  <2> QED  BY <2>6 DEF most, q, Clipped
<1>4. \A n \in 3..8 : DsiNext(fin, d, target, n) \subseteq DsiMultipliers
  <2> SUFFICES ASSUME NEW n \in 3..8, NEW m \in DsiNext(fin, d, target, n) PROVE m \in DsiMultipliers
    OBVIOUS
  <2>1. PICK k \in -1..2 : m = Clipped((target * d) \div (fin \div n) + k)
    BY DEF DsiNext
  <2> QED  BY <1>3, <2>1, Zenon
<1>5. ASSUME NEW t \in found
      PROVE  \E n \in 3..8, m \in DsiMultipliers : t = DsiSetting(fin, d, target, n, m)
  <2>1. PICK n \in 3..8 : \E m \in DsiNext(fin, d, target, n) : t = DsiSetting(fin, d, target, n, m)
    BY <1>5 DEF DsiTried
  <2> QED  BY <1>4, <2>1
<1>6. ASSUME NEW n \in 3..8, NEW m \in DsiMultipliers, NEW t, t = DsiSetting(fin, d, target, n, m)
      PROVE  /\ t.diff \in Nat /\ t.rank \in Nat /\ t.n = n /\ t.m = m
             /\ Near((fin \div n) * m, T) => t.diff <= Most
             /\ t.diff <= Most => Diff(((fin \div n) \div d) * m, target) <= target \div 100
  <2>1. /\ t.diff = TenThousandths(Diff(DsiFout(fin \div n, d, m), target), target)
        /\ t.rank = n * 1000 + m /\ t.n = n /\ t.m = m
    BY <1>6 DEF DsiSetting
  <2>2. m \in Nat
    BY SMT DEF DsiMultipliers
  <2>3. fin \div n \in Nat
    BY <1>2
  <2>4. t.rank \in Nat
    BY <2>1, <2>2
  <2> DEFINE K == TenThousandths(Diff(DsiFout(fin \div n, d, m), target), target)
  <2>5. /\ Near((fin \div n) * m, T) => K <= Most
        /\ K \in Nat
        /\ K <= Most => Diff(((fin \div n) \div d) * m, target) <= target \div 100
    BY <2>3, NearIsClose, Zenon
  <2>6. t.diff = K
    BY <2>1
  <2> HIDE DEF K, T
  <2> QED  BY <2>1, <2>4, <2>5, <2>6
<1>7. \E t \in found : t.diff <= Most
  <2>1. PICK n \in 3..8, k \in -1..2 :
          (T \div (fin \div n) + k) \in DsiMultipliers /\ Near((fin \div n) * (T \div (fin \div n) + k), T)
    <3> HIDE DEF T
    <3> QED  BY <1>1, NearMultiplier DEF T, DsiMultipliers
  <2> DEFINE m == T \div (fin \div n) + k
             t == DsiSetting(fin, d, target, n, m)
  <2>2. m = Clipped((target * d) \div (fin \div n) + k)
    BY <1>3, <2>1
  <2>3. m \in DsiNext(fin, d, target, n)
    <3> HIDE DEF m
    <3> QED  BY <2>2 DEF DsiNext
  <2>4. t \in found
    <3> HIDE DEF m
    <3> QED  BY <2>3 DEF DsiTried
  <2>5. t.diff <= Most
    <3>1. m \in DsiMultipliers /\ Near((fin \div n) * m, T)
      BY <2>1
    <3> HIDE DEF m, T
    <3> QED  BY <1>6, <3>1, Zenon
  <2> HIDE DEF t, found
  <2> QED  BY <2>4, <2>5
<1>8. \A t \in found : t.diff \in Nat /\ t.rank \in Nat
  <2> SUFFICES ASSUME NEW t \in found PROVE t.diff \in Nat /\ t.rank \in Nat
    OBVIOUS
  <2>1. PICK n \in 3..8, m \in DsiMultipliers : t = DsiSetting(fin, d, target, n, m)
    BY <1>5
  <2> HIDE DEF found
  <2> QED  BY <1>6, <2>1, Zenon
<1> HIDE DEF found
<1>9. s \in found /\ \A t \in found : s.diff <= t.diff
  <2>1. found # {}
    BY <1>7
  <2> QED  BY <1>8, <2>1, FirstFound
<1>10. s.diff <= Most
  <2>1. PICK t \in found : t.diff <= Most
    BY <1>7
  <2>2. s.diff <= t.diff /\ s.diff \in Nat /\ t.diff \in Nat
    BY <1>8, <1>9
  <2> HIDE DEF s
  <2> QED  BY <2>1, <2>2 DEF Most
<1>11. PICK n \in 3..8, m \in DsiMultipliers : s = DsiSetting(fin, d, target, n, m)
  BY <1>5, <1>9
<1> HIDE DEF s
<1>12. s.n = n /\ s.m = m /\ Diff(((fin \div n) \div d) * m, target) <= target \div 100
  <2> HIDE DEF T
  <2>1. /\ s.n = n /\ s.m = m
        /\ s.diff <= Most => Diff(((fin \div n) \div d) * m, target) <= target \div 100
    BY <1>6, <1>11
  <2> QED  BY <1>10, <2>1
<1>13. s.n \in 3..8 /\ s.m \in DsiMultipliers /\ Diff(((fin \div s.n) \div d) * s.m, target) <= target \div 100
  BY <1>12, Zenon
<1> QED  BY <1>13 DEF s, found

\* A divided rate keeps the oscillator in its range.
LEMMA DividerKnown ==
  ASSUME NEW target \in Nat, RateCovered(target), NEW e, DividedInRange(target, e)
  PROVE  2 ^ e \in {1, 2, 4, 8} /\ Oscillator(target * 2 ^ e)
<1>1. target <= 1250000000
  BY SMT DEF RateCovered, DsiInRange, InRange
<1>2. 2 ^ 0 = 1 /\ 2 ^ 1 = 2 /\ 2 ^ 2 = 4 /\ 2 ^ 3 = 8
  BY SMT
<1>3. CASE e = 0
  BY <1>1, <1>2, <1>3, SMT DEF DividedInRange, Oscillator, InRange
<1>4. CASE e = 1
  BY <1>1, <1>2, <1>4, SMT DEF DividedInRange, Oscillator, InRange
<1>5. CASE e = 2
  BY <1>1, <1>2, <1>5, SMT DEF DividedInRange, Oscillator, InRange
<1>6. CASE e = 3
  BY <1>1, <1>2, <1>6, SMT DEF DividedInRange, Oscillator, InRange
<1> QED  BY <1>3, <1>4, <1>5, <1>6, SMT DEF DividedInRange

\* The rate asked for is a number.
LEMMA DsiTargetKnown ==
  ASSUME NEW b \in Boards, b.kind = "dsi", NEW m, ModeOK(m)
  PROVE  DsiTarget(b, m) \in Nat
<1>1. b.dsi.lanes \in 1..4 /\ b.dsi.bpp \in {16, 18, 24} /\ m.clock \in Nat
  BY ClocksAssumption, SMT DEF BoardOK, ModeOK
<1> DEFINE bits == m.clock * b.dsi.bpp
           lanes == 2 * b.dsi.lanes
<1>2. bits \in Nat /\ lanes \in {2, 4, 6, 8}
  BY <1>1, SMT
<1>3. DsiTarget(b, m)
        = IF bits \div lanes >= FoutMax \div 1000 THEN FoutMax + 1
          ELSE (bits \div lanes) * 1000 + ((bits % lanes) * 1000) \div lanes
  BY DEF DsiTarget
<1> HIDE DEF bits, lanes
<1>4. FoutMax + 1 \in Nat
  BY SMT DEF FoutMax
<1>5. (bits \div lanes) * 1000 + ((bits % lanes) * 1000) \div lanes \in Nat
  BY <1>2, SMT
<1> QED  BY <1>3, <1>4, <1>5

\* What TransmitterReady asks of the settings r of the PLL.
DsiReady(b, r, target) ==
  /\ r.n + 1 \in 3..8 /\ r.m + 2 \in 64..625
  /\ r.vco # 0 /\ r.hs # 0
  /\ Diff(((b.dsi.fin \div (r.n + 1)) \div 2 ^ r.div) * (r.m + 2), target) <= target \div 100

\* The DSI PLL is set to the rate of the lanes if it is a rate of its tables.
LEMMA DsiSetupReady ==
  ASSUME NEW b \in Boards, b.kind = "dsi", NEW m, ModeOK(m), NEW r, r \in DsiSetup(b, m),
         RateCovered(DsiTarget(b, m))
  PROVE  DsiReady(b, r, DsiTarget(b, m))
<1> DEFINE target == DsiTarget(b, m)
           fin == b.dsi.fin
           row == Vco(target)
           div == VcoTable[row][3]
           s == First(DsiTried(fin, 2 ^ div, target))
<1>1. target \in Nat
  BY DsiTargetKnown
<1>2. RateCovered(target)
  OBVIOUS
<1> HIDE DEF target
<1>3. fin \in Nat /\ DsiClock(fin)
  BY ClocksAssumption, SMT DEF BoardOK, DsiClock
<1>4. row # 0 /\ DividedInRange(target, div)
  <2>1. row \in 1..11 /\ DividedInRange(target, div)
    BY <1>1, <1>2, VcoCovers
  <2> HIDE DEF row, div
  <2> QED  BY <2>1
<1>5. 2 ^ div \in {1, 2, 4, 8} /\ Oscillator(target * 2 ^ div)
  <2> HIDE DEF div
  <2> QED  BY <1>1, <1>2, <1>4, DividerKnown
<1>6. DsiPllCalc(b, target) = [m |-> s.m - 2, n |-> s.n - 1, div |-> div, vco |-> row]
  <2>1. \A n, k : (((fin \div n) \div 2 ^ div) * k) + (((fin \div n) % 2 ^ div) * k) \div 2 ^ div
                    = DsiFout(fin \div n, 2 ^ div, k)
    BY DEF DsiFout
  <2> QED  BY <1>4, <2>1 DEF DsiPllCalc, DsiTried, DsiSetting, DsiNext, Clipped, DsiFout
<1>7. PICK i \in HsRows(target) :
        r = [m |-> s.m - 2, n |-> s.n - 1, div |-> div, vco |-> row, hs |-> i]
  <2> DEFINE p == [m |-> s.m - 2, n |-> s.n - 1, div |-> div, vco |-> row]
  <2>1. DsiInRange(target)
    BY <1>2 DEF RateCovered
  <2>2. DsiSetup(b, m) = {[m |-> p.m, n |-> p.n, div |-> p.div, vco |-> p.vco, hs |-> i] :
                            i \in HsRows(target)}
    <3> HIDE DEF s, div, row
    <3> QED  BY <1>6, <2>1 DEF DsiSetup, target
  <2> HIDE DEF s, div, row
  <2> QED  BY <2>2
<1>8. i # 0
  BY <1>1, <1>2, <1>7, HsCovers
<1>9. /\ s.n \in 3..8 /\ s.m \in DsiMultipliers
      /\ Diff(((fin \div s.n) \div 2 ^ div) * s.m, target) <= target \div 100
  <2> HIDE DEF fin, div
  <2> QED  BY <1>1, <1>2, <1>3, <1>5, DsiFirstClose
<1> HIDE DEF s, div, row
<1>10. r.n + 1 = s.n /\ r.m + 2 = s.m /\ r.div = div /\ r.vco = row /\ r.hs = i
  BY <1>7, <1>9, SMT DEF DsiMultipliers
<1> QED  BY <1>4, <1>8, <1>9, <1>10 DEF DsiReady, DsiMultipliers, target

\* A clock no faster than some row of a table has a row.
LEMMA PhyRowFound ==
  ASSUME NEW table \in Seq(Nat), NEW clock \in Nat, NEW j \in DOMAIN table, clock <= table[j]
  PROVE  PhyRow(table, clock) \in DOMAIN table
<1> DEFINE S == {i \in DOMAIN table : clock <= table[i]} \cup {Len(table) + 1}
<1>1. DOMAIN table = 1..Len(table) /\ Len(table) \in Nat
  OBVIOUS
<1>2. S \in SUBSET Nat /\ j \in S
  BY <1>1
<1>3. \A i \in S : i = Len(table) + 1 \/ i \in DOMAIN table
  OBVIOUS
<1>4. PhyRow(table, clock) = Min(S)
  BY DEF PhyRow
<1> HIDE DEF S
<1>5. Min(S) \in S /\ Min(S) <= j
  BY <1>2, MinOfNat
<1> QED  BY <1>1, <1>3, <1>4, <1>5

\* The HDMI PHY takes every clock that HDMI accepts.
LEMMA PhyConfigured ==
  ASSUME NEW m, ModeOK(m), ClockAccepted("dpll", m)
  PROVE  PhyConfigure(m.clock)[1] \in DOMAIN PhyParams /\ PhyConfigure(m.clock)[2] \in DOMAIN PhyParams2
<1> DEFINE clock == m.clock
<1>1. clock \in Nat
  BY DEF ModeOK
<1>2. clock <= PhyParams[8] /\ clock <= PhyParams2[2]
  BY SMT DEF ClockAccepted, PhyParams, PhyParams2
<1> HIDE DEF clock
<1>3. PhyParams \in Seq(Nat) /\ PhyParams2 \in Seq(Nat)
  BY SMT DEF PhyParams, PhyParams2
<1>4. /\ DOMAIN PhyParams = 1..8 /\ Len(PhyParams) = 8
      /\ DOMAIN PhyParams2 = 1..2 /\ Len(PhyParams2) = 2
  BY SMT DEF PhyParams, PhyParams2
<1>5. PhyRow(PhyParams, clock) \in 1..8 /\ PhyRow(PhyParams2, clock) \in 1..2
  <2>1. 8 \in DOMAIN PhyParams /\ 2 \in DOMAIN PhyParams2
    BY <1>4
  <2> QED  BY <1>1, <1>2, <1>3, <1>4, <2>1, PhyRowFound
<1>6. PhyConfigure(clock) = <<PhyRow(PhyParams, clock), PhyRow(PhyParams2, clock)>>
  BY <1>4, <1>5 DEF PhyConfigure
<1> QED  BY <1>4, <1>5, <1>6 DEF clock

--------------------------------------------------------------------------------
(* Clocks: what a mode set computes                                          *)

\* rcar_du_register_access_check() lets a CRTC without a PLL write its divider: the
\* channels it refuses have a display PLL (H3) or take the clock of DSI (V3U).
LEMMA DividerAccessible ==
  ASSUME NEW b \in Boards, b.kind = "divider"
  PROVE  EscrAccessible(b)
<1>1. /\ b.crtc \in 0..3 /\ b.regs # "r8a779a0"
      /\ b.regs = "r8a7795" => b.crtc # 2
      /\ b.regs = "r8a77965" => b.crtc # 2
  BY ClocksAssumption, SMT DEF BoardOK
<1> QED  BY <1>1 DEF EscrAccessible

\* A mode set writes what is computed from the mode it adjusts, which is valid, of a
\* clock the LVDS PLL is asked for or the transmitter accepts.
LEMMA ModeSetStep ==
  ASSUME board \in Boards, ModeSet
  PROVE  /\ board' = board /\ rgb' \in BOOLEAN
         /\ ModeOK(adjusted') /\ ModeValid(adjusted') /\ timing' = DisplayTiming(adjusted')
         /\ board.kind = "lvds" =>
              /\ lvdpll' = LvdsPllSetup(board, adjusted'.clock * 1000, rgb')
              /\ ~rgb' => adjusted'.clock >= 5000
         /\ board.kind = "dsi" => dsi' \in DsiSetup(board, adjusted')
         /\ board.kind = "dpll" =>
              ClockAccepted("dpll", adjusted') /\ phy' = PhyConfigure(adjusted'.clock)
         /\ board.kind = "divider" => escr' = EscrParams(board, adjusted'.clock * 1000)
<1>1. PICK m \in Modes, alone \in BOOLEAN :
        /\ ModeValid(m) /\ ClockAccepted(board.kind, m)
        /\ rgb' = alone
        /\ adjusted' = ModeFixup(m, board.kind = "lvds" /\ ~alone)
        /\ SetDotClock(adjusted')
        /\ lvdpll' = IF board.kind = "lvds"
                     THEN LvdsPllSetup(board, adjusted'.clock * 1000, alone) ELSE lvdpll
        /\ IF board.kind = "dsi" THEN dsi' \in DsiSetup(board, m) ELSE UNCHANGED dsi
        /\ phy' = IF board.kind = "dpll" THEN PhyConfigure(m.clock) ELSE phy
        /\ timing' = DisplayTiming(adjusted')
        /\ UNCHANGED board
  BY DEF ModeSet
<1>2. ModeOK(m)
  BY ClocksAssumption
<1> DEFINE clock == Max({5000, Min({148500, m.clock})})
<1>3. /\ clock \in Nat \ {0} /\ clock >= 5000
      /\ [m EXCEPT !.clock = Max({5000, Min({148500, @})})] = [m EXCEPT !.clock = clock]
  <2>1. m.clock \in Nat
    BY <1>2 DEF ModeOK
  <2> DEFINE atMost == Min({148500, m.clock})
  <2>2. atMost \in Nat
    BY <2>1, OfTwo
  <2>3. clock = Max({5000, atMost})
    OBVIOUS
  <2> HIDE DEF atMost, clock
  <2>4. clock \in Nat \ {0} /\ clock >= 5000
    BY <2>2, <2>3, OfTwo
  <2> QED  BY <2>4 DEF clock
<1> HIDE DEF clock
<1>4. board.kind = "divider" => escr' = EscrParams(board, adjusted'.clock * 1000)
  <2> SUFFICES ASSUME board.kind = "divider"
               PROVE  escr' = EscrParams(board, adjusted'.clock * 1000)
    OBVIOUS
  <2>1. escr' = EscrValue(adjusted'.clock * 1000)
    BY <1>1, DividerAccessible DEF SetDotClock
  <2> QED  BY <2>1 DEF EscrValue
<1>5. CASE board.kind = "lvds" /\ ~alone
  <2>1. adjusted' = [m EXCEPT !.clock = clock]
    BY <1>1, <1>3, <1>5 DEF ModeFixup
  <2>2. adjusted'.clock = clock /\ adjusted'.h = m.h /\ adjusted'.v = m.v
        /\ adjusted'.interlace = m.interlace
    BY <1>2, <2>1 DEF ModeOK
  <2>3. ModeOK(adjusted')
    BY <1>2, <1>3, <2>1, <2>2 DEF ModeOK
  <2>4. ModeValid(adjusted')
    BY <1>1, <2>2 DEF ModeValid, VerticalBackPorch
  <2> QED  BY <1>1, <1>3, <1>4, <1>5, <2>2, <2>3, <2>4
<1>6. CASE ~(board.kind = "lvds" /\ ~alone)
  <2>1. adjusted' = m
    BY <1>1, <1>6 DEF ModeFixup
  <2> QED  BY <1>1, <1>2, <1>4, <1>6, <2>1
<1> QED  BY <1>5, <1>6

\* The registers of a valid mode describe a display.
LEMMA TimingsOfMode ==
  ASSUME NEW m, ModeOK(m), ModeValid(m)
  PROVE  LET t == DisplayTiming(m)
         IN /\ 1 <= t.hds /\ t.hde = t.hds + m.h.display
            /\ t.hde <= t.hc
            /\ 1 <= t.vds
            /\ t.vde = t.vds + FieldLines(m, m.v.display)
            /\ t.vde <= t.vsp /\ t.vsp <= t.vc
<1> DEFINE t == DisplayTiming(m)
<1>1. /\ m.h \in Scan /\ m.v \in Scan /\ m.interlace \in BOOLEAN
      /\ m.h.display <= m.h.start /\ m.h.start <= m.h.end /\ m.h.end <= m.h.total
      /\ m.v.display <= m.v.start /\ m.v.start <= m.v.end /\ m.v.end <= m.v.total
  BY DEF ModeOK
<1>2. /\ m.h.display \in Nat /\ m.h.start \in Nat /\ m.h.end \in Nat /\ m.h.total \in Nat
      /\ m.v.display \in Nat /\ m.v.start \in Nat /\ m.v.end \in Nat /\ m.v.total \in Nat
  BY <1>1 DEF Scan
<1>3. /\ m.h.total - m.h.start >= 20
      /\ (m.v.total - m.v.end) \div (IF m.interlace THEN 2 ELSE 1) >= 3
  BY DEF ModeValid, VerticalBackPorch
<1>4. /\ t.hds = m.h.total - m.h.start - 19
      /\ t.hde = m.h.total - m.h.start + m.h.display - 19
      /\ t.hc = m.h.total - 1
      /\ t.vds = FieldLines(m, m.v.total) - FieldLines(m, m.v.end) - 2
      /\ t.vde = FieldLines(m, m.v.total) - FieldLines(m, m.v.end) + FieldLines(m, m.v.display) - 2
      /\ t.vsp = FieldLines(m, m.v.total) - FieldLines(m, m.v.end) + FieldLines(m, m.v.start) - 1
      /\ t.vc = FieldLines(m, m.v.total) - 1
  BY DEF DisplayTiming
<1> HIDE DEF t
<1>5. 1 <= t.hds /\ t.hde = t.hds + m.h.display /\ t.hde <= t.hc
  BY <1>1, <1>2, <1>3, <1>4
<1> DEFINE total == FieldLines(m, m.v.total)
           end == FieldLines(m, m.v.end)
           start == FieldLines(m, m.v.start)
           display == FieldLines(m, m.v.display)
<1>6. /\ total \in Nat /\ end \in Nat /\ start \in Nat /\ display \in Nat
      /\ display <= start /\ start <= end /\ total - end >= 3
  <2>1. CASE m.interlace
    <3>1. total = m.v.total \div 2 /\ end = m.v.end \div 2 /\ start = m.v.start \div 2
          /\ display = m.v.display \div 2
      BY <2>1 DEF FieldLines
    <3>2. (m.v.total - m.v.end) \div 2 >= 3
      BY <1>3, <2>1
    <3> HIDE DEF total, end, start, display
    <3> QED  BY <1>1, <1>2, <3>1, <3>2
  <2>2. CASE ~m.interlace
    <3>1. total = m.v.total /\ end = m.v.end /\ start = m.v.start /\ display = m.v.display
      BY <2>2 DEF FieldLines
    <3>2. (m.v.total - m.v.end) \div 1 >= 3
      BY <1>3, <2>2
    <3> HIDE DEF total, end, start, display
    <3> QED  BY <1>1, <1>2, <3>1, <3>2
  <2> QED  BY <2>1, <2>2
<1>7. 1 <= t.vds /\ t.vde = t.vds + display /\ t.vde <= t.vsp /\ t.vsp <= t.vc
  <2>1. /\ t.vds = total - end - 2 /\ t.vde = total - end + display - 2
        /\ t.vsp = total - end + start - 1 /\ t.vc = total - 1
    BY <1>4
  <2> HIDE DEF total, end, start, display
  <2> QED  BY <1>6, <2>1
<1> QED  BY <1>5, <1>7 DEF t

\* The inductive invariant: the board stays, and each mode set finds what it needs.
ClocksInv ==
  /\ board \in Boards /\ enabled \in BOOLEAN
  /\ TimingsFit /\ DividerClose /\ PllInRange /\ TransmitterReady

\* A mode set leaves the LVDS PLL in its ranges: rcar_lvds_mode_fixup() keeps the
\* clock the divider can divide to, and an RGB output is looked at apart.
LEMMA PllOfModeSet ==
  ASSUME board \in Boards, ModeSet
  PROVE  PllInRange'
<1> SUFFICES ASSUME board.kind = "lvds" PROVE PllInRange'
  BY ModeSetStep DEF PllInRange
<1> DEFINE freq == adjusted'.clock * 1000
<1>1. /\ board' = board /\ rgb' \in BOOLEAN /\ adjusted'.clock \in Nat \ {0}
      /\ lvdpll' = LvdsPllSetup(board, freq, rgb')
      /\ ~rgb' => adjusted'.clock >= 5000
  BY ModeSetStep DEF ModeOK
<1>2. freq \in Nat \ {0}
  BY <1>1
<1>3. TooSlow' \/ FastEnough(freq, rgb')
  <2>1. ASSUME ~TooSlow' PROVE IF rgb' THEN adjusted'.clock >= 16200 ELSE adjusted'.clock >= 5000
    BY <1>1, <2>1 DEF TooSlow
  <2> QED  BY <1>1, <2>1 DEF FastEnough
<1> HIDE DEF freq
<1>4. rgb' \in BOOLEAN /\ lvdpll' = LvdsPllSetup(board, freq, rgb')
  BY <1>1
<1>5. FieldsInRange(board, lvdpll')
  BY <1>4, <1>2, LvdsPllSetupInRange, Zenon
<1>6. PICK k \in 1..3, m \in 1..8, n \in 60..119, e \in 0..2 :
        /\ PllRanges(board.pll[k], m, n, e)
        /\ lvdpll'.clk = k /\ lvdpll'.m = m - 1 /\ lvdpll'.n = n - 1 /\ lvdpll'.e = e
  BY <1>5 DEF FieldsInRange
<1>7. FastEnough(freq, rgb') => ~lvdpll'.divstp
  BY <1>4, <1>2, LvdsPllSetupInRange, Zenon
<1>8. lvdpll'.m + 1 = m /\ lvdpll'.n + 1 = n
  BY <1>6
<1>9. /\ InRange(board.pll[k] \div m, 12000000, 24000000)
      /\ InRange((board.pll[k] \div m) * n, 900000000, 1800000000)
      /\ ((board.pll[k] \div m) * n) \div 2 ^ e <= 1039500000
  BY <1>6 DEF PllRanges
<1>10. lvdpll'.m \in 0..7 /\ lvdpll'.n \in 0..127
  BY <1>6
<1> QED  BY <1>1, <1>3, <1>6, <1>7, <1>8, <1>9, <1>10, SMT DEF PllInRange

\* A mode set leaves the divider of the CRTC at the closest of its clocks.
LEMMA DividerOfModeSet ==
  ASSUME board \in Boards, ModeSet
  PROVE  DividerClose'
<1> DEFINE target == adjusted'.clock * 1000
<1> SUFFICES ASSUME board.kind = "divider" PROVE DividerClose'
  BY ModeSetStep DEF DividerClose
<1>1. board' = board /\ escr' = EscrParams(board, target) /\ target \in Nat \ {0}
  BY ModeSetStep DEF ModeOK
<1> HIDE DEF target
<1>2. DotClock' = escr'.rate \div (escr'.div + 1)
  BY <1>1, SMT DEF DotClock
<1>3. ASSUME NEW rate \in {board.cpg, board.ext}
      PROVE  LET multiple == DivRoundClosest(rate, target)
             IN multiple \in 1..64 =>
                  Diff(escr'.rate \div (escr'.div + 1), target) <= target \div (2 * multiple) + 1
  BY <1>1, EscrParamsClose, Zenon
<1> QED  BY <1>1, <1>2, <1>3 DEF DividerClose, target

\* A mode set leaves the transmitter set up for the clock it accepted.
LEMMA TransmitterOfModeSet ==
  ASSUME board \in Boards, ModeSet
  PROVE  TransmitterReady'
<1>1. /\ board' = board /\ ModeOK(adjusted')
      /\ board.kind = "dsi" => dsi' \in DsiSetup(board, adjusted')
      /\ board.kind = "dpll" =>
           ClockAccepted("dpll", adjusted') /\ phy' = PhyConfigure(adjusted'.clock)
  BY ModeSetStep
<1>2. board.kind = "dpll" => phy'[1] \in DOMAIN PhyParams /\ phy'[2] \in DOMAIN PhyParams2
  BY <1>1, PhyConfigured, Zenon
<1>3. board.kind = "dsi" /\ RateCovered(DsiTarget(board, adjusted')) =>
        DsiReady(board, dsi', DsiTarget(board, adjusted'))
  BY <1>1, DsiSetupReady, Zenon
<1> QED  BY <1>1, <1>2, <1>3, SMT DEF TransmitterReady, RateCovered, DsiReady, DsiPllOutput

\* The invariant holds of every reachable state of what a mode set computes.
LEMMA ClocksInvariant == ClocksSpec => []ClocksInv
<1>1. ClocksInit => ClocksInv
  <2> SUFFICES ASSUME ClocksInit PROVE ClocksInv
    OBVIOUS
  <2>1. board \in Boards /\ enabled \in BOOLEAN /\ ~enabled
    BY Zenon DEF ClocksInit
  <2>2. TimingsFit
    BY <2>1 DEF TimingsFit
  <2>3. PllInRange
    BY <2>1, SMT DEF PllInRange
  <2>4. TransmitterReady
    BY <2>1, SMT DEF TransmitterReady
  <2>5. DividerClose
    BY <2>1 DEF DividerClose
  <2> QED  BY <2>1, <2>2, <2>3, <2>4, <2>5 DEF ClocksInv
<1>2. ClocksInv /\ [ClocksNext]_clocksVars => ClocksInv'
  <2> SUFFICES ASSUME ClocksInv, [ClocksNext]_clocksVars PROVE ClocksInv'
    OBVIOUS
  <2>1. CASE ModeSet
    <3>1. /\ board' = board /\ ModeOK(adjusted') /\ ModeValid(adjusted')
          /\ timing' = DisplayTiming(adjusted')
      BY <2>1, ModeSetStep DEF ClocksInv
    <3>2. TimingsFit'
      <4> DEFINE m == adjusted'
                 t == timing'
      <4>1. LET d == DisplayTiming(m)
            IN /\ 1 <= d.hds /\ d.hde = d.hds + m.h.display
               /\ d.hde <= d.hc
               /\ 1 <= d.vds
               /\ d.vde = d.vds + FieldLines(m, m.v.display)
               /\ d.vde <= d.vsp /\ d.vsp <= d.vc
        <5> HIDE DEF m
        <5> QED  BY <3>1, TimingsOfMode DEF m
      <4> QED  BY <3>1, <4>1 DEF TimingsFit
    <3>3. PllInRange'
      BY <2>1, PllOfModeSet DEF ClocksInv
    <3>4. board' \in Boards /\ enabled' \in BOOLEAN
      BY <2>1, <3>1 DEF ModeSet, ClocksInv
    <3>5. TransmitterReady'
      BY <2>1, TransmitterOfModeSet DEF ClocksInv
    <3>6. DividerClose'
      BY <2>1, DividerOfModeSet DEF ClocksInv
    <3> QED  BY <3>2, <3>3, <3>4, <3>5, <3>6 DEF ClocksInv
  <2>2. CASE UNCHANGED clocksVars
    <3>1. /\ board' = board /\ enabled' = enabled /\ adjusted' = adjusted /\ rgb' = rgb
          /\ lvdpll' = lvdpll /\ timing' = timing /\ phy' = phy /\ dsi' = dsi
          /\ escr' = escr /\ dpllcr' = dpllcr
      BY <2>2 DEF clocksVars
    <3>2. TimingsFit' = TimingsFit
      BY <3>1 DEF TimingsFit
    <3>3. PllInRange' = PllInRange
      BY <3>1, SMT DEF PllInRange, TooSlow
    <3>4. TransmitterReady' = TransmitterReady
      BY <3>1, SMT DEF TransmitterReady, DsiPllOutput
    <3>5. DividerClose' = DividerClose
      <4>1. DotClock' = DotClock
        BY <3>1, SMT DEF DotClock, DsiDotClock, DsiPllOutput
      <4> QED  BY <3>1, <4>1 DEF DividerClose
    <3> QED  BY <3>1, <3>2, <3>3, <3>4, <3>5 DEF ClocksInv
  <2> QED  BY <2>1, <2>2 DEF ClocksNext
<1> QED  BY <1>1, <1>2, PTL DEF ClocksSpec

\* The mode check of rcar_du_crtc_mode_valid() suffices: for every mode that passes
\* it, the timing registers rcar_du_crtc_set_display_timing() writes describe a
\* display of the size of the mode, and none of them wraps.
THEOREM TimingsDescribeDisplay == ClocksSpec => []TimingsFit
<1>1. ClocksInv => TimingsFit
  BY DEF ClocksInv
<1> QED  BY <1>1, ClocksInvariant, PTL

\* Where the dot clock comes from the divider of the CRTC, that is without a PLL or an
\* encoder that provides it: for any two clocks of a fixed rate and every mode, what
\* rcar_du_escr_divider() and the choice between the two give reaches ESCR, and leaves
\* a dot clock within half a step of the one asked for.
THEOREM DividersClose == ClocksSpec => []DividerClose
<1>1. ClocksInv => DividerClose
  BY DEF ClocksInv
<1> QED  BY <1>1, ClocksInvariant, PTL

\* For every clock fed to the LVDS encoder and every mode, the search of
\* rcar_lvds_d3_e3_pll_calc() finds a setting, and one that keeps the PLL in its
\* operating ranges and fits in the fields of LVDPLLCR and LVDDIV.
THEOREM LvdsPllInRange == ClocksSpec => []PllInRange
<1>1. ClocksInv => PllInRange
  BY DEF ClocksInv
<1> QED  BY <1>1, ClocksInvariant, PTL

\* The HDMI PHY has a row for every clock rcar_hdmi_mode_valid() accepts, and for
\* every reference clock, rate, number of lanes and depth the settings of
\* rcar_mipi_dsi_parametters_calc() come within a hundredth of the rate, in the
\* ranges of the DSI PLL, if the rate is in its tables.
THEOREM TransmittersReady == ClocksSpec => []TransmitterReady
<1>1. ClocksInv => TransmitterReady
  BY DEF ClocksInv
<1> QED  BY <1>1, ClocksInvariant, PTL

================================================================================
