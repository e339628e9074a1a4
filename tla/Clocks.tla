--------------------------------- MODULE Clocks ---------------------------------
(***************************************************************************)
(* What a mode set computes: the dot clock and the timing registers of a   *)
(* CRTC (rcar_du_crtc.c), the PLL of the LVDS encoder on D3 and E3, from   *)
(* which their CRTCs take the dot clock (rcar_lvds.c), the PLL of the DSI  *)
(* encoder (rcar_mipi_dsi.c) and the HDMI PHY (rcar_dw_hdmi.c).            *)
(*                                                                         *)
(* Rates are in Hz as in the code; the clock of a mode is in kHz.  The     *)
(* code's unsigned long has 64 bits, so no product overflows there; the    *)
(* few that would not fit TLC's integers are split.                        *)
(***************************************************************************)
EXTENDS Integers, Sequences, FiniteSets, FiniteSetsExt

CONSTANTS
  Boards,       \* what may feed a CRTC: see BoardOK
  Modes         \* modes asked for: see ModeOK

InRange(x, low, high) == low <= x /\ x <= high

Kinds == {"dpll", "lvds", "divider", "dsi"}

\* The devices whose registers rcar_du_register_access_check() knows, and the others.
RegisterSets == {"r8a7795", "r8a7796", "r8a77965", "r8a779a0", "other"}

\* kind: where the dot clock comes from, a display PLL before HDMI, the PLL of the
\* LVDS encoder (D3 and E3), the divider of the CRTC, or on V3U the DSI encoder, whose
\* PLL has the clock dsi.fin and sends dsi.bpp bits per pixel on dsi.lanes lanes;
\* regs, crtc: the registers of the device, and the channel, two of which are a group;
\* es1: an H3 ES1.x; cpg, ext: the two clocks of the CRTC, of a fixed rate, which
\* clk_round_rate() returns; pll: those of the LVDS PLL in the order they are tried.
\* 0 stands for a clock there is not.
BoardOK(b) ==
  /\ b.kind \in Kinds /\ b.es1 \in BOOLEAN
  /\ b.regs \in RegisterSets /\ b.crtc \in 0..3
  /\ b.es1 => b.regs = "r8a7795"
  /\ b.kind = "dsi" <=> b.regs = "r8a779a0"
  /\ IF b.regs = "r8a7795" THEN b.kind = "dpll" <=> b.crtc \in {1, 2}
     ELSE b.kind = "dpll" => b.crtc = 1
  /\ b.regs = "r8a77965" => b.crtc # 2
  /\ b.cpg \in Nat /\ b.ext \in Nat /\ b.pll \in [1..3 -> Nat]
  /\ b.kind = "dpll" => b.ext > 0
  /\ b.kind = "lvds" => \E k \in 1..3 : InRange(b.pll[k], 12000000, 192000000)
  /\ b.kind \in {"divider", "dsi"} => b.cpg > 0
  /\ b.kind = "dsi" => /\ b.dsi.fin \in Nat /\ InRange(b.dsi.fin, 10000000, 40000000)
                       /\ b.dsi.lanes \in 1..4 /\ b.dsi.bpp \in {16, 18, 24}

\* h and v hold display, sync_start, sync_end and total, in order.
Scan == [display : Nat, start : Nat, end : Nat, total : Nat]
ModeOK(m) ==
  /\ m \in [clock : Nat \ {0}, interlace : BOOLEAN, h : Scan, v : Scan]
  /\ \A t \in {m.h, m.v} :
       t.display <= t.start /\ t.start <= t.end /\ t.end <= t.total

ASSUME ClocksAssumption ==
  (\A b \in Boards : BoardOK(b)) /\ (\A m \in Modes : ModeOK(m))

VARIABLES
  board,        \* the clocks around the CRTC
  enabled,      \* a mode has been set
  adjusted,     \* the adjusted mode of the CRTC
  rgb,          \* the output is DPAD0 alone, of a CRTC clocked by LVDS
  escr,         \* ESCR: the clock selected, its rate and the divider
  dpllcr,       \* DPLLCR: the dividers of the display PLL
  lvdpll,       \* LVDPLLCR and LVDDIV of the LVDS encoder
  dsi,          \* the settings of the DSI PLL
  phy,          \* rows of the two tables the HDMI PHY is configured with
  timing        \* the display timing registers

clocksVars == <<board, enabled, adjusted, rgb, escr, dpllcr, lvdpll, dsi, phy, timing>>

\* Registers are zero before they are written.
ClocksInit ==
  /\ board \in Boards
  /\ enabled = FALSE /\ adjusted = (CHOOSE m \in Modes : TRUE) /\ rgb = FALSE
  /\ escr = [clk |-> "dclkin", rate |-> 0, div |-> 0]
  /\ dpllcr = [m |-> 0, n |-> 0, fdpll |-> 0]
  /\ lvdpll = [clk |-> 0, n |-> 0, m |-> 0, e |-> 0, ocksel |-> FALSE, div |-> 0,
               divstp |-> FALSE]
  /\ dsi = [m |-> 0, n |-> 0, div |-> 0, vco |-> 0, hs |-> 0]
  /\ phy = <<0, 0>>
  /\ timing = [hds |-> 0, hde |-> 0, hsw |-> 0, hc |-> 0, vds |-> 0, vde |-> 0, vsp |-> 0, vc |-> 0]

Diff(a, b) == IF a > b THEN a - b ELSE b - a

\* DIV_ROUND_UP and DIV_ROUND_CLOSEST
DivRoundUp(a, b) == (a + b - 1) \div b
DivRoundClosest(a, b) == (a + b \div 2) \div b

\* What a search that keeps the first setting with the smallest difference finds
\* in a set of them; rank numbers the settings in the order they are tried.
First(found) ==
  LET least == Min({s.diff : s \in found})
      ties == {s \in found : s.diff = least}
      rank == Min({s.rank : s \in ties})
  IN CHOOSE s \in ties : s.rank = rank

--------------------------------------------------------------------------------
(* The display PLL of H3 and M3                                               *)

FoutMax == 2048000000

\* input * (n + 1) / (m + 1), or more than FoutMax when it is.
Fout(input, n, m) ==
  LET q == input \div (m + 1)
  IN IF q > FoutMax \div (n + 1) THEN FoutMax + 1
     ELSE q * (n + 1) + ((input % (m + 1)) * (n + 1)) \div (m + 1)

\* Mutant of DpllOutputs: the post-divider is not incremented.
DpllOutputsAsWritten(input, m, n) == [f \in 1..31 |-> Fout(input, n, m) \div f]

DpllOutputs(input, m, n) == [f \in 1..31 |-> Fout(input, n, m) \div (f + 1)]

\* rcar_du_dpll_divider(): for a fast clock, never slower than the target.
DpllDivider(input, target) ==
  LET settings(m, n) ==
        LET output == DpllOutputs(input, m, n)
        IN IF ~InRange(Fout(input, n, m), 1000, FoutMax) THEN {}
           ELSE {[diff |-> Diff(output[f], target), rank |-> (m * 100 + (119 - n)) * 100 + f,
                  m |-> m, n |-> n, fdpll |-> f] :
                   f \in {g \in 1..31 : /\ output[g] < 400000000
                                        /\ target > 148500000 => output[g] >= target}}
      found == UNION {settings(m, n) : m \in 0..3, n \in 39..119}
  IN IF found = {} THEN [m |-> 0, n |-> 0, fdpll |-> 0]
     ELSE LET s == First(found) IN [m |-> s.m, n |-> s.n, fdpll |-> s.fdpll]

--------------------------------------------------------------------------------
(* The divider of the CRTC                                                    *)

\* rcar_du_escr_divider()
EscrDivider(rate, target) ==
  LET d == Max({1, Min({64, DivRoundClosest(rate, target)})}) - 1
  IN [diff |-> Diff(rate \div (d + 1), target), div |-> d]

\* The CPG clock, unless the external one comes closer.
EscrParams(b, target) ==
  LET cpg == EscrDivider(b.cpg, target)
      ext == EscrDivider(b.ext, target)
  IN IF b.ext > 0 /\ ext.diff < cpg.diff
     THEN [clk |-> "dclkin", rate |-> b.ext, div |-> ext.div]
     ELSE [clk |-> "clks", rate |-> b.cpg, div |-> cpg.div]

--------------------------------------------------------------------------------
(* The PLL of the LVDS encoder                                                *)

\* Mutant of Multipliers: the lower limit of the VCO is forgotten.
MultipliersFromSixty(fin, m) == 60 .. Min({120, 1800000000 \div (fin \div m)}) - 1

\* The multipliers tried with the pre-divider m: the last one is left out.
Multipliers(fin, m) ==
  LET fpfd == fin \div m
  IN Max({60, DivRoundUp(900000000, fpfd)}) .. Min({120, 1800000000 \div fpfd}) - 1

\* rcar_lvds_d3_e3_pll_calc(), for the k-th clock.
LvdsPllCalc(k, fin, target, dot_clock_only) ==
  LET settings(m, n) ==
        LET fvco == (fin \div m) * n
            fout(e) == (fvco \div (2 ^ e)) \div (IF dot_clock_only THEN 1 ELSE 7)
            div(e) == Max({1, DivRoundClosest(fout(e), target)})
        IN {[diff |-> Diff(fout(e) \div div(e), target),
             rank |-> ((k * 10 + m) * 1000 + n) * 10 + e,
             clk |-> k, m |-> m, n |-> n, e |-> e, div |-> div(e)] :
              e \in (IF fvco > 1039500000 THEN 1 ELSE 0) .. 2}
  IN IF ~InRange(fin, 12000000, 192000000) THEN {}
     ELSE UNION {settings(p[1], p[2]) :
            p \in UNION {{<<m, n>> : n \in Multipliers(fin, m)} :
                    m \in Max({1, DivRoundUp(fin, 24000000)}) .. Min({8, fin \div 12000000})}}

\* __rcar_lvds_pll_setup_d3_e3(), as the fields of LVDPLLCR and LVDDIV.  The
\* divider has six bits; the next one, DIVSTP, stops it.
LvdsPllSetup(b, freq, dot_clock_only) ==
  LET s == First(UNION {LvdsPllCalc(k, b.pll[k], freq, dot_clock_only) : k \in 1..3})
  IN [clk |-> s.clk, n |-> s.n - 1, m |-> s.m - 1, e |-> s.e,
      ocksel |-> dot_clock_only,
      div |-> (s.div - 1) % 64, divstp |-> ((s.div - 1) \div 64) % 2 = 1]

--------------------------------------------------------------------------------
(* The PLL of the DSI encoder                                                 *)

\* dot clock * ColorDepth / (2 * Lane Count), or more than FoutMax when it is.
DsiTarget(b, m) ==
  LET bits == m.clock * b.dsi.bpp
      lanes == 2 * b.dsi.lanes
  IN IF bits \div lanes >= FoutMax \div 1000 THEN FoutMax + 1
     ELSE (bits \div lanes) * 1000 + ((bits % lanes) * 1000) \div lanes

\* vco_cntrl_table: rates above which and up to which a row is for, and the divider
\* in its value.
VcoTable ==
  << <<40000000, 55000000, 3>>, <<52500000, 80000000, 3>>, <<80000000, 110000000, 2>>,
     <<105000000, 160000000, 2>>, <<160000000, 220000000, 1>>, <<210000000, 320000000, 1>>,
     <<320000000, 440000000, 0>>, <<420000000, 660000000, 0>>, <<630000000, 1149000000, 0>>,
     <<1100000000, 1152000000, 0>>, <<1150000000, 1250000000, 0>> >>

\* hsfreqrange_table, in MHz of both edges.
HsTable ==
  << 80, 90, 100, 110, 120, 130, 140, 150, 160, 170, 180, 190, 205, 220, 235, 250, 275, 300,
     325, 350, 400, 450, 500, 550, 600, 650, 700, 750, 800, 850, 900, 950, 1000, 1050, 1100,
     1150, 1200, 1250, 1300, 1350, 1400, 1450, 1500, 1550, 1600, 1650, 1700, 1750, 1800, 1850,
     1900, 1950, 2000, 2050, 2100, 2150, 2200, 2250, 2300, 2350, 2400, 2450, 2500 >>

\* Row of VcoTable, 0 if there is none, which leaves the field zero.
Vco(target) ==
  LET rows == {i \in DOMAIN VcoTable : target > VcoTable[i][1] /\ target <= VcoTable[i][2]}
  IN IF rows = {} THEN 0 ELSE Min(rows)

\* Rows of HsTable.  The loop does not match the first, whose value is the zero of
\* the field, and goes on to read past the table: any value may come of it.
HsRows(target) ==
  LET rows == {i \in 2..Len(HsTable) : /\ target > HsTable[i - 1] * 500000
                                      /\ target <= HsTable[i] * 500000}
  IN IF rows = {} THEN {0, 1} ELSE rows

\* diff / target in units of 1/10000, rounded down, without the product.
TenThousandths(diff, target) ==
  LET whole == target \div 10000
      part == target % 10000
  IN Max({k \in diff \div (whole + 1) .. diff \div whole :
            k * whole + DivRoundUp(k * part, 10000) <= diff})

\* rcar_mipi_dsi_parametters_calc(): the first of the settings with the smallest
\* error.  The output grows with m, so for each n only the m next to the exact
\* multiplier can be one.
DsiPllCalc(b, target) ==
  LET row == Vco(target)
      div == IF row = 0 THEN 0 ELSE VcoTable[row][3]
      fpfd(n) == b.dsi.fin \div n
      fout(n, m) == ((fpfd(n) \div 2 ^ div) * m) + ((fpfd(n) % 2 ^ div) * m) \div 2 ^ div
      next(n) == {Max({64, Min({625, (target * 2 ^ div) \div fpfd(n) + k})}) : k \in -1..2}
      s == First(UNION {{[diff |-> TenThousandths(Diff(fout(n, m), target), target),
                          rank |-> n * 1000 + m, n |-> n, m |-> m] : m \in next(n)} :
                          n \in 3..8})
  IN [m |-> s.m - 2, n |-> s.n - 1, div |-> div, vco |-> row]

\* Out of the range of the PLL nothing is computed, and zeros are written.
DsiInRange(target) == InRange(target, 40000000, 1250000000)

\* rcar_mipi_dsi_startup()
DsiSetup(b, m) ==
  LET target == DsiTarget(b, m)
  IN IF ~DsiInRange(target) THEN {[m |-> 0, n |-> 0, div |-> 0, vco |-> 0, hs |-> 1]}
     ELSE LET s == DsiPllCalc(b, target)
          IN {[m |-> s.m, n |-> s.n, div |-> s.div, vco |-> s.vco, hs |-> i] : i \in HsRows(target)}

--------------------------------------------------------------------------------
(* The HDMI PHY                                                               *)

\* rcar_hdmi_phy_params and rcar_hdmi_phy_params_2: the clocks, in kHz, up to which
\* a row is for.
PhyParams == <<35500, 44900, 71000, 90000, 140250, 182750, 281250, 297000>>
PhyParams2 == <<165000, 297000>>

\* The row of a table, one past its end if none is for the clock.
PhyRow(table, clock) == Min({i \in DOMAIN table : clock <= table[i]} \cup {Len(table) + 1})

\* rcar_hdmi_phy_configure(): what it writes before it fails stays.
PhyConfigure(clock) ==
  LET row == PhyRow(PhyParams, clock)
      row2 == PhyRow(PhyParams2, clock)
  IN IF row > Len(PhyParams) THEN <<0, 0>>
     ELSE IF row2 > Len(PhyParams2) THEN <<row, 0>>
     ELSE <<row, row2>>

--------------------------------------------------------------------------------
(* A mode set                                                                 *)

\* Mutant of VerticalBackPorch: the lines of a frame, not of a field.
VerticalBackPorchOfFrame(m) == m.v.total - m.v.end

VerticalBackPorch(m) == (m.v.total - m.v.end) \div (IF m.interlace THEN 2 ELSE 1)

\* rcar_du_crtc_mode_valid()
ModeValid(m) == m.h.total - m.h.start >= 20 /\ VerticalBackPorch(m) >= 3

\* Mutant of ClockAccepted: the transmitters take any clock.
ClockAcceptedAlways(kind, m) == TRUE

\* rcar_hdmi_mode_valid() and rcar_mipi_dsi_bridge_mode_valid()
ClockAccepted(kind, m) == kind \in {"dpll", "dsi"} => m.clock <= 297000

\* The output's adjustment of the mode: rcar_lvds_mode_fixup() on D3 and E3.
ModeFixup(m, lvds) ==
  IF lvds THEN [m EXCEPT !.clock = Max({5000, Min({148500, @})})] ELSE m

\* The lines of a field: the crtc_ fields of the mode.
FieldLines(m, lines) == IF m.interlace THEN lines \div 2 ELSE lines

DisplayTiming(m) ==
  LET v(lines) == FieldLines(m, lines)
  IN [hds |-> m.h.total - m.h.start - 19,
      hde |-> m.h.total - m.h.start + m.h.display - 19,
      hsw |-> m.h.end - m.h.start - 1,
      hc  |-> m.h.total - 1,
      vds |-> v(m.v.total) - v(m.v.end) - 2,
      vde |-> v(m.v.total) - v(m.v.end) + v(m.v.display) - 2,
      vsp |-> v(m.v.total) - v(m.v.end) + v(m.v.start) - 1,
      vc  |-> v(m.v.total) - 1]

\* rcar_du_register_access_check(): whether a write of the CRTC's ESCR is carried out.
\* An odd channel writes ESCR13, an even one ESCR02.  The check means to refuse
\* ESCR13 too, but compares it with an address that has the offset of a channel.
EscrAccessible(b) ==
  b.crtc % 2 = 0 =>
    /\ b.regs \in {"r8a7795", "r8a77965"} => b.crtc \div 2 = 0
    /\ b.regs # "r8a779a0"

\* What rcar_du_crtc_set_display_timing() wants in ESCR.
EscrValue(clock) ==
  CASE board.kind = "dpll" ->
         [clk |-> "dclkin", rate |-> board.ext, div |-> IF board.es1 THEN 1 ELSE 0]
    [] board.kind = "lvds" -> [clk |-> "dclkin", rate |-> board.ext, div |-> 0]
    [] board.kind \in {"divider", "dsi"} -> EscrParams(board, clock)

\* rcar_du_crtc_set_display_timing(): ESCR, which rcar_du_crtc_write() leaves as it is
\* where it is not accessible, and DPLLCR.
SetDotClock(m) ==
  LET clock == m.clock * 1000
  IN /\ dpllcr' = IF board.kind = "dpll"
                  THEN DpllDivider(board.ext, IF board.es1 THEN 2 * clock ELSE clock)
                  ELSE dpllcr
     /\ escr' = IF EscrAccessible(board) THEN EscrValue(clock) ELSE escr

\* A CRTC is set up and enabled, with its encoder.  What is written does not
\* depend on earlier modes: one is enough.
ModeSet ==
  \E m \in Modes, alone \in BOOLEAN :
    /\ ~enabled
    /\ ModeValid(m) /\ ClockAccepted(board.kind, m)
    /\ alone => board.kind = "lvds"
    /\ enabled' = TRUE
    /\ rgb' = alone
    /\ adjusted' = ModeFixup(m, board.kind = "lvds" /\ ~alone)
    /\ SetDotClock(adjusted')
    /\ lvdpll' = IF board.kind = "lvds"
                 THEN LvdsPllSetup(board, adjusted'.clock * 1000, alone) ELSE lvdpll
    /\ IF board.kind = "dsi" THEN dsi' \in DsiSetup(board, m) ELSE UNCHANGED dsi
    /\ phy' = IF board.kind = "dpll" THEN PhyConfigure(m.clock) ELSE phy
    /\ timing' = DisplayTiming(adjusted')
    /\ UNCHANGED board

ClocksNext == ModeSet

ClocksSpec == ClocksInit /\ [][ClocksNext]_clocksVars

--------------------------------------------------------------------------------
(* Properties *)

\* An RGB output so slow that LVDDIV cannot divide by enough.
TooSlow == rgb /\ adjusted.clock < 16200

\* rate * 2 * lanes / depth: the dot clock a DSI encoder with that PLL output provides.
DsiDotClock(fout) ==
  LET bpp == board.dsi.bpp
      lanes == 2 * board.dsi.lanes
  IN (fout \div bpp) * lanes + ((fout % bpp) * lanes) \div bpp

\* The output of the DSI PLL.
DsiPllOutput == ((board.dsi.fin \div (dsi.n + 1)) \div 2 ^ dsi.div) * (dsi.m + 2)

\* The dot clock the registers describe, by the diagrams and comments of the code: it
\* leaves the display PLL and the post-divider, the PLL of the LVDS encoder, the
\* divider of the CRTC, or on V3U the DSI encoder, whatever ESCR holds there.
DotClock ==
  CASE board.kind = "dpll" ->
         (Fout(board.ext, dpllcr.n, dpllcr.m) \div (dpllcr.fdpll + 1)) \div (escr.div + 1)
    [] board.kind = "lvds" ->
         ((((board.pll[lvdpll.clk] \div (lvdpll.m + 1)) * (lvdpll.n + 1)) \div 2 ^ lvdpll.e)
            \div (IF lvdpll.ocksel THEN 1 ELSE 7)) \div (lvdpll.div + 1)
    [] board.kind = "divider" -> escr.rate \div (escr.div + 1)
    [] board.kind = "dsi" -> DsiDotClock(DsiPllOutput)

\* The modes a PLL can be near.  A display PLL does not reach the clocks below 25 MHz,
\* which HDMI does not use, and on H3 ES1.x, where it runs at twice the clock, finds
\* none close to 200 MHz or above; a DSI PLL is not set up for a rate out of its range,
\* nor rightly at the very end of it, see TransmitterReady.
WithinReach ==
  /\ board.kind = "lvds" => ~TooSlow
  /\ board.kind = "dpll" => adjusted.clock \in 25000 .. (IF board.es1 THEN 195000 ELSE 297000)
  /\ board.kind = "dsi" =>
       LET rate == DsiTarget(board, adjusted) IN DsiInRange(rate) /\ rate # 40000000

\* The workaround for H3 ES1.x, "configuring the DPLL to twice the desired frequency,
\* coupled with a /2 post-divider", on a channel whose post-divider cannot be written.
Undivided == board.es1 /\ ~EscrAccessible(board)

\* The dot clock from a PLL is the one asked for, within one percent, and with a
\* display PLL asked for a fast clock it is not slow.  CRTC 2 of H3 ES1.x is the
\* exception: it runs at twice the clock, as what would halve it is not written.
PllClose ==
  (enabled /\ board.kind # "divider" /\ WithinReach) =>
    LET target == adjusted.clock * (IF Undivided THEN 2000 ELSE 1000)
    IN /\ Diff(DotClock, target) <= target \div 100
       /\ (board.kind = "dpll" /\ target > 148500000) => DotClock >= target

\* From the two clocks of a fixed rate, the dot clock is within half a step of the
\* divider at the multiple of the one asked for that is nearest to either clock,
\* unless the divider has no such multiple: the clock taken is never the worse one.
DividerClose ==
  (enabled /\ board.kind = "divider") =>
    LET target == adjusted.clock * 1000
    IN \A rate \in {board.cpg, board.ext} :
         LET multiple == DivRoundClosest(rate, target)
         IN multiple \in 1..64 => Diff(DotClock, target) <= target \div (2 * multiple) + 1

\* Whatever it comes from, the dot clock is near the one asked for, with the one
\* exception PllClose names.
DotClockClose == PllClose /\ DividerClose

\* The LVDS PLL stays in its operating ranges, and every value in its field.
\* The divider of an RGB output of less than 16.2 MHz does not, and is stopped.
PllInRange ==
  (enabled /\ board.kind = "lvds") =>
    LET fpfd == board.pll[lvdpll.clk] \div (lvdpll.m + 1)
        fvco == fpfd * (lvdpll.n + 1)
    IN /\ InRange(fpfd, 12000000, 24000000)
       /\ InRange(fvco, 900000000, 1800000000)
       /\ fvco \div 2 ^ lvdpll.e <= 1039500000
       /\ lvdpll.m \in 0..7 /\ lvdpll.n \in 0..127
       /\ TooSlow \/ ~lvdpll.divstp

\* Every mode the transmitters accept is one they can be configured for: the HDMI
\* PHY has a row for its clock in both tables, and the DSI PLL runs at the rate of
\* the lanes within a hundredth, in its ranges ("n = [3-8] and m = [64-625]").
\* rcar_mipi_dsi_bridge_mode_valid() does not look at the lanes, so that one or two
\* may be too few for a fast mode and four too many for a slow one; and a rate of
\* exactly 40 MHz is in no row of the tables.
TransmitterReady ==
  enabled =>
    /\ board.kind = "dpll" => phy[1] \in DOMAIN PhyParams /\ phy[2] \in DOMAIN PhyParams2
    /\ LET target == DsiTarget(board, adjusted)
       IN (board.kind = "dsi" /\ DsiInRange(target) /\ target # 40000000) =>
            /\ dsi.n + 1 \in 3..8 /\ dsi.m + 2 \in 64..625
            /\ dsi.vco # 0 /\ dsi.hs # 0
            /\ Diff(DsiPllOutput, target) <= target \div 100

\* A mode that passes rcar_du_crtc_mode_valid() gives registers that describe a
\* display: nothing wraps below zero, the displayed area lies between the end of
\* the sync pulse and the start of the next and has the size of the mode, although
\* the check halves a difference and the registers take one of halved values.
TimingsFit ==
  enabled =>
    /\ 1 <= timing.hds /\ timing.hde = timing.hds + adjusted.h.display
    /\ timing.hde <= timing.hc
    /\ 1 <= timing.vds
    /\ timing.vde = timing.vds + FieldLines(adjusted, adjusted.v.display)
    /\ timing.vde <= timing.vsp /\ timing.vsp <= timing.vc
===============================================================================
