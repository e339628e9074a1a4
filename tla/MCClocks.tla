-------------------------------- MODULE MCClocks --------------------------------
(***************************************************************************)
(* Clocks with the crystals of a few boards, pixel clocks from small        *)
(* panels to 4K, and timings on both sides of every limit of the code;      *)
(* FrameBuffers with pitches around the limits.  A behaviour either sets a  *)
(* mode or makes a framebuffer.                                             *)
(***************************************************************************)
EXTENDS Clocks, FrameBuffers

MHz == 1000000
NoDsi == [fin |-> 0, lanes |-> 0, bpp |-> 0]
NoPll == <<0, 0, 0>>
Board(kind, regs, crtc, cpg, ext, pll) ==
  [kind |-> kind, es1 |-> FALSE, regs |-> regs, crtc |-> crtc, cpg |-> cpg, ext |-> ext,
   pll |-> pll, dsi |-> NoDsi]
DsiBoard(crtc, lanes, bpp) ==
  [Board("dsi", "r8a779a0", crtc, 200 * MHz, 0, NoPll) EXCEPT
     !.dsi = [fin |-> 16666666, lanes |-> lanes, bpp |-> bpp]]

\* Both channels of H3 with a display PLL, before and after ES1.x.
H3Boards ==
  {[Board("dpll", "r8a7795", crtc, 0, 33 * MHz, NoPll) EXCEPT !.es1 = es1] :
     crtc \in {1, 2}, es1 \in BOOLEAN}

MCBoards ==
  { Board("dpll", "r8a7796", 1, 0, 33 * MHz, NoPll),
    Board("lvds", "other", 0, 0, 0, <<0, 0, 48 * MHz>>),
    Board("lvds", "other", 1, 0, 0, <<74250000, 0, 48 * MHz>>),
    Board("lvds", "other", 0, 0, 0, <<74250000, 10 * MHz, 192 * MHz>>),
    Board("divider", "other", 0, 266666666, 0, NoPll),
    Board("divider", "r8a7796", 2, 260 * MHz, 148500000, NoPll),
    Board("divider", "r8a7795", 3, 400 * MHz, 74250000, NoPll) }
  \cup H3Boards
  \cup {DsiBoard(0, lanes, 24) : lanes \in {1, 2, 4}}
  \cup {DsiBoard(1, lanes, 16) : lanes \in {1, 2, 4}}

PixelClocks == {5000, 9000, 10000, 16200, 25175, 27000, 33333, 40000, 65000, 74250, 85500, 108000,
            148500, 148501, 154000, 193250, 195000, 241500, 297000, 297001}

Base == [clock |-> 74250, interlace |-> FALSE,
         h |-> [display |-> 1280, start |-> 1390, end |-> 1430, total |-> 1650],
         v |-> [display |-> 720, start |-> 725, end |-> 730, total |-> 750]]

\* Modes that differ in the back porches alone, with an even or odd end of the
\* vertical sync pulse, and in its width.
Porches ==
  {[Base EXCEPT !.interlace = i, !.h.end = 1400, !.h.total = 1390 + hbp,
                !.v.start = end - pulse, !.v.end = end, !.v.total = end + vbp] :
     i \in BOOLEAN, hbp \in {19, 20, 21}, end \in {730, 731}, pulse \in {0, 5},
     vbp \in {0, 2, 3, 4, 5, 7}}

MCModes == {[Base EXCEPT !.clock = c] : c \in PixelClocks} \cup Porches

MCWidths == {1, 15, 16, 17, 640, 1366, 1920, 4032, 4033, 4079, 4080, 4081, 4095}
MCPitches ==
  {1, 2, 15, 16, 17, 31, 32, 64, 127, 128, 256, 4080, 4095, 4096, 8160, 8190, 8192, 16320, 16380,
   16384, 65534, 65535, 65536}

MCInit == ClocksInit /\ FbInit
MCNext ==
  \/ stage = "none" /\ ClocksNext /\ UNCHANGED fbVars
  \/ ~enabled /\ FbNext /\ UNCHANGED clocksVars
MCSpec == MCInit /\ [][MCNext]_<<clocksVars, fbVars>>
===============================================================================
