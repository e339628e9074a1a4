------------------------------ MODULE FrameBuffers ------------------------------
(***************************************************************************)
(* The pitch of a framebuffer, from the dumb buffer an application asks    *)
(* for, or one of its own, through the checks of rcar_du_fb_create() to    *)
(* the registers it is read with.                                          *)
(*                                                                         *)
(* Formats are told apart by bits per pixel, memory planes and horizontal  *)
(* subsampling alone; pitches are in bytes.                                *)
(***************************************************************************)
EXTENDS Integers, Sequences

CONSTANTS
  Devices,      \* subset of {"gen2", "r8a7790", "gen3"}
  Widths,       \* widths of dumb buffers asked for, in pixels
  Pitches       \* pitches of buffers of other origin

ASSUME FrameBuffersAssumption ==
  /\ Devices # {} /\ Devices \subseteq {"gen2", "r8a7790", "gen3"}
  /\ Widths \subseteq 1..8190 /\ Pitches \subseteq Nat

VARIABLES
  device,
  format,       \* of the framebuffer
  width,        \* of the dumb buffer, 0 if the buffer is another one
  stage,        \* how far the framebuffer has come
  pitches,      \* of its memory planes
  interlaced,   \* the mode of the CRTC it is shown on
  mwr           \* what is written to PnMWR, or given to the VSP

scan == <<interlaced, mwr>>
fbVars == <<device, format, width, stage, pitches, scan>>

Format(bpp, planes, hsub) == [bpp |-> bpp, planes |-> planes, hsub |-> hsub]

\* The formats of the Display Unit.  XRGB1555 has no hsub.
DuFormats ==
  {Format(16, 1, 1), Format(16, 1, 0), Format(32, 1, 1), Format(16, 1, 2),
   Format(12, 2, 2), Format(16, 2, 2)}

\* Those of the VSP.
VspFormats ==
  DuFormats \cup {Format(8, 1, 1), Format(24, 1, 1), Format(12, 3, 2), Format(16, 3, 2),
                  Format(24, 3, 1)}

FormatsOf(d) == IF d = "gen3" THEN VspFormats ELSE DuFormats

FbInit ==
  /\ device = (CHOOSE d \in Devices : TRUE)
  /\ format = Format(32, 1, 1) /\ width = 0 /\ stage = "none"
  /\ pitches = <<0>> /\ interlaced = FALSE /\ mwr = 0

RoundUp(a, b) == ((a + b - 1) \div b) * b

\* Bits per pixel of the first memory plane, as an application asks for.
FirstBpp(f) == IF f.planes = 1 THEN f.bpp ELSE 8

\* rcar_du_dumb_create()
DumbPitch(d, w, bpp) ==
  LET align == IF d = "r8a7790" THEN 128 ELSE (16 * bpp) \div 8
  IN RoundUp(RoundUp(w * bpp, 8) \div 8, align)

\* The pitch of the other memory planes.  Only these have a use for hsub.
ChromaPitch(f, pitch) == (pitch \div f.hsub) * (IF f.planes = 2 THEN 2 ELSE 1)

\* An application makes up the pitches of a framebuffer of some format.
Allocate ==
  \E d \in Devices, w \in Widths \cup {0} : \E f \in FormatsOf(d) :
    \E pitch \in (IF w > 0 THEN {DumbPitch(d, w, FirstBpp(f))} ELSE Pitches) :
      /\ stage = "none"
      /\ stage' = "allocated"
      /\ device' = d /\ format' = f /\ width' = w
      /\ pitches' = [i \in 1..f.planes |-> IF i = 1 THEN pitch ELSE ChromaPitch(f, pitch)]
      /\ UNCHANGED scan

\* Mutant of Aligned: r8a7790 is treated like the other devices.
AlignedLikeOthers(d, f, pitch) ==
  d # "gen3" => pitch % (IF f.planes = 1 THEN 2 * f.bpp ELSE 16) = 0

Aligned(d, f, pitch) ==
  CASE d = "gen3" -> TRUE
    [] d = "r8a7790" -> pitch % 128 = 0
    [] OTHER -> pitch % (IF f.planes = 1 THEN 2 * f.bpp ELSE 16) = 0

MaxPitch(d, f) ==
  IF d = "gen3" THEN 65535 ELSE 4095 * (IF f.planes = 1 THEN f.bpp \div 8 ELSE 1)

\* rcar_du_fb_create()
FbCreate ==
  /\ stage = "allocated"
  /\ stage' = IF /\ Aligned(device, format, pitches[1])
                 /\ pitches[1] <= MaxPitch(device, format)
                 /\ \A i \in 2..format.planes : pitches[i] = ChromaPitch(format, pitches[1])
              THEN "created" ELSE "rejected"
  /\ UNCHANGED <<device, format, width, pitches, scan>>

\* The lines of a field are two lines apart, which these formats must be told.
Doubled(field) == field /\ format.bpp = 32 /\ device # "gen3"

\* rcar_du_plane_setup_scanout() in pixels, rcar_du_vsp_plane_setup() in bytes.
Scanout ==
  /\ stage = "created"
  /\ stage' = "shown"
  /\ interlaced' \in BOOLEAN
  /\ mwr' = IF device = "gen3" \/ format.planes = 2 THEN pitches[1]
            ELSE ((pitches[1] * 8) \div format.bpp) * (IF Doubled(interlaced') THEN 2 ELSE 1)
  /\ UNCHANGED <<device, format, width, pitches>>

FbNext == Allocate \/ FbCreate \/ Scanout

FbSpec == FbInit /\ [][FbNext]_fbVars

\* The distance in bytes of the lines the hardware reads from memory plane i.
\* The VSP divides the pitch it is given for the second and third of three planes.
HardwarePitch(i) ==
  IF device # "gen3"
  THEN ((mwr \div (IF Doubled(interlaced) THEN 2 ELSE 1)) * FirstBpp(format)) \div 8
  ELSE IF i > 1 /\ format.planes = 3 THEN mwr \div format.hsub
  ELSE mwr

--------------------------------------------------------------------------------
(* Properties *)

\* "the DU limits the pitch to 4095 pixels and requires buffers to be aligned to a
\* 16 pixels boundary (or 128 bytes on some platforms)": whatever is accepted is
\* read at the pitch it has, in every memory plane, within these limits; and what
\* rcar_du_dumb_create() makes is accepted.  Not an odd pitch with two planes on
\* Gen3, which rcar_du_fb_create() only takes with a chroma pitch that is one less,
\* not the widths whose aligned pitch passes the limit, although mode_config allows
\* them, and not the limit when the pitch is doubled for an interlaced mode.
LinesMatch ==
  /\ (stage = "shown" /\ ~(format.planes = 2 /\ pitches[1] % 2 = 1)) =>
       /\ \A i \in 1..format.planes : HardwarePitch(i) = pitches[i]
       /\ device # "gen3" => (mwr <= 4095 \/ Doubled(interlaced)) /\ mwr % 16 = 0
       /\ device = "r8a7790" => pitches[1] % 128 = 0
  /\ (stage = "rejected" /\ width > 0) => device # "gen3" /\ pitches[1] > MaxPitch(device, format)
===============================================================================
