--------------------------------- MODULE Routing ---------------------------------
(***************************************************************************)
(* Routing of the CRTCs to the parallel outputs DPAD0 and DPAD1            *)
(* (rcar_du_group.c, rcar_du_kms.c, the tables of rcar_du_drv.c).          *)
(*                                                                         *)
(* The sources of the two outputs are words of the device, which the tail  *)
(* of every commit sets before it applies anything.  They reach the        *)
(* hardware only when a CRTC is set up, through registers of its group,    *)
(* or of the first (Gen2) or last (Gen3) group for DPAD0.                  *)
(*                                                                         *)
(* CRTCs are the channels of the hardware.  The driver also counts them    *)
(* without gaps: the tables and rcdu->crtcs are indexed that way.          *)
(***************************************************************************)
EXTENDS CommitTail, Integers, FiniteSetsExt

CONSTANTS
  Devices,          \* devices to consider, of those below
  MaxUnclocked      \* bound: failing clocks in a behaviour

--------------------------------------------------------------------------------
(* Devices.  dpad0, dpad1: possible CRTCs of the outputs, counted without     *)
(* gaps; other: channels that also have an LVDS, HDMI or writeback output;    *)
(* masked: DORCR of the second group is fixed.                                *)

R8a7779 == [gen |-> 1, channels |-> {0, 1}, dpad0 |-> {0}, dpad1 |-> {0, 1},
            other |-> {}, masked |-> FALSE]
R8a77470 == [gen |-> 2, channels |-> {0, 1}, dpad0 |-> {0}, dpad1 |-> {1},
             other |-> {0, 1}, masked |-> FALSE]
R8a7790 == [gen |-> 2, channels |-> {0, 1, 2}, dpad0 |-> {0, 1, 2}, dpad1 |-> {},
            other |-> {0, 1, 2}, masked |-> FALSE]
R8a7791 == [gen |-> 2, channels |-> {0, 1}, dpad0 |-> {0, 1}, dpad1 |-> {},
            other |-> {0}, masked |-> FALSE]
R8a7795 == [gen |-> 3, channels |-> {0, 1, 2, 3}, dpad0 |-> {3}, dpad1 |-> {},
            other |-> {0, 1, 2, 3}, masked |-> TRUE]
R8a7796 == [gen |-> 3, channels |-> {0, 1, 2}, dpad0 |-> {2}, dpad1 |-> {},
            other |-> {0, 1, 2}, masked |-> TRUE]
R8a77965 == [gen |-> 3, channels |-> {0, 1, 3}, dpad0 |-> {2}, dpad1 |-> {},
             other |-> {0, 1, 3}, masked |-> TRUE]
R8a7799x == [gen |-> 3, channels |-> {0, 1}, dpad0 |-> {0, 1}, dpad1 |-> {},
             other |-> {0, 1}, masked |-> FALSE]

Table == [r8a7779 |-> R8a7779, r8a77470 |-> R8a77470, r8a7790 |-> R8a7790,
          r8a7791 |-> R8a7791, r8a7795 |-> R8a7795, r8a7796 |-> R8a7796,
          r8a77965 |-> R8a77965, r8a7799x |-> R8a7799x]

ASSUME RoutingAssumption ==
  /\ Devices \subseteq DOMAIN Table
  /\ \A d \in Devices : Table[d].channels \subseteq Crtcs
  /\ MaxUnclocked \in Nat

VARIABLES
  device,                       \* the device
  out,                          \* parallel outputs each CRTC drives
  dpad0_source, dpad1_source,   \* of struct rcar_du_device
  drgbs,                        \* DEFR8.DRGBS of each group: the CRTC on DPAD0
  pg2d,                         \* DORCR.PG2D of each group: the CRTC on DPAD1
  held,                         \* DOFLR of each group: channels at fixed levels
  unclocked                     \* clocks that could not be enabled

sources == <<dpad0_source, dpad1_source>>
registers == <<drgbs, pg2d, held>>
routingVars == <<tail, device, out, sources, registers, unclocked>>

Info == Table[device]
Pads == {"dpad0", "dpad1"}
Groups == {0, 1}
GroupOf(c) == c \div 2

\* rcdu->crtcs[i], as its channel.
CrtcAt(i) == CHOOSE c \in Info.channels : Cardinality({d \in Info.channels : d < c}) = i

RoutingTypeOK ==
  /\ TailTypeOK
  /\ device \in Devices
  /\ out \in [Crtcs -> SUBSET Pads]
  /\ dpad0_source \in 0..3 /\ dpad1_source \in -1 .. 3
  /\ drgbs \in [Groups -> 0..3]
  /\ pg2d \in [Groups -> {"ds1", "ds2"}]
  /\ held \in [Groups -> SUBSET {0, 1}]
  /\ unclocked \in 0..MaxUnclocked

\* The index of the first CRTC the tables route to DPAD0.
InitialSource(d) == Min(Table[d].dpad0)

\* rcar_du_pre_group_set_routing() has set a group up before dpad0_source was.
RoutingInit ==
  /\ TailInit
  /\ device \in Devices
  /\ out = [c \in Crtcs |-> {}]
  /\ dpad0_source = InitialSource(device) /\ dpad1_source = 0
  /\ drgbs = [g \in Groups |-> 0]
  /\ pg2d = [g \in Groups |-> IF g = 1 /\ Info.masked THEN "ds2" ELSE "ds1"]
  /\ held = [g \in Groups |-> {}]
  /\ unclocked = 0

--------------------------------------------------------------------------------
(* The tail of a commit sets the sources                                     *)

\* The channels that can drive an output, and what all of them drive when x is
\* the one on DPAD0 and y the one on DPAD1, or -1 for none: an output has one
\* source.
Possible(pad) == {CrtcAt(i) : i \in IF pad = "dpad0" THEN Info.dpad0 ELSE Info.dpad1}
Outputs(x, y) ==
  [c \in Crtcs |-> (IF c = x THEN {"dpad0"} ELSE {}) \cup (IF c = y THEN {"dpad1"} ELSE {})]

\* Mutant of SourceOf: the CRTC is counted without gaps, as DRM does.
SourceOfDrmIndex(pad, S, o, otherwise) ==
  IF \E c \in S : pad \in o[c]
  THEN CHOOSE i \in 0..3 : i < Cardinality(Info.channels) /\ CrtcAt(i) \in S /\ pad \in o[CrtcAt(i)]
  ELSE otherwise

\* The CRTC of the commit that drives the output, if any.
SourceOf(pad, S, o, otherwise) ==
  IF \E c \in S : pad \in o[c] THEN CHOOSE c \in S : pad \in o[c] ELSE otherwise

\* A commit: mode sets of the CRTCs M, which may change what they drive and of
\* which on stay active, and page flips of others.  A CRTC without any output is
\* not active.  The source of DPAD1 is forgotten by every commit.
RoutingCommit ==
  \E M \in SUBSET Info.channels, x \in Possible("dpad0") \cup {-1}, y \in Possible("dpad1") \cup {-1} :
    LET o == Outputs(x, y)
    IN /\ \A c \in Crtcs \ M : o[c] = out[c]
       /\ \E on \in SUBSET {c \in M : o[c] # {} \/ c \in Info.other}, flips \in SUBSET (active \ M) :
            LET S == M \cup flips
            IN /\ S # {}
               /\ StartCommit(S, M, (active \ M) \cup on)
               /\ dpad0_source' = SourceOf("dpad0", S, o, dpad0_source)
               /\ dpad1_source' = SourceOf("dpad1", S, o, -1)
       /\ out' = o
       /\ UNCHANGED <<device, registers, unclocked>>

--------------------------------------------------------------------------------
(* A CRTC that is set up writes the registers                                *)

\* rcar_du_group_setup_defr8() of the group g
Defr8(values, g) ==
  LET controls == IF Info.gen < 3 THEN g = 0 ELSE g = dpad0_source \div 2
  IN [values EXCEPT ![g] = IF controls THEN dpad0_source ELSE 0]

\* rcar_du_group_get(): the first reference sets the group up.
GroupGet(g) ==
  IF Info.gen >= 2 /\ {c \in Acquired : GroupOf(c) = g} = {} THEN Defr8(drgbs, g) ELSE drgbs

\* rcar_du_set_dpad0_vsp1_routing(): the group that has the register, unless its
\* clock cannot be enabled.
Dpad0Group == IF Info.gen < 3 THEN 0 ELSE (Cardinality(Info.channels) + 1) \div 2 - 1

SetDpad0Routing(values, ok) ==
  IF Info.gen >= 2 /\ ok THEN Defr8(values, Dpad0Group) ELSE values

\* Mutant of DpadLevels: DPAD1 is forgotten.
DpadLevelsDpad0(g) ==
  LET num == Cardinality({c \in Info.channels : GroupOf(c) = g})
  IN {i \in {0, 1} : i < num /\ "dpad0" \notin out[CrtcAt(2 * g + i)]}

\* rcar_du_group_set_dpad_levels(): fixed levels for the channels of the group
\* that drive neither output.
DpadLevels(g) ==
  LET num == Cardinality({c \in Info.channels : GroupOf(c) = g})
  IN {i \in {0, 1} : i < num /\ out[CrtcAt(2 * g + i)] = {}}

\* rcar_du_group_set_routing(), after the group is acquired.
SetRouting(g, ok) ==
  /\ pg2d' = [pg2d EXCEPT ![g] = IF dpad1_source = 2 * g /\ ~(g = 1 /\ Info.masked)
                                 THEN "ds1" ELSE "ds2"]
  /\ held' = IF Info.gen < 2 THEN held ELSE [held EXCEPT ![g] = DpadLevels(g)]
  /\ drgbs' = SetDpad0Routing(GroupGet(g), ok)

\* rcar_du_crtc_atomic_begin(): a CRTC that is not acquired is, and set up.
RoutingBegin(c) ==
  /\ Handle("begin", c)
  /\ \/ /\ c \in Acquired
        /\ UNCHANGED <<registers, unclocked>>
     \/ /\ c \notin Acquired
        /\ \E ok \in BOOLEAN :
             /\ unclocked' = IF ok THEN unclocked ELSE unclocked + 1
             /\ unclocked' <= MaxUnclocked
             /\ SetRouting(GroupOf(c), ok)
  /\ UNCHANGED <<device, out, sources>>

\* Handlers, and turns of the tail, that leave the routing alone.
OtherHandler ==
  /\ NextPhase \/ \E c \in Crtcs, phase \in {"disable", "flush", "enable"} : Handle(phase, c)
  /\ UNCHANGED <<device, out, sources, registers, unclocked>>

RoutingNext == RoutingCommit \/ (\E c \in Crtcs : RoutingBegin(c)) \/ OtherHandler

RoutingSpec == RoutingInit /\ [][RoutingNext]_routingVars

--------------------------------------------------------------------------------
(* Properties *)

\* Started CRTCs that do not still drive the outputs of their previous mode.
Driving == IF stage = "disable" THEN Started \ modeset ELSE Started

\* While a CRTC is started its parallel outputs are routed from it, whatever
\* commits of other CRTCs set dpad0_source and dpad1_source to meanwhile.
DpadRouted ==
  unclocked = 0 =>
    \A c \in Driving :
      /\ ("dpad0" \in out[c] /\ Info.gen >= 2) => drgbs[Dpad0Group] = c
      /\ "dpad1" \in out[c] => pg2d[GroupOf(c)] = (IF c % 2 = 0 THEN "ds1" ELSE "ds2")

\* The channels on which the levels of the hardware and of a CRTC differ.
WrongLevels(C) == {c \in C : (c % 2 \in held[GroupOf(c)]) # (out[c] = {})}

\* "driving fixed low-level signals at the output of any DU channel not routed to
\* a DPAD output": of started CRTCs exactly those without a parallel output are
\* held, although a group writes the levels only when one of its CRTCs is set up.
\* R8A77965 is left out: its third CRTC is the second channel of its group, but
\* the levels of the first are written.
LevelsFixed ==
  (Info.gen >= 2 /\ device # "r8a77965") => WrongLevels(Driving) = {}
===============================================================================
