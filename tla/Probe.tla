--------------------------------- MODULE Probe ---------------------------------
(***************************************************************************)
(* Probing of the Display Unit and of its LVDS and DSI encoders.           *)
(*                                                                         *)
(* The drivers probe in any order, next to each other and to the drivers   *)
(* they depend on, and return -EPROBE_DEFER until those are there.  The    *)
(* driver core, modelled from how the drivers use it, probes a deferred    *)
(* driver again whenever another one has bound.  A board is a choice of    *)
(* device and of what is soldered to its outputs.                          *)
(***************************************************************************)
EXTENDS Integers, FiniteSets, Sequences

CONSTANTS MaxFail       \* bound: failing calls in a behaviour

ASSUME ProbeAssumption == MaxFail \in Nat

VARIABLES
  board,                \* the hardware
  avail,                \* drivers outside of this one that have bound
  state,                \* of the three drivers
  again,                \* drivers that are probing since before the last bind
  link,                 \* lvds->link_type of the two encoders
  step, idx,            \* where rcar_du_modeset_init() is
  drm,                  \* DRM objects of the Display Unit
  refs, actions,        \* references to the VSP devices, those drmm will put
  leaked,               \* drmm_add_action() failed in this behaviour
  fails                 \* failing calls so far

core == <<board, avail, link>>
progress == <<step, idx, drm, refs, actions, leaked>>
probeVars == <<core, state, again, progress, fails>>

\* The encoders of this repository, by their drivers.
Encoder == [lvds0 |-> "LVDS0", lvds1 |-> "LVDS1", dsi0 |-> "DSI0", dsi1 |-> "DSI1"]
Internal == {Encoder[d] : d \in DOMAIN Encoder}
Drivers == DOMAIN Encoder \cup {"du"}

--------------------------------------------------------------------------------
(* Hardware: rcar_du_device_info and the "renesas,vsps" property             *)

H2 == [gen |-> 2, crtcs |-> 3, ext |-> FALSE,
       ports |-> <<"DPAD0", "LVDS0", "LVDS1">>,
       routes |-> [DPAD0 |-> {0, 1, 2}, LVDS0 |-> {0}, LVDS1 |-> {1, 2}]]

H3 == [gen |-> 3, crtcs |-> 4, ext |-> FALSE,
       ports |-> <<"DPAD0", "HDMI0", "HDMI1", "LVDS0">>,
       routes |-> [DPAD0 |-> {3}, HDMI0 |-> {1}, HDMI1 |-> {2}, LVDS0 |-> {0}],
       vsp |-> <<0, 1, 2, 0>>, pipe |-> <<0, 0, 0, 1>>]

M3N == [gen |-> 3, crtcs |-> 3, ext |-> FALSE,
        ports |-> <<"DPAD0", "HDMI0", "LVDS0">>,
        routes |-> [DPAD0 |-> {2}, HDMI0 |-> {1}, LVDS0 |-> {0}],
        vsp |-> <<0, 1, 0>>, pipe |-> <<0, 0, 1>>]

\* D3 and E3, the devices whose encoders have an extended PLL and may be paired.
E3 == [gen |-> 3, crtcs |-> 2, ext |-> TRUE,
       ports |-> <<"DPAD0", "LVDS0", "LVDS1">>,
       routes |-> [DPAD0 |-> {0, 1}, LVDS0 |-> {0}, LVDS1 |-> {1}],
       vsp |-> <<0, 1>>, pipe |-> <<0, 0>>]

V3U == [gen |-> 3, crtcs |-> 2, ext |-> FALSE,
        ports |-> <<"DSI0", "DSI1">>,
        routes |-> [DPAD0 |-> {}, DSI0 |-> {0}, DSI1 |-> {1}],
        vsp |-> <<0, 1>>, pipe |-> <<0, 0>>]

\* wired: outputs connected to an available device; sinks: encoders with a sink;
\* dual: the two sinks are one in dual-link mode; brs: "renesas,#brs" of the VSP
\* that feeds two CRTCs, -1 without the property; narrow: DSI encoders with fewer
\* lanes than their sink has.
Board(soc, wired, sinks, dual, brs) ==
  [soc |-> soc, wired |-> wired, sinks |-> sinks, dual |-> dual, brs |-> brs,
   narrow |-> {}]

Outputs(soc) == {soc.ports[i] : i \in DOMAIN soc.ports}

Boards ==
  {Board(H2, wired, wired \cap {"LVDS0", "LVDS1"}, FALSE, -1) : wired \in SUBSET Outputs(H2)}
  \cup {Board(soc, Outputs(soc), {"LVDS0"}, FALSE, brs) : soc \in {H3, M3N}, brs \in -1..2}
  \cup {Board(M3N, {"DPAD0", "LVDS0"}, {}, FALSE, -1)}
  \cup {Board(E3, wired, sinks, FALSE, -1) :
          wired \in {{}, {"LVDS0"}, {"DPAD0", "LVDS1"}, Outputs(E3)},
          sinks \in SUBSET {"LVDS0", "LVDS1"}}
  \cup {Board(E3, wired \cup {"LVDS0", "LVDS1"}, {"LVDS0", "LVDS1"}, TRUE, -1) :
          wired \in SUBSET {"DPAD0"}}
  \cup {[Board(V3U, wired, sinks, FALSE, -1) EXCEPT !.narrow = narrow] :
          wired \in SUBSET Outputs(V3U), sinks \in SUBSET Outputs(V3U),
          narrow \in SUBSET {"DSI0"}}

soc == board.soc
Channels == 0..soc.crtcs - 1
HasVsp == soc.gen >= 3
Vsps == IF HasVsp THEN {soc.vsp[i] : i \in DOMAIN soc.vsp} ELSE {}
VspOf(c) == soc.vsp[c + 1]
PipeOf(c) == soc.pipe[c + 1]

\* The device a bridge or panel waits for; a dual-link sink is one device.
SinkAt == [LVDS0 |-> "sinkLVDS0", LVDS1 |-> "sinkLVDS1", DSI0 |-> "sinkDSI0", DSI1 |-> "sinkDSI1"]
Sink(output) == SinkAt[IF board.dual THEN "LVDS0" ELSE output]

\* What must bind besides the drivers of this repository.
Providers ==
  {Sink(o) : o \in board.sinks \cap board.wired}
  \cup (board.wired \ Internal)
  \cup (IF HasVsp THEN {"vsp", "cmm"} ELSE {})
  \cup (IF soc \in {H3, M3N} THEN {"dclkin"} ELSE {})

ProbeTypeOK ==
  /\ board \in Boards /\ avail \subseteq Providers
  /\ state \in [Drivers -> {"queued", "deferred", "probing", "parsed", "added", "bound",
                           "failed", "absent", "removed"}]
  /\ again \subseteq Drivers
  /\ link \in [{"lvds0", "lvds1"} -> {"single", "dual"}]
  /\ step \in {"vsps", "cmms", "crtcs", "encoders", "writebacks"}
  /\ idx \in 0..Len(soc.ports)
  /\ refs \in [0..2 -> Nat] /\ actions \subseteq 0..2
  /\ leaked \in BOOLEAN /\ fails \in 0..MaxFail

\* bridges: the encoders in rcdu->lvds and rcdu->mipi_dsi.
NoObjects ==
  [planes |-> {}, crtcs |-> {}, encoders |-> {}, bridges |-> {}, writebacks |-> {}]

ProbeInit ==
  /\ board \in Boards
  /\ avail = {}
  /\ state = [d \in Drivers |->
                IF d = "du" \/ Encoder[d] \in board.wired THEN "queued" ELSE "absent"]
  /\ again = {}
  /\ link = [d \in {"lvds0", "lvds1"} |-> "single"]
  /\ step = "vsps" /\ idx = 0 /\ drm = NoObjects
  /\ refs = [v \in 0..2 |-> 0] /\ actions = {}
  /\ leaked = FALSE /\ fails = 0

--------------------------------------------------------------------------------
(* Driver core                                                               *)

\* A driver binds: the deferred ones are probed again, those that are probing
\* will be if they are deferred now.
Bind(states) ==
  /\ state' = [d \in Drivers |-> IF states[d] = "deferred" THEN "queued" ELSE states[d]]
  /\ again' = again \cup {d \in Drivers : states[d] \in {"probing", "parsed", "added"}}

StartProbe(d) ==
  /\ state[d] = "queued"
  /\ state' = [state EXCEPT ![d] = "probing"]
  /\ again' = again \ {d}

Defer(d) ==
  /\ state' = [state EXCEPT ![d] = IF d \in again THEN "queued" ELSE "deferred"]
  /\ UNCHANGED again

GiveUp(d) ==
  /\ state' = [state EXCEPT ![d] = "failed"]
  /\ UNCHANGED again

\* Some call fails for good.
CallFails == fails < MaxFail /\ fails' = fails + 1

ProviderBinds(p) ==
  /\ p \in Providers \ avail
  /\ avail' = avail \cup {p}
  /\ Bind(state)
  /\ UNCHANGED <<board, link, progress, fails>>

--------------------------------------------------------------------------------
(* LVDS encoders                                                             *)

Bridge(d) == state[d] \in {"added", "bound"}

\* rcar_lvds_probe() allocates its state, of a single link.
LvdsStart(d) ==
  /\ StartProbe(d)
  /\ link' = [link EXCEPT ![d] = "single"]
  /\ UNCHANGED <<board, avail, progress, fails>>

\* Mutant of LvdsUnconnected: the encoder fails on every device.
LvdsUnconnectedFails(d) ==
  /\ Encoder[d] \notin board.sinks
  /\ state' = [state EXCEPT ![d] = "failed"]
  /\ UNCHANGED <<again, link>>

\* rcar_lvds_parse_dt() finds no sink: only the encoders that give a clock to the
\* Display Unit go on.
LvdsUnconnected(d) ==
  /\ Encoder[d] \notin board.sinks
  /\ state' = [state EXCEPT ![d] = IF soc.ext THEN "parsed" ELSE "failed"]
  /\ UNCHANGED <<again, link>>

\* Mutant of LvdsPair: the first encoder does not wait for the second.
LvdsPairLater(d) ==
  /\ link' = IF board.dual /\ d = "lvds0"
             THEN [e \in DOMAIN link |-> IF e = d \/ Bridge(e) THEN "dual" ELSE link[e]]
             ELSE link
  /\ state' = [state EXCEPT ![d] = "parsed"]
  /\ UNCHANGED again

\* rcar_lvds_parse_dt_companion(): the first encoder of a dual link waits for the
\* second, and sets the link type of both.
LvdsPair(d) ==
  IF ~(board.dual /\ d = "lvds0") THEN
    /\ state' = [state EXCEPT ![d] = "parsed"]
    /\ UNCHANGED <<again, link>>
  ELSE IF Bridge("lvds1") THEN
    /\ link' = [e \in DOMAIN link |-> "dual"]
    /\ state' = [state EXCEPT ![d] = "parsed"]
    /\ UNCHANGED again
  ELSE Defer(d) /\ UNCHANGED link

LvdsParse(d) ==
  /\ state[d] = "probing"
  /\ \/ LvdsUnconnected(d)
     \/ Encoder[d] \in board.sinks /\ Sink(Encoder[d]) \notin avail
        /\ Defer(d) /\ UNCHANGED link
     \/ Encoder[d] \in board.sinks /\ Sink(Encoder[d]) \in avail
        /\ LvdsPair(d)
  /\ UNCHANGED <<board, avail, progress, fails>>

\* Registers, clocks and reset, then drm_bridge_add().
LvdsAdd(d) ==
  /\ state[d] = "parsed"
  /\ \/ state' = [state EXCEPT ![d] = "added"] /\ UNCHANGED <<again, fails>>
     \/ CallFails /\ GiveUp(d)
  /\ UNCHANGED <<core, progress>>

LvdsBound(d) ==
  /\ state[d] = "added"
  /\ Bind([state EXCEPT ![d] = "bound"])
  /\ UNCHANGED <<core, progress, fails>>

Lvds(d) == LvdsStart(d) \/ LvdsParse(d) \/ LvdsAdd(d) \/ LvdsBound(d)

--------------------------------------------------------------------------------
(* DSI encoders                                                              *)

DsiStart(d) ==
  /\ StartProbe(d)
  /\ UNCHANGED <<core, progress, fails>>

\* rcar_mipi_dsi_parse_dt(): an encoder needs a bridge for a sink.
DsiParse(d) ==
  /\ state[d] = "probing"
  /\ IF Encoder[d] \notin board.sinks THEN GiveUp(d)
     ELSE IF Sink(Encoder[d]) \notin avail THEN Defer(d)
     ELSE state' = [state EXCEPT ![d] = "parsed"] /\ UNCHANGED again
  /\ UNCHANGED <<core, progress, fails>>

\* Registers, clocks, reset and host, then drm_bridge_add().
DsiAdd(d) == LvdsAdd(d)

Dsi(d) == DsiStart(d) \/ DsiParse(d) \/ DsiAdd(d) \/ LvdsBound(d)

--------------------------------------------------------------------------------
(* Display Unit: rcar_du_probe() and rcar_du_modeset_init()                  *)

At(label) == state["du"] = "probing" /\ step = label

\* rcar_du_planes_init(): for each group one primary plane per CRTC and seven
\* overlays, all of which may be on any CRTC of the group.
GroupPlanes(g) ==
  LET crtcs == {c \in Channels : c \div 2 = g}
      primaries == Cardinality(crtcs)
  IN {[owner |-> g, index |-> i, crtcs |-> crtcs,
       type |-> IF i < primaries THEN "PRIMARY" ELSE "OVERLAY"] : i \in 0..primaries + 6}

DuStart ==
  /\ StartProbe("du")
  /\ drm' = [NoObjects EXCEPT !.planes =
               IF HasVsp THEN {} ELSE UNION {GroupPlanes(g) : g \in {c \div 2 : c \in Channels}}]
  /\ step' = IF HasVsp THEN "vsps" ELSE "cmms"
  /\ idx' = 0
  /\ UNCHANGED <<core, refs, actions, leaked, fails>>

\* rcar_du_remove() on the way out: drm_dev_put() runs the managed actions.
Remove(held, managed) ==
  /\ refs' = [v \in DOMAIN held |-> held[v] - (IF v \in managed THEN 1 ELSE 0)]
  /\ actions' = {}
  /\ drm' = NoObjects
  /\ UNCHANGED <<step, idx>>

DuDefers(held, managed) == Defer("du") /\ Remove(held, managed) /\ UNCHANGED <<leaked, fails>>
DuFails(held, managed) == GiveUp("du") /\ Remove(held, managed) /\ UNCHANGED leaked

\* rcar_du_vsps_init(): a VSP shared by two CRTCs divides its planes when the
\* device tree gives the number of inputs of the second pipeline.
Fix == HasVsp /\ board.brs >= 0 /\ \E c \in Channels : PipeOf(c) = 1
PairCrtcs == soc.routes.DPAD0

\* rcar_du_vsp_init(): type and CRTCs of plane i of VSP v.
VspPlane(v, i) ==
  LET crtcs == {c \in Channels : VspOf(c) = v}
      divided == Fix /\ v = 0
      primary == i < Cardinality(crtcs) /\ ~(divided /\ board.brs = 0 /\ i > 0)
      paired == \/ board.brs >= 1 /\ primary /\ i = 1
                \/ board.brs = 2 /\ i = 4
  IN [owner |-> v, index |-> i,
      type |-> IF primary THEN "PRIMARY" ELSE "OVERLAY",
      crtcs |-> IF ~divided THEN crtcs ELSE IF paired THEN PairCrtcs ELSE {0}]

\* Mutant of VspInit: the action is registered once the VSP has been initialized.
VspInitUnmanaged ==
  /\ At("vsps") /\ idx \in Vsps
  /\ LET held == [refs EXCEPT ![idx] = @ + 1]
     IN IF "vsp" \notin avail THEN DuDefers(held, actions)
        ELSE /\ refs' = held
             /\ actions' = actions \cup {idx}
             /\ drm' = [drm EXCEPT !.planes = @ \cup {VspPlane(idx, i) : i \in 0..4}]
             /\ idx' = idx + 1 /\ step' = IF idx + 1 \in Vsps THEN "vsps" ELSE "cmms"
             /\ UNCHANGED <<state, again, leaked, fails>>
  /\ UNCHANGED core

\* of_find_device_by_node(), drmm_add_action(), vsp1_du_init() and the planes.
VspInit ==
  /\ At("vsps") /\ idx \in Vsps
  /\ LET held == [refs EXCEPT ![idx] = @ + 1]
         managed == actions \cup {idx}
     IN \/ "vsp" \notin avail /\ DuDefers(held, managed)
        \/ CallFails /\ \/ DuFails(refs, actions)
                        \/ DuFails(held, managed)
                        \/ GiveUp("du") /\ Remove(held, actions) /\ leaked' = TRUE
        \/ /\ "vsp" \in avail
           /\ refs' = held /\ actions' = managed
           /\ drm' = [drm EXCEPT !.planes = @ \cup {VspPlane(idx, i) : i \in 0..4}]
           /\ idx' = idx + 1 /\ step' = IF idx + 1 \in Vsps THEN "vsps" ELSE "cmms"
           /\ UNCHANGED <<state, again, leaked, fails>>
  /\ UNCHANGED core

\* rcar_du_cmm_init(): a device link to each unit.
CmmInit ==
  /\ At("cmms")
  /\ \/ HasVsp /\ "cmm" \notin avail /\ DuDefers(refs, actions)
     \/ HasVsp /\ CallFails /\ DuFails(refs, actions)
     \/ /\ HasVsp => "cmm" \in avail
        /\ step' = "crtcs"
        /\ UNCHANGED <<state, again, idx, drm, refs, actions, leaked, fails>>
  /\ UNCHANGED core

\* The second pipeline of a divided VSP may have no input and thus no CRTC.
Created == {c \in Channels : ~(Fix /\ PipeOf(c) = 1 /\ board.brs = 0)}

\* Mutant of Primary: the first plane of the VSP, whatever the pipeline.
PrimaryOfFirstPipe(c) ==
  IF HasVsp THEN [owner |-> VspOf(c), index |-> 0]
  ELSE [owner |-> c \div 2, index |-> c % 2]

\* The plane rcar_du_crtc_create() makes the primary plane of a CRTC.
Primary(c) ==
  IF HasVsp THEN [owner |-> VspOf(c), index |-> PipeOf(c)]
  ELSE [owner |-> c \div 2, index |-> c % 2]

\* rcar_du_crtc_create() of each channel: clocks, the CRTC, its interrupt.
CrtcCreate ==
  /\ At("crtcs")
  /\ \/ /\ "dclkin" \in Providers \ avail
        /\ DuDefers(refs, actions)
     \/ CallFails /\ DuFails(refs, actions)
     \/ /\ "dclkin" \notin Providers \ avail
        /\ drm' = [drm EXCEPT !.crtcs = {[index |-> c, primary |-> Primary(c)] : c \in Created}]
        /\ step' = "encoders" /\ idx' = 1
        /\ UNCHANGED <<state, again, refs, actions, leaked, fails>>
  /\ UNCHANGED core

\* The endpoint at hand.
Output == soc.ports[idx]

\* rcar_du_encoder_init() finds the bridge or the panel.
Found ==
  \/ \E d \in DOMAIN Encoder : Encoder[d] = Output /\ Bridge(d)
  \/ Output \in avail

\* Its output is not one of its own: -ENOLINK.
Companion == soc.gen >= 3 /\ Output = "LVDS1" /\ link["lvds1"] # "single"

\* The sink attaches its DSI device when its bridge is attached, and the host, in
\* rcar_mipi_dsi_host_attach(), turns it down.
HostRefuses == Output \in board.narrow

\* The next endpoint, or the writeback connectors; without any encoder the probe
\* fails.
NextEndpoint(encoders, bridges) ==
  LET drm_ == [drm EXCEPT !.encoders = encoders, !.bridges = bridges]
  IN IF idx < Len(soc.ports) THEN
       /\ drm' = drm_
       /\ idx' = idx + 1
       /\ UNCHANGED <<state, again, step, refs, actions, leaked>>
     ELSE IF encoders = {} THEN DuFails(refs, actions)
     ELSE
       /\ drm' = drm_
       /\ step' = "writebacks"
       /\ UNCHANGED <<state, again, idx, refs, actions, leaked>>

\* Mutant of Recorded: the bridge of a companion is not.
RecordedOutputs == drm.bridges \cup (IF Companion THEN {} ELSE {Output} \cap Internal)

\* rcar_du_encoder_init() remembers the encoders that give a clock to the Display
\* Unit before it knows whether they are outputs.
Recorded == drm.bridges \cup ({Output} \cap Internal)

\* rcar_du_encoders_init() for one endpoint: skipped when nothing is connected or
\* the encoder cannot be initialized, but the probe waits for a bridge.
EncoderInit ==
  /\ At("encoders")
  /\ IF Output \notin board.wired THEN NextEndpoint(drm.encoders, drm.bridges) /\ UNCHANGED fails
     ELSE IF ~Found THEN DuDefers(refs, actions)
     ELSE \/ CallFails /\ \E bridges \in {drm.bridges, Recorded} : NextEndpoint(drm.encoders, bridges)
          \/ /\ NextEndpoint(IF Companion \/ HostRefuses THEN drm.encoders
                             ELSE drm.encoders \cup {Output}, Recorded)
             /\ UNCHANGED fails
  /\ UNCHANGED core

\* rcar_du_writeback_init() for each channel: a CRTC that was not created has
\* index 0.
WritebackInit ==
  IF HasVsp
  THEN {[channel |-> c, crtc |-> IF c \in Created THEN c ELSE 0] : c \in Channels}
  ELSE {}

\* The end of rcar_du_modeset_init(), then drm_dev_register().
DuRegister ==
  /\ At("writebacks")
  /\ \/ CallFails /\ DuFails(refs, actions)
     \/ /\ drm' = [drm EXCEPT !.writebacks = WritebackInit]
        /\ Bind([state EXCEPT !["du"] = "bound"])
        /\ UNCHANGED <<step, idx, refs, actions, leaked, fails>>
  /\ UNCHANGED core

\* Somebody unbinds the driver: rcar_du_remove().
Unbind ==
  /\ state["du"] = "bound"
  /\ state' = [state EXCEPT !["du"] = "removed"]
  /\ Remove(refs, actions)
  /\ UNCHANGED <<core, again, leaked, fails>>

Du == DuStart \/ VspInit \/ CmmInit \/ CrtcCreate \/ EncoderInit \/ DuRegister

ProbeNext ==
  \/ \E p \in Providers : ProviderBinds(p)
  \/ \E d \in {"lvds0", "lvds1"} : Lvds(d)
  \/ \E d \in {"dsi0", "dsi1"} : Dsi(d)
  \/ Du \/ Unbind

\* Everything a board has gets a driver, and the driver core probes.
Fairness ==
  /\ WF_probeVars(\E p \in Providers : ProviderBinds(p))
  /\ \A d \in {"lvds0", "lvds1"} : WF_probeVars(Lvds(d))
  /\ \A d \in {"dsi0", "dsi1"} : WF_probeVars(Dsi(d))
  /\ WF_probeVars(Du)

ProbeSpec == ProbeInit /\ [][ProbeNext]_probeVars /\ Fairness

--------------------------------------------------------------------------------
(* Properties *)

\* The outputs that are there: an LVDS encoder counts with or without a sink on D3
\* and E3, and not when it is the second half of a dual link, a DSI encoder when it
\* has the lanes its sink wants.
Wired == board.wired \ (board.narrow \cup (IF board.dual THEN {"LVDS1"} ELSE {}))

\* Whatever the order in which the encoders and the Display Unit probed, it has an
\* encoder for each output that is there and for no other ("skip the LVDS1 output
\* if the LVDS1 encoder is used as a companion"), unless a call failed.
OutputsExact == (state["du"] = "bound" /\ fails = 0) => drm.encoders = Wired

\* The planes a CRTC can use.
PlanesOf(c) == {p \in drm.planes : c \in p.crtcs}

\* The encoders that give CRTC c its dot clock: on D3 and E3 for DPAD0 alone, on V3U
\* always, since a CRTC without output has a writeback connector.
ClockedBy(c) ==
  CASE soc = E3 /\ "DPAD0" \in drm.encoders -> {IF c = 0 THEN "LVDS0" ELSE "LVDS1"}
    [] soc = V3U -> {IF c = 0 THEN "DSI0" ELSE "DSI1"}
    [] OTHER -> {}

\* rcar_du_crtc_atomic_enable() uses the encoder that clocks a CRTC without looking
\* whether there is one ("the DU will need the bridge to control the clock"): it is
\* known also when it is no output, as the companion of a dual link, without a sink,
\* or with one that is turned down.  Not when the device tree does not connect it to
\* the Display Unit, nor after a failure.
ClocksKnown ==
  (state["du"] = "bound" /\ fails = 0) =>
    \A c \in Channels : ClockedBy(c) \cap board.wired \subseteq drm.bridges

\* Every CRTC of a bound device can show a picture, with the primary plane it was
\* created with and which no other CRTC has; the two pipelines of a divided VSP
\* share no plane, and the second has as many as the device tree says.  Without any
\* the second pipeline has no CRTC, but still an output and a writeback connector,
\* that of CRTC 0 (rcar_du_writeback.c:203).
PipesComplete ==
  state["du"] = "bound" =>
    /\ \A c \in drm.crtcs :
         /\ \E p \in PlanesOf(c.index) :
              p.type = "PRIMARY" /\ p.owner = c.primary.owner /\ p.index = c.primary.index
         /\ \A d \in drm.crtcs : d # c => d.primary # c.primary
    /\ \A v \in Vsps :
         Fix /\ v = 0 =>
           \A c, d \in Channels : c # d /\ VspOf(c) = v /\ VspOf(d) = v =>
             /\ PlanesOf(c) \cap PlanesOf(d) = {}
             /\ PipeOf(c) = 1 => Cardinality(PlanesOf(c)) = board.brs
    /\ board.brs # 0 =>
         /\ \A w \in drm.writebacks : w.crtc = w.channel
         /\ \A o \in drm.encoders : soc.routes[o] \subseteq {c.index : c \in drm.crtcs}

\* A probe that is deferred or fails, however late, and a removal give back the
\* references to the VSP devices, unless the call that was to see to that failed
\* (rcar_du_vsp.c:570); a probe that is over holds exactly one for each VSP.
RefsReturned ==
  (state["du"] # "probing" /\ ~leaked) =>
    \A v \in 0..2 : refs[v] = (IF state["du"] = "bound" /\ v \in Vsps THEN 1 ELSE 0)

\* A board whose outputs can be brought up: something is connected, and encoders
\* that only feed a sink have one.
Feasible == Wired # {} /\ (soc.ext \/ board.wired \cap Internal \subseteq board.sinks)

\* No order of probes leaves the drivers waiting for each other: on a board that
\* can be brought up the Display Unit is bound in the end.
EventuallyBound == <>(Feasible => (state["du"] = "bound" \/ fails > 0))
===============================================================================
