# R-Car Display Unit driver: specifications and proofs

The Display Unit (DU) driver turns atomic commits of the Linux DRM core into
register writes of the Renesas R-Car display hardware. What is hard to get right
in it is not a computation but what is shared: two CRTCs of a group share start
and stop bits, hardware planes and unlocked counters; commit threads, interrupt
handlers and compositor callbacks share page flips; encoders and colour units
are powered by whoever needs them first. This directory models that part in
TLA+, checks it with TLC on small instances, and proves with TLAPS the safety
properties it checks but half of one (section 4): of the group, its counters under
races and its routing, of page flips, the plane allocator, the colour units, the
encoders, the mappings of a VSP and the probe, for any number of planes, commits and
failures, and of what a mode set computes, for any mode and board. All line numbers
are those of the files in `src/`.

## 1. Inventory

| Component | Source | State it keeps | Operations | Talks to |
|---|---|---|---|---|
| Atomic commit (KMS) | `rcar_du_kms.c` | `dpad0_source`, `dpad1_source`, the DRM states; at probe the VSPs and CMMs of the CRTCs | atomic_check, commit_tail, async_commit, dumb_create, fb_create, modeset_init | calls the CRTC, plane and bridge handlers in its phases |
| CRTC | `rcar_du_crtc.c` | `initialized`, `dsysr`, `event`, `vblank_enable`, `vblank_count`, clocks | get, put, start, stop, atomic_enable, _disable, _begin, _flush, page flip, vblank, interrupt | group, VSP, CMM, LVDS and DSI clocks, DRM vblank core |
| Group | `rcar_du_group.c` | `use_count`, `used_crtcs`, `need_restart`, `dptsr_planes`, `lock` | get, put, start_stop, restart, setup, set_routing | the DSYSR word of its first CRTC |
| Plane allocator | `rcar_du_plane.c` | `hwindex` of the plane states | atomic_check_planes, plane setup, atomic_update | reads `dptsr_planes`, requests a restart |
| VSP interface | `rcar_du_vsp.c` | scatter tables of mapped framebuffers | enable, disable, begin, flush, complete, map, unmap, write back | requests a restart, finishes page flips |
| CMM | `rcar_cmm.c` | `lut.enabled`, power, LUT registers | setup, enable, disable | called by the CRTC handlers |
| Writeback | `rcar_du_writeback.c` | the queued jobs | prepare, setup, complete, cleanup | VSP mappings, VSP callback |
| LVDS encoder | `rcar_lvds.c` | clock and reset, PLL | bridge enable, disable, clk_enable, clk_disable | its companion, the CRTC it clocks (D3, E3) |
| DSI encoder | `rcar_mipi_dsi.c` | clocks and reset, PLL, lanes | clk_enable, clk_disable, bridge enable, probe, host attach | the CRTC it clocks (V3U) |
| Encoders | `rcar_du_encoder.c` | `lvds[]`, `mipi_dsi[]` of the device | init | the bridges other drivers added, or have not yet |
| HDMI PHY | `rcar_dw_hdmi.c` | none | mode_valid, phy_configure | |
| Device tree fixups | `rcar_du_of*.c` | none | run at boot | |
| Driver core | `rcar_du_drv.c` | device tables (channels, routes, clocks) | probe, remove, suspend, resume | |

What makes each correct, and where it is hard:

- **Group**: a reference for every acquired CRTC, a user for every started one,
  reset exactly without users. Registers that take effect only under reset
  (plane sources, plane association) must be followed by a restart, and a
  restart blanks the other CRTC, so there should be none without need. Hard:
  the counters are maintained by handlers of different CRTCs in different
  phases; clock errors are ignored; the words are not locked.
- **Page flips**: each commit's event is sent once, in order, eventually, and
  after its frame is visible. Hard: interrupt, callback and a timed-out thread
  compete; vblank references change hands between them.
- **Plane allocator**: no two KMS planes on one hardware plane, nothing leaked,
  nothing moved without need. Hard: it frees in advance what the current states
  still own, wraps around, and runs beside the flush of earlier commits.
- **CMM**: powered exactly while its channel runs, loaded with the table of the
  state. Hard: its setup is split over two handlers by the flags of the commit.
- **LVDS, DSI**: clocks balanced over the two paths that use them, an output lit
  and a dot clock running as long as needed. Hard: bridge and CRTC enable the
  same encoder in different phases, and D3 and E3 pair encoders.
- **Routing**: a parallel output shows the CRTC that drives it. Hard: its source
  is kept in words every commit rewrites, and reaches the hardware only when
  some CRTC of the right group is set up.
- **Clocks, timings, pitches**: searches, tables and divisions that must stay in the
  ranges of the hardware at every boundary, and checks that must accept only what
  can be programmed.
- **Writeback, VSP mappings**: every mapping undone once, on every error path, and
  not while the hardware uses it.
- **Probe**: the Display Unit gets the right outputs, planes and references in
  whatever order it, its encoders and their sinks are probed. Hard: drivers
  wait for each other by deferring, one encoder writes the link type another
  driver reads, and every failure must give back what was taken.

`PROJECT.json` lists the hazards one by one, with their lines and the properties
that would catch them, and says of the others why nothing does yet.

## 2. Modules

```
CommitTail ----- extended by ---- DuGroup, Cmm,       FlipEvents      Mappings
                                  Encoders, Routing       ^ implemented by ^
                                                       PageFlip        VspBuffers
Clocks, FrameBuffers --- extended by --- MCClocks
                                                       GroupRace   PlaneAlloc   Probe
```

| Proofs | are about |
|---|---|
| CommitTail_proofs | CommitTail; extended by the next three |
| DuGroup_proofs | DuGroup, Routing |
| Cmm_proofs | Cmm |
| Encoders_proofs | Encoders, Clocks |
| GroupRace_proofs | GroupRace |
| PageFlip_proofs | PageFlip |
| PlaneAlloc_proofs | PlaneAlloc, Probe |
| VspBuffers_proofs | VspBuffers, FrameBuffers |

Where a module of proofs is about two others, the initial states, the steps and the
specification of the second carry its name: RoutingInit, ClocksNext, FbSpec,
ProbeSpec.

**CommitTail** is the order in which `rcar_du_atomic_commit_tail()` (through the
DRM helpers) calls the handlers: disable, begin, flush, enable, each over its
CRTCs in index order. `Started` and `Acquired` say, at any point of a commit,
which CRTCs the handlers so far have started and acquired; they are derived from
the progress of the commit alone, which makes them a specification the counters
of the driver can be compared with. Components conjoin `Handle(phase, c)` with
what their handler does. Commits do not overlap here.

**DuGroup** is one group under such commits. A handler is one step that includes
every call it makes: AtomicDisable is stop, group stop and put; AtomicFlush is
update_planes with the restarts in it. `latched` and `unlatched` stand for
registers that only change under DSYSR.DRES: the association DPTSR, and the
VSPS source bit of a plane. Clock failures of `clk_prepare_enable()` are a
choice of CrtcGet; the code ignores the error, so enable has two forms, one
when the get was done before and one when it is tried again
(AtomicEnableLateGet). `VspModes` chooses DUs with a VSP (all of Gen3), whose
plane for each CRTC is fixed, or without one (all of Gen2), where the planes of
a CRTC are whatever disjoint sets the allocator gave; the branch for a VSP on
Gen2 is not modelled because no supported device has it.

**GroupRace** opens the steps of DuGroup up: every load and every store of
`use_count`, `used_crtcs`, `need_restart`, the cached DSYSR words and the group
lock is a step of the thread that runs the tail for a CRTC. Two commits of
different CRTCs overlap: a page flip beside anything, and two mode sets only
when they may be nonblocking. It has a VSP and no clock failure.

**PageFlip** is one CRTC with the three actors that finish its page flips. A
commit turns it on or off, resets it (a mode set of an active CRTC) or flips.
Each critical section (`event_lock`, `vblank_lock`) is a step, and so is each
unlocked access between two. The waits of the driver (50 ms, 100 ms) may time
out at any moment. The vblank reference count, the wait for flip_done and the
hardware are the environment, modelled from how the driver uses them: a
vertical blanking applies the plane enables (and on Gen2 the frame address), a
VSP takes the queued frame at a frame end. Hardware may also stall for so long
that the core gives up waiting for flip_done (`stalled`), after which the next
flip overwrites the event. **FlipEvents** is the abstract promise, implemented by
PageFlip with `requested <- cur`: events are delivered once, in order and
eventually; a stall may cost an event, but none is sent twice and later ones
arrive.

**PlaneAlloc** is `rcar_du_atomic_check_planes()`: StartCheck is its first two
passes, Alloc or Fail a turn of its third, Swap the moment the core makes the
new states current, Flush the association of `rcar_du_crtc_update_planes()`.
Flushes of earlier commits happen between the turns of a check: the allocator
reads `dptsr_planes` without a lock. A check holds the locks of the planes it
may move, so one check at a time is modelled.

**Cmm** is a colour unit per CRTC under CommitTail: `power` is its runtime PM
count, `lut_ctrl` and `lut_tbl` its registers, in which writes to an unpowered
unit are lost and noted in `unpowered`.

**VspBuffers** is the memory of a VSP: who maps the framebuffer of a plane or of a
writeback job and who undoes it. A commit prepares its holders one by one, with
calls that may fail half-way (PrepareFailed, Abort), is swapped in, runs its tail
and leaves the replaced states to a clean-up that runs beside the next commit.
Frames given to the VSP (`lists`) become the one it reads (`shown`) at a frame
end, whose callback signals jobs and flips later still. Disabling stops the VSP, and
is over when no callback of it is in progress: that is what the VSP1 driver is
relied on for. A callback that outlasted a whole disable would complete a later
flip early, and after two such resets, in the fifth commit, a frame with a
writeback job could be dropped for the next one. `leaked`, `lost` and
`reset` note the three situations the properties leave out; section 3 says why.
**Mappings** is the abstract promise: a framebuffer is mapped once per use,
accessed by the device only while it is mapped, and unmapped once, after its last
use, in the end. It knows uses, not commits; VspBuffers implements it with a use
for each holder and commit, held by whoever will undo it.

**Encoders** is the clock, reset, PLL and light of an LVDS or DSI encoder per CRTC,
under CommitTail with the bridges before the disables and after the enables. The
encoders of D3 and E3 (`ext`) give the dot clock to CRTCs that drive DPAD0 alone
and may be paired in dual-link mode.

**Routing** is the way from the outputs of the CRTCs to DEFR8, DORCR and DOFLR,
under CommitTail: RoutingCommit writes `dpad0_source` and `dpad1_source`,
RoutingBegin of a CRTC that was not acquired writes the registers of its group and the DPAD0
routing in whichever group has it. The eight devices differ in generation,
channels (R8A77965 has a gap) and routes.

**Clocks** is arithmetic: what a mode set writes for given clocks. Searches are sets
of settings of which `First` takes the one the loops would keep. Overflow is
not an issue in the code (64 bits); `Fout` splits the only product too large for
TLC, `TenThousandths` the quotient by which the DSI search compares. LVDDIV keeps
its width of six bits, and the bit above is DIVSTP. The DSI search tries every
multiplier; the model only those next to the exact one, which is the same because
the output grows with the multiplier. `HsRows` may return any row of
the table when the loop finds none and reads on behind it. A CRTC writes ESCR only
where rcar_du_register_access_check() lets it (`EscrAccessible`): not CRTC 0 of V3U,
and not CRTC 2 of H3, whose register then keeps its zeros. The check means to refuse ESCR13
as well, but compares it with its address including the offset of the channel
(`rcar_du_crtc.c:40`), while it is asked about the register without, so that odd
channels always write. OTAR goes through the same check and is only ever written
as zero. `DotClock` is what the registers make of the clocks; on V3U that is the clock of
the DSI encoder (`rcar_du_crtc.c:806`), whatever ESCR holds.

**FrameBuffers** follows the pitch of a framebuffer: an application asks for a dumb
buffer or makes pitches up (Allocate), rcar_du_fb_create() accepts or rejects
them, and the scanout programs PnMWR in pixels, or the VSP in bytes. Formats are
the classes of bits per pixel, memory planes and subsampling the tables contain.
**MCClocks** gives both modules their boards, modes, widths and pitches.

**Probe** is the probing of the Display Unit and of its LVDS and DSI encoders. A
probe is several steps (`state`, `step`, `idx`), between which the other drivers
move; LvdsParse, LvdsAdd, VspInit, CrtcCreate, EncoderInit for each endpoint, ...
are those steps. The driver core probes what was deferred again when something
has bound, also when that happened while the probe was going on (`again`). Panels,
bridges, VSPs, colour units and clocks bind at any moment. `drm` is what has been
created, `refs` and `actions` the references to VSP devices and the managed
actions that drop them. The boards are five devices with subsets of their outputs
connected, with and without sinks, dual-link, and every division of the planes
of a VSP that two CRTCs share.

`TypeOK` says what the variables range over. The run of DuGroup checks it, and the
proofs need it and establish it where there are any; the runs of the other modules
check deeper properties only.

Operators named `...Kept`, `...FirstOnly` and the like with a comment "Mutant
of" are plausible bugs. They are used by nothing; putting one in the place of
the definition it is a mutant of makes the property listed with it in
`PROJECT.json` fail, which shows that the property constrains the code.

## 3. Runs

| Run | What it asks | Instance |
|---|---|---|
| `group_serial` | do counters, restarts and display stay right over any sequence of commits? | 2 CRTCs, 3 hardware planes, VSP or not, one clock failure |
| `race_blocking` | does a mode set beside page flips lose an update? | 2 CRTCs, every interleaving |
| `race_nonblocking` (violated) | do two mode sets at once? | the same |
| `page_flip` | is every event delivered once, in order, eventually, and not early, does every vblank reference have an owner, is nothing left armed when the CRTC is off, even when the hardware stalls past every timeout? | 5 commits, Gen2 and Gen3 |
| `plane_alloc` | do allocations overlap, leak or move without need? | 3 KMS planes, 4 hardware planes, 2 planes touched per commit |
| `cmm` | is the unit powered with its channel, and loaded after each commit? | 2 CRTCs, 2 tables, one failure |
| `vsp_buffers` | do mappings live as Mappings says, does each have an owner that will undo it, are jobs signalled when written? | 2 planes (one with two memory planes) and writeback, 3 commits, one failure |
| `encoders` | does the dot clock run, is the output lit, are clocks balanced? | 2 CRTCs, three kinds of device, single and dual link, one failure |
| `encoders_companion` (violated) | is the companion off when the output is? | 2 CRTCs, D3 or E3 |
| `routing` | is DPAD0 or DPAD1 routed from the CRTC that drives it, and held when unused? | 8 devices with up to 4 CRTCs, one clock failure |
| `clocks` | are PLLs in range and near the clock asked for, is the divider at the closer of two clocks, can transmitters be configured for every mode they accept, do the timings fit, are framebuffers read at their pitch? | 17 boards, 20 pixel clocks, 144 timings around the limits; 11 classes of formats, 13 widths, 23 pitches |
| `probe` | has the Display Unit its outputs, the clocks of its CRTCs, its planes and references, and is it bound in the end? | 67 boards, every order of probes, one failing call |

Bounds. A group has at most two CRTCs in the hardware, so two are all. Three
hardware planes give each CRTC one and leave one to change hands; with VSP 0 and
2 are the fixed ones. Commits are not bounded in DuGroup, GroupRace, PlaneAlloc,
Cmm and Routing: TLC explores every sequence. `MaxFail` (`MaxUnclocked` in Routing)
bounds the failing clock calls: after the first the counters may be off for good, so a second adds little (it
was tried with two). `MaxCommit` = 5 in PageFlip covers every sequence of five of
on, flip, reset and off, thus also two commits after a stall; it is what makes the
event numbers finite. `MaxCommit` = 3 in VspBuffers lets a clean-up overlap the
next commit and a third reuse what both left; as commits are finite, `[]<>` in
`JobsSignalled` and `Returned` says as much as a leads-to for each use would. `MaxClk` = 2 in Encoders: on D3 and E3 clock enables are never undone (see
below), so their count grows without end; a behaviour stops before a commit that
would exceed it. A mode set in Clocks depends on no earlier one, so each behaviour
has one, and each of FrameBuffers one framebuffer. In Probe one call fails, as a
second failure meets a probe that is over. Deadlock checking is off in PageFlip,
VspBuffers, Encoders and Clocks, where behaviours end at these bounds, and in Probe,
where they end when everything is bound, and only there. Four hardware planes with three KMS planes of one or two hardware planes each reach
exhaustion, fragmentation and the wrap from the last plane to the first.

Fairness is stated in PageFlip, VspBuffers and Probe. In PageFlip commit thread, the two
finishers, interrupts, vertical blankings of a running display and frame ends of
the VSP are weakly fair; in VspBuffers the commit thread, the VSP with its
callback, and the core's clean-up; in Probe the drivers that bind sometime, and
each probe. That is what a running kernel and running hardware give,
and each is needed: a page flip completes because something interrupts. Whether
a commit is made at all is never assumed, nor that a driver is unbound. A stall is
a choice: fairness of the hardware rules out one that lasts for ever, not one
that outlasts every timeout.

### What the violated runs show

- `race_nonblocking`: `rcar_du_group.c:235` requires the mode_config lock for
  get and put, but the tail of a nonblocking commit runs without it. Two
  nonblocking mode sets lose an increment or a decrement. `race_blocking` shows
  the same words are safe as long as mode sets exclude each other.
- `encoders_companion`: `rcar_lvds_atomic_disable()` returns at once for encoders
  with an extended PLL, which are the only ones with a companion. The code that
  disables the companion (`rcar_lvds.c:662`) is not reached for any, and on D3
  and E3 an encoder that was enabled for its own output stays enabled.

### What the passing runs leave out, and why

- `RefCount` and `DpadRouted` are about behaviours without a clock failure: the
  callers of `rcar_du_crtc_get()` and `rcar_du_group_set_routing()` ignore the
  error, so a CRTC is started without its reference, respectively with the old
  routing. `StartCount` holds all the same.
- `CompleteOnScreen` and `MappingsFollowLife` are about the time until an active CRTC
  is reset. The disable handler sends the event of the new state at once
  (`rcar_du_crtc.c:856`), so nobody waits for the first frame of the reset. The
  event of the next flip is armed while the end of that frame is in flight, which
  finishes it early; the framebuffer it replaces is then unmapped while the VSP
  may still read it. CompleteOnScreen also leaves out what follows a stall.
- After a stall an event is overwritten with its vblank reference, which is never
  dropped: RefsOwned then only says that no reference is missing, and FlipEvents
  that no event is sent twice and the last one arrives.
- `LutExact` leaves out commits that wrote the unit without power: one that changes
  the gamma table and also sets a mode on a CRTC that stays active writes it in
  begin, between its disable and its enable, against `rcar_cmm.c:74`.
- `MappingsOwned` and `MappingsFollowLife` allow for the mapping that `rcar_du_vsp_plane_prepare_fb()`
  leaves when `drm_gem_fb_prepare_fb()` fails (`leaked`). `JobsWritten` and
  `JobsSignalled` except behaviours in which a CRTC was disabled with a writeback
  job the VSP had not written (`lost`): the job stays first in the queue.
- `LinksLit` leaves out the companion of a dual link whose PLL was also the dot
  clock of the other CRTC (`cut`): releasing that clock resets the companion.
- `LevelsFixed` leaves out R8A77965: its CRTC 2 is channel 3, second of its group,
  but `doflr_values[0]`, of the first, is used for it (`rcar_du_group.c:385`).
- `DotClockClose` and `PllInRange` leave out RGB outputs below 16.2 MHz on D3 and
  E3, whose divider does not fit LVDDIV and stops the clock (`rcar_lvds.c:361`),
  and on H3 ES1.x clocks near 200 MHz and above, for which the search finds
  nothing and writes zeros. Display PLLs do not reach clocks below 25 MHz
  either. The dot clock of a DSI encoder is looked at for the rates
  `TransmitterReady` is about, below. On H3 ES1.x the display PLL runs at twice the
  dot clock, "coupled with a /2 post-divider" (`rcar_du_crtc.c:301`); for CRTC 2 the write
  of that divider is dropped (`rcar_du_crtc.c:49`, `:102`), against the comment. There
  (`Undivided`) the property asks for what the code gives, twice the clock of the mode.
  `DividerClose` is about CRTCs that take the clock from their divider, which are all
  allowed to write it, and asks for half a step of the divider only: from a fixed
  clock, as from the LVDS PLL, the divider is the rounded ratio, which is not always
  the one that comes closest.
- `TransmitterReady` is about DSI rates from 40 to 1250 MHz:
  rcar_mipi_dsi_bridge_mode_valid() looks at the pixel clock only, so that with few
  lanes a fast mode, and with many a slow one, is accepted and programmed as
  zeros. At exactly 40 MHz no row of either table matches, and the loop over
  `hsfreqrange_table` reads past its end.
- `LinesMatch` leaves out an odd pitch with two memory planes on Gen3 (accepted only
  with a chroma pitch of one less, `rcar_du_kms.c:459`), and PnMWR beyond 4095 when it
  is doubled for an interlaced mode (`rcar_du_plane.c:363`). Dumb buffers of 4081 to
  4095 pixels may be asked for, but their rounded pitch is rejected.
- `OutputsExact` and `ClocksKnown` are about probes without a failing call: an encoder
  that fails to initialize is skipped. `ClocksKnown` also needs the encoder to be
  connected in the device tree. Otherwise `lvds[]` or `mipi_dsi[]` holds NULL, which
  the handlers of the CRTC use without a look (`rcar_du_crtc.c:799`, `:811`): on D3
  and E3 for DPAD0 alone, on V3U whenever the CRTC is enabled, which its
  writeback connector allows.
- `PipesComplete` leaves `#brs` = 0 out of what it says about writeback and
  outputs: the CRTC of the second pipeline is not created, but its writeback
  connector is and gets the mask of CRTC 0 (`rcar_du_writeback.c:203`), and its
  output can be used by no CRTC.
- `RefsReturned` leaves out a failure of drmm_add_action() itself
  (`rcar_du_vsp.c:570`), after which nobody drops the reference.
- `EventuallyBound` is about boards on which every connected LVDS or DSI encoder has
  a sink, but for D3 and E3. Elsewhere such an encoder does not probe, and the
  Display Unit defers for ever, although other outputs could be used.

### Met on the way

Nothing in these models depends on them, but they are in the code: the node
references of `vsps[]` are put on the error path of rcar_du_vsps_init() only;
the device reference of of_find_device_by_node() for a colour unit
(`rcar_du_kms.c:836`) is never put; with `#brs` above 2 the error path is taken with
a `ret` that is not an error (`rcar_du_kms.c:740`), and the probe goes on without
VSPs; XRGB1555 has no `hsub`, by which rcar_du_fb_create() divides although the
result has no use for it.

## 4. Proofs

Everything below is proved by TLAPS from the named assumptions of the modules
alone: for any finite set of CRTCs with natural indices (GroupRace has the two a
group has in the hardware), any set of planes, any bound of commits and of failures. The bounds that make the runs finite are
parameters of the theorems. Each inductive invariant was first checked by TLC on
the instance of the run, and shaped by what TLC and the prover said of it.

**CommitTail_proofs**: what each step of a commit does to `Started`, `Acquired`
and `Flushed`, one lemma per kind of step, under the invariant `TailInv` (the
CRTCs still to be handled are among those the phase wants, a CRTC whose active
flag changes needs a mode set).

**DuGroup_proofs**: `IInv` conjoins TypeOK, TailInv, StartCount, RefCount,
RunningInv and RestartInv. RunningIffUsed is not inductive alone: the flush of a
mode set may start a group that has no user yet (rcar_du_group_restart() does not
look). RunningInv says what is true in that window: a running group has a user
or a flushed CRTC that will be enabled. RestartNotLost needs to know that a
request is made only by the begin handler of a mode set, hence is followed by a
flush (RestartInv). One lemma per action, then

- `TypeCorrect`: `[]TypeOK`
- `StartCountExact`: `[]StartCount`, clock failures included
- `ReferencesBalanced`: `[]RefCount`
- `RunsForItsUsers`: `[]RunningIffUsed`
- `RestartsServed`: `[]RestartNotLost`

The display rests on `DInv`, inductive relative to IInv. LatchedInv: the
association in effect is the one written, unless (`Stale`) a flush changed it
while the group ran without users, which two enables of the same mode set
repair: the second one restarts the group. AssociationInv: with VSP a CRTC
that is started or flushed has its association, so later flushes change nothing.
PlanesInv: planes are off for CRTCs neither started nor flushed, and current for
those that need no flush.

- `ActiveCrtcsDisplay`: `[]ActiveDisplays`
- `FlipsDoNotFlicker`: `[]FlipNoFlicker`

For Routing, `RoutingInv` follows the registers through a commit. An output has
one source, which the table of the device allows (`OutInv`), and the words
`dpad0_source` and `dpad1_source` name it (`SourceInv`), the second only if the
commit has its CRTC in its scope: rcar_du_atomic_commit_tail() begins with none.
`SetUp` are the CRTCs whose registers say what their outputs are now: those acquired,
but for the ones a mode set is about to release. The PG2D bit of a group is written at
the set-up of either of its CRTCs, and says the odd one unless the source names the
even one. This is wrong if the even one drives DPAD1 and is not in the commit. It
cannot happen, for a reason in the tables alone: only on R8A7779 may the even CRTC
drive DPAD1, and there the other one has no output but DPAD1, so that it is not set
up meanwhile.

- `OutputsRouted`: `[]DpadRouted`
- `LevelsExact`: `[]LevelsFixed`

**GroupRace_proofs**: one CRTC thread is described with the other as parameter, and
`IInv` is the description for both. `Count` gives the counters as sums over the two
threads of what each holds at its label, and says that the value a thread has loaded
is still current when it stores it. `Exclusion` is why: two mode sets exclude
each other, and only mode sets touch counters. `Lossless` says the same of the DSYSR
words, `Runs` when the group runs, `Request` who will serve a restart, and
`Latches` that a plane source not in effect has a restart coming, from the
thread that wrote it or from a page flip that took the request over. All
theorems are under `Blocking`, the hypothesis that mode sets exclude each other:
without it the first is false, as `race_nonblocking` shows.

- `CountersExact`: `[]CountsExact`
- `GroupRuns`: `[]RunningExact`
- `SourcesLatch`: `[]SourceInEffect`

**PageFlip_proofs**: an event is in exactly one place (`DistinctInv`): the state of the
commit, the CRTC, the hands of a finisher, or delivered; and unless the hardware
stalled all earlier ones were delivered in order (`OrderInv`). `RefsInv` is
RefsOwned with the owners as a sum, of which a step changes one term. `ThreadInv`
and `QuietInv` say what the commit thread may rely on at each step of a disable,
`PlanesInv` what the blankings counted say of the planes, `ScanInv` that on
Gen3 the frame handed over is that of the flip in progress.

- `ReferencesOwned`: `[]RefsOwned`
- `QuietOnceOff`: `[]QuietWhenOff`
- `PlanesOffScreen`: `[]PlanesOff`
- `FlipsCompleteOnScreen`: `[]CompleteOnScreen`
- `ImplementsFlipEvents`: the initial states are those of FlipEvents, and every step
  requests, delivers or gives up an event as FlipEvents allows, or is a stutter

**PlaneAlloc_proofs**: `WorkInv` says which new states are settled during a check,
`ChangeInv` that a check changes planes of CRTCs it has locked only, and
none that keeps its number of hardware planes. With these NoOverlap, FreeExact and
AssociationExact are inductive. `PositionFits` is what the search for a position
promises, the wrap behind the last plane included.

- `OwnersDistinct`: `[]NoOverlap`
- `FreeAccounted`: `[]FreeExact`
- `ScansOwnPlanes`: `[]AssociationExact`
- `PlanesStay`: `Stable`, an action property

For Probe, `RefsInv` counts one reference for each managed action of a VSP the
probe has come to, at every step and on every error path. `PairInv` says that the
second encoder of a dual link is never taken for a single one: the first does not
get beyond parsing before it has its companion. `ObjectsInv` says what has been made
at each step of the probe, and which encoders it has passed. `BoardsKnown` and
`PipesKnown` are what the 67 boards have in common: which outputs are wired, that
no two CRTCs share a pipeline, and that each VSP has a pipeline for each of its
CRTCs.

- `ReferencesReturned`: `[]RefsReturned`
- `OutputsFound`: `[]OutputsExact`
- `ClocksFound`: `[]ClocksKnown`
- `PipelinesComplete`: `[]PipesComplete`

**Cmm_proofs**: PowerExact is about behaviours without a failure; `PowerInv`
bounds the uses of a unit by the failures so far. LutExact is about the time
between commits; `LutInv` says which tables are `Stale` during one (those begin
has not looked at), and that no other started channel has a wrong table.

- `PoweredWhileStarted`: `[]PowerExact`
- `TablesLoaded`: `[]LutExact`

**Encoders_proofs**: `Linked` are the CRTCs whose bridge is enabled at a point of a
commit, as Started are those of the CRTC handlers. `ClockInv` and `LitInv` say what
the encoders of both are set up for as long as no call failed: on D3 and E3 the bridge
and the CRTC set up the same PLL in either order, and the steps of one rely on what is
known of the other. `QuietInv` says that elsewhere an encoder out of use has nothing on,
failures included, and `CountInv` bounds the clock counts within a commit. `LinksInv`
ties the bridges still to be handled to the mode set.

- `ClockWhileStarted`: `[]DotClockRuns`
- `OutputsLit`: `[]LinksLit`
- `ClocksReturned`: `[]ClocksBalanced`

Clocks needs no strengthening: one mode set computes everything from a board and a
mode, which are any that BoardOK and ModeOK describe. What is to be shown is
arithmetic over what the searches try: that every setting tried is in the ranges
(`LvdsPllCalcInRange`) or every multiplier within its limits, that something is
tried at all (`PredividersInRange`, `MultipliersInRange`: the rounding at neither end
of the ranges excludes the other), and that `First` takes one with the least
difference (`FirstFound`), so that the result is as good as one setting known to
be good. For the DSI PLL that one is `NearMultiplier`: with the eighth of the
reference clock, or the fifth if that would need more than 625 steps, the oscillator
comes within 1/128 of the rate.

- `TimingsDescribeDisplay`: `[]TimingsFit`
- `DividersClose`: `[]DividerClose`, with `DividerAccessible`: where the divider gives
  the dot clock, ESCR can be written
- `LvdsPllInRange`: `[]PllInRange`
- `TransmittersReady`: `[]TransmitterReady`

**VspBuffers_proofs**: `OwnerInv` says that owners exclude each other, `AgeInv` that
none is of a commit to come, which makes MappingsOwned inductive. JobsWritten
needs that jobs are in the same order in the queue and in the frames (`OrderInv`),
that a queued job the VSP has not written is in a frame, or about to be (`JobInv`),
and for that, that no frame is dropped: the VSP has one unfinished frame between commits and two at
most (`FlipInv`). The refinement rests on `AccessInv`, inductive relative to IInv: until
an active CRTC is reset, the frames read states on display that are current, or
replaced by the commit in progress, and by the time that commit is done the one
frame left reads current states only.

- `NothingLeaked`: `[]MappingsOwned`
- `JobsInOrder`: `[]JobsWritten`
- `ImplementsMappings`: the initial states are those of Mappings, and every step
  prepares, lets go, unmaps or accesses as Mappings allows, or is a stutter

For FrameBuffers, `FbInv` keeps what the checks of rcar_du_fb_create() leave of a
pitch, and `DumbPitchAligned` is that rcar_du_dumb_create() rounds up to just what
they ask for, on each kind of device.

- `PitchesMatch`: `[]LinesMatch`

These modules also prove `[]TypeOK`, as part of the invariant.

Only model-checked: `PllClose`, the half of `DotClockClose` about PLLs (the other,
`DividerClose`, is proved). It is no property of the code alone: how close a
PLL can come depends on the crystal of the board (from a clock of 23 MHz, say, which
the LVDS PLL takes, no setting gives more than 127 MHz of the 148.5 MHz it may be
asked for), so that it can only hold for given boards, those of the run. Liveness
(`EventsDelivered`, `MappingsFollowLife` as a whole, `JobsSignalled`,
`EventuallyBound`) is out of reach of the prover; of the two refinements the safety
parts are proved, and that what is promised happens in the end is checked by TLC.

## 5. Not modelled

- The VSP1 driver, dw-hdmi, DRM core, driver core and clock framework: environment,
  external.
- `rcar_du_of.c`: rewrites the device tree once, before any driver.
- The branches of the allocator for planes fed by VSPD0 or VSPD1: only
  `rcar_du_plane_reset()` sets the source of a plane, to memory.
- The rewrite of DEFR8 when a plane update changes the group that reads VSPD1
  (`rcar_du_plane.c:576`): it writes the DPAD0 source that is there.
- Register values that no property tells apart (formats, colours, the constants
  of `rcar_du_group_setup()`), the PHY start-up of the DSI encoder.
- Suspend and resume (`rcar_du_drv.c:580`): calls into dw-hdmi around DRM helpers that
  commit a disabled state. The bridges are told of the suspend before the helper
  may fail, and are not told of the failure; what they do with it is not here.
- The write back and mute ioctls (`rcar_du_vsp.c:383`): their states are in the VSP1
  driver, which the ioctl only waits for. What is in this repository is
  rcar_du_async_commit() (`rcar_du_kms.c:532`), which enters a CRTC in the first slot of
  the commit whatever its index, with a duplicate of the DRM part of its state
  alone, and drops nothing when the duplication fails. A model of commits in
  which the slot and the index differ would be one of the DRM helpers.
- CRC sources: two fields of the state of a CRTC, set by a commit of their own and
  handed to the VSP at the flush.

## 6. Plan

Done: CommitTail, DuGroup, GroupRace, FlipEvents, PageFlip, PlaneAlloc, Cmm, Mappings,
VspBuffers, Encoders, Routing, Clocks, FrameBuffers and Probe, and the proofs listed
in section 4. Next: the interrupt handler beside the clocks that rcar_du_crtc_put()
turns off.
