-------------------------------- MODULE PageFlip --------------------------------
(***************************************************************************)
(* Page flip completion and vertical blanking of one CRTC.                 *)
(*                                                                         *)
(* Three actors touch the same state: the thread that applies commits      *)
(* (rcar_du_crtc.c), the interrupt handler rcar_du_crtc_irq(), and,        *)
(* on Gen3, the frame end callback rcar_du_vsp_complete().  A step is one  *)
(* critical section or one unlocked access.  Commits are numbered; the     *)
(* event of a commit and the frame it shows bear its number, 0 is NULL.    *)
(*                                                                         *)
(* The DRM core (vblank references, the wait for flip_done that ends a     *)
(* commit) and the display hardware are modelled from how the driver uses  *)
(* them.                                                                   *)
(***************************************************************************)
EXTENDS Naturals, Sequences, FiniteSets

CONSTANTS
  Gens,             \* generations of the hardware to consider, {2}, {3} or {2, 3}
  MaxCommit         \* bound: commits in a behaviour

ASSUME PageFlipAssumption ==
  /\ Gens \subseteq {2, 3}
  /\ MaxCommit \in Nat

VARIABLES
  gen,              \* info->gen
  cur, kind,        \* the last commit and what it does
  reset,            \* a commit has reset an active CRTC in this behaviour
  stalled,          \* the core gave up waiting for a flip in this behaviour
  pc,               \* next step of the commit thread
  state_event,      \* crtc->state->event
  event,            \* rcrtc->event
  fin, taken,       \* rcar_du_crtc_finish_page_flip() of each of its callers
  delivered,        \* events sent, in order
  vblank_on,        \* between drm_crtc_vblank_on() and drm_crtc_vblank_off()
  vref,             \* vblank references
  vbe,              \* DIER.VBE and rcrtc->vblank_enable
  vbk,              \* DSSR.VBK
  vblank_count,     \* rcrtc->vblank_count
  running,          \* the display controller generates frames
  dspr, planes,     \* planes are enabled in DSnPR; and on the screen
  written, scan     \* frame handed to the hardware; and on the screen

commit == <<gen, cur, kind, reset, stalled>>
flip == <<state_event, event, fin, taken, delivered>>
vblank == <<vblank_on, vref, vbe, vblank_count>>
hardware == <<running, dspr, planes, written, scan>>
vars == <<commit, pc, flip, vblank, vbk, hardware>>

Callers == {"irq", "thread"}
Events == 0..MaxCommit

TypeOK ==
  /\ gen \in Gens
  /\ cur \in Events /\ kind \in {"on", "off", "reset", "flip"}
  /\ reset \in BOOLEAN /\ stalled \in BOOLEAN
  /\ state_event \in Events /\ event \in Events
  /\ fin \in [Callers -> {"no", "take", "send", "put"}]
  /\ taken \in [Callers -> Events]
  /\ delivered \in Seq(Events)
  /\ vblank_on \in BOOLEAN /\ vref \in Nat /\ vbe \in BOOLEAN /\ vbk \in BOOLEAN
  /\ vblank_count \in 0..2
  /\ running \in BOOLEAN /\ dspr \in BOOLEAN /\ planes \in BOOLEAN
  /\ written \in Events /\ scan \in Events

Init ==
  /\ gen \in Gens
  /\ cur = 0 /\ kind = "off" /\ reset = FALSE /\ stalled = FALSE
  /\ pc = "idle"
  /\ state_event = 0 /\ event = 0
  /\ fin = [a \in Callers |-> "no"]
  /\ taken = [a \in Callers |-> 0]
  /\ delivered = <<>>
  /\ vblank_on = FALSE /\ vref = 0 /\ vbe = FALSE /\ vbk = FALSE
  /\ vblank_count = 0
  /\ running = FALSE /\ dspr = FALSE /\ planes = FALSE
  /\ written = 0 /\ scan = 0

At(label) == pc = label
Step(from, to) == pc = from /\ pc' = to

Delivered(n) == \E i \in DOMAIN delivered : delivered[i] = n

--------------------------------------------------------------------------------
(* DRM vblank references                                                     *)

\* drm_crtc_vblank_get(): the first reference enables the interrupt through
\* rcar_du_crtc_enable_vblank(), which clears a vertical blanking left pending.
VblankGet ==
  /\ vref' = vref + 1
  /\ vbe' = TRUE
  /\ vbk' = IF vbe THEN vbk ELSE FALSE
  /\ UNCHANGED <<vblank_on, vblank_count>>

\* drm_crtc_vblank_put(); the core disables the interrupt at some later time.
VblankPut == vref' = vref - 1 /\ UNCHANGED <<vblank_on, vbe, vblank_count>>

\* rcar_du_crtc_disable_vblank(), called by the core without a reference left.
DisableVblank ==
  /\ vref = 0 /\ vbe
  /\ vbe' = FALSE
  /\ UNCHANGED <<commit, pc, flip, vblank_on, vref, vblank_count, vbk, hardware>>

--------------------------------------------------------------------------------
(* rcar_du_crtc_finish_page_flip()                                           *)

\* Mutant of TakeEvent: the event is read and left armed.
TakeEventKept(a) ==
  /\ fin[a] = "take"
  /\ taken' = [taken EXCEPT ![a] = event]
  /\ fin' = [fin EXCEPT ![a] = IF event = 0 THEN "no" ELSE "send"]
  /\ UNCHANGED <<commit, pc, state_event, event, delivered, vblank, vbk, hardware>>

\* First section under event_lock: take the event.
TakeEvent(a) ==
  /\ fin[a] = "take"
  /\ taken' = [taken EXCEPT ![a] = event]
  /\ event' = 0
  /\ fin' = [fin EXCEPT ![a] = IF event = 0 THEN "no" ELSE "send"]
  /\ UNCHANGED <<commit, pc, state_event, delivered, vblank, vbk, hardware>>

\* Second section: send it, wake the waiter.
SendEvent(a) ==
  /\ fin[a] = "send"
  /\ delivered' = Append(delivered, taken[a])
  /\ taken' = [taken EXCEPT ![a] = 0]
  /\ fin' = [fin EXCEPT ![a] = "put"]
  /\ UNCHANGED <<commit, pc, state_event, event, vblank, vbk, hardware>>

\* Mutant of PutVblank: the reference of the flip is kept.
PutVblankForgotten(a) ==
  /\ fin[a] = "put"
  /\ fin' = [fin EXCEPT ![a] = "no"]
  /\ UNCHANGED <<commit, pc, state_event, event, taken, delivered, vblank, vbk, hardware>>

PutVblank(a) ==
  /\ fin[a] = "put"
  /\ fin' = [fin EXCEPT ![a] = "no"]
  /\ VblankPut
  /\ UNCHANGED <<commit, pc, state_event, event, taken, delivered, vbk, hardware>>

FinishPageFlip(a) == TakeEvent(a) \/ SendEvent(a) \/ PutVblank(a)

--------------------------------------------------------------------------------
(* Hardware and interrupts                                                   *)

\* A vertical blanking: the registers written so far take effect.
HwVblank ==
  /\ running
  /\ vbk' = TRUE
  /\ planes' = dspr
  /\ scan' = IF gen = 2 /\ dspr THEN written ELSE scan
  /\ UNCHANGED <<commit, pc, flip, vblank, running, dspr, written>>

\* rcar_du_crtc_irq(): the section under vblank_lock, then on Gen2 the flip.
CrtcIrq ==
  /\ vbk /\ vbe
  /\ gen < 3 => fin["irq"] = "no"
  /\ vbk' = FALSE
  /\ vblank_count' = IF vblank_count = 0 THEN 0 ELSE vblank_count - 1
  /\ fin' = IF gen < 3 THEN [fin EXCEPT !["irq"] = "take"] ELSE fin
  /\ UNCHANGED <<commit, pc, state_event, event, taken, delivered,
                 vblank_on, vref, vbe, hardware>>

\* Mutant of VspComplete: every frame end counts, whatever its status.
VspCompleteAnyStatus ==
  /\ gen = 3 /\ running
  /\ fin["irq"] = "no"
  /\ \/ scan' = written
     \/ scan' = scan
  /\ fin' = [fin EXCEPT !["irq"] = "take"]
  /\ UNCHANGED <<commit, pc, state_event, event, taken, delivered, vblank, vbk,
                 running, dspr, planes, written>>

\* A frame end at which the VSP takes the queued frame: rcar_du_vsp_complete()
\* is called with VSP1_DU_STATUS_COMPLETE.
VspComplete ==
  /\ gen = 3 /\ running /\ written # scan
  /\ fin["irq"] = "no"
  /\ scan' = written
  /\ fin' = [fin EXCEPT !["irq"] = "take"]
  /\ UNCHANGED <<commit, pc, state_event, event, taken, delivered, vblank, vbk,
                 running, dspr, planes, written>>

--------------------------------------------------------------------------------
(* A commit starts                                                           *)

\* The core hands the driver a commit with an event: to turn the CRTC on or
\* off, to reset an active one (a mode set that leaves it active), or to flip.
StartCommit ==
  /\ At("idle") /\ cur < MaxCommit
  /\ cur' = cur + 1
  /\ state_event' = cur + 1
  /\ \/ kind = "off" /\ kind' = "on" /\ pc' = "setup"
     \/ kind # "off" /\ kind' \in {"off", "reset"} /\ pc' = "vblank_get"
     \/ kind # "off" /\ kind' = "flip" /\ pc' = "planes"
  /\ reset' = (reset \/ kind' = "reset")
  /\ UNCHANGED <<gen, stalled, event, fin, taken, delivered, vblank, vbk, hardware>>

\* drm_atomic_helper_wait_for_flip_done(): the event was sent, ...
WaitFlipDone ==
  /\ Step("wait", "idle")
  /\ Delivered(cur)
  /\ UNCHANGED <<commit, flip, vblank, vbk, hardware>>

\* ... or ten seconds have passed: time enough for any handler that runs to
\* return, not for stalled hardware.
FlipDoneTimeout ==
  /\ Step("wait", "idle")
  /\ ~Delivered(cur) /\ fin["irq"] = "no"
  /\ stalled' = TRUE
  /\ UNCHANGED <<gen, cur, kind, reset, flip, vblank, vbk, hardware>>

--------------------------------------------------------------------------------
(* rcar_du_crtc_atomic_disable()                                             *)

\* rcar_du_crtc_disable_planes(): keep the interrupt on, ...
KeepVblank ==
  /\ Step("vblank_get", "disable_planes")
  /\ VblankGet
  /\ UNCHANGED <<commit, flip, hardware>>

\* Mutant of DisablePlanes: a pending vertical blanking is not considered.
DisablePlanesCountOne ==
  /\ Step("disable_planes", "vblank_wait")
  /\ dspr' = FALSE
  /\ vblank_count' = 1
  /\ UNCHANGED <<commit, flip, vblank_on, vref, vbe, vbk, running, planes, written, scan>>

\* ... under vblank_lock, write DSnPR and count the interrupts to wait for, one
\* more when a vertical blanking is pending, ...
DisablePlanes ==
  /\ Step("disable_planes", "vblank_wait")
  /\ dspr' = FALSE
  /\ vblank_count' = IF vbk THEN 2 ELSE 1
  /\ UNCHANGED <<commit, flip, vblank_on, vref, vbe, vbk, running, planes, written, scan>>

\* ... and wait for them for 100 ms at most.
WaitVblank ==
  /\ Step("vblank_wait", "vblank_put")
  /\ vblank_count = 0
  /\ UNCHANGED <<commit, flip, vblank, vbk, hardware>>

VblankTimeout ==
  /\ Step("vblank_wait", "vblank_put")
  /\ vblank_count # 0
  /\ UNCHANGED <<commit, flip, vblank, vbk, hardware>>

ReleaseVblank ==
  /\ Step("vblank_put", "flip_wait")
  /\ VblankPut
  /\ UNCHANGED <<commit, flip, vbk, hardware>>

\* rcar_du_crtc_wait_page_flip(): no flip is pending, ...
WaitPageFlip ==
  /\ Step("flip_wait", "vblank_off")
  /\ event = 0
  /\ UNCHANGED <<commit, flip, vblank, vbk, hardware>>

\* Mutant of PageFlipTimeout: the thread gives up and leaves the flip armed.
PageFlipTimeoutIgnored ==
  /\ Step("flip_wait", "vblank_off")
  /\ event # 0
  /\ UNCHANGED <<commit, flip, vblank, vbk, hardware>>

\* ... or after 50 ms the thread finishes it itself.
PageFlipTimeout ==
  /\ Step("flip_wait", "flip_finish")
  /\ event # 0
  /\ fin' = [fin EXCEPT !["thread"] = "take"]
  /\ UNCHANGED <<commit, state_event, event, taken, delivered, vblank, vbk, hardware>>

PageFlipFinished ==
  /\ Step("flip_finish", "vblank_off")
  /\ fin["thread"] = "no"
  /\ UNCHANGED <<commit, flip, vblank, vbk, hardware>>

VblankOff ==
  /\ Step("vblank_off", "stop")
  /\ vblank_on' = FALSE
  /\ vbe' = FALSE
  /\ UNCHANGED <<commit, flip, vref, vblank_count, vbk, hardware>>

\* rcar_du_vsp_disable() drops the queued frame; the display stops.
StopDisplay ==
  /\ Step("stop", "send_event")
  /\ running' = FALSE
  /\ written' = scan
  /\ UNCHANGED <<commit, flip, vblank, vbk, dspr, planes, scan>>

\* The event of the new state is sent by the disable handler, so that a reset
\* has none left to arm; the next handler is that of the enable, if any.
SendStateEvent ==
  /\ At("send_event")
  /\ pc' = IF kind = "reset" THEN "setup" ELSE "wait"
  /\ delivered' = IF state_event = 0 THEN delivered ELSE Append(delivered, state_event)
  /\ state_event' = 0
  /\ UNCHANGED <<commit, event, fin, taken, vblank, vbk, hardware>>

--------------------------------------------------------------------------------
(* rcar_du_crtc_atomic_begin(), plane updates, atomic_flush(), atomic_enable() *)

\* rcar_du_crtc_setup(): planes off, vblank reporting on.
SetupCrtc ==
  /\ Step("setup", "planes")
  /\ dspr' = FALSE
  /\ vblank_on' = TRUE
  /\ vbe' = (vref > 0)
  /\ vbk' = IF vref > 0 THEN FALSE ELSE vbk
  /\ UNCHANGED <<commit, flip, vref, vblank_count, running, planes, written, scan>>

\* On Gen2 the plane registers are written before the flush ...
UpdatePlanes ==
  /\ Step("planes", "flush")
  /\ written' = IF gen = 2 THEN cur ELSE written
  /\ UNCHANGED <<commit, flip, vblank, vbk, running, dspr, planes, scan>>

\* ... which enables the planes of the CRTC in DSnPR, ...
EnablePlanes ==
  /\ Step("flush", IF state_event = 0 THEN "vsp" ELSE "flip_get")
  /\ dspr' = TRUE
  /\ UNCHANGED <<commit, flip, vblank, vbk, running, planes, written, scan>>

FlipGet ==
  /\ Step("flip_get", "arm")
  /\ VblankGet
  /\ UNCHANGED <<commit, flip, hardware>>

\* ... arms the event under event_lock, ...
ArmEvent ==
  /\ Step("arm", "vsp")
  /\ event' = state_event
  /\ state_event' = 0
  /\ UNCHANGED <<commit, fin, taken, delivered, vblank, vbk, hardware>>

\* ... and on Gen3 queues the frame in the VSP (rcar_du_vsp_atomic_flush()).
QueueFrame ==
  /\ Step("vsp", IF kind = "flip" THEN "wait" ELSE "start")
  /\ written' = IF gen = 3 THEN cur ELSE written
  /\ UNCHANGED <<commit, flip, vblank, vbk, running, dspr, planes, scan>>

StartDisplay ==
  /\ Step("start", "wait")
  /\ running' = TRUE
  /\ UNCHANGED <<commit, flip, vblank, vbk, dspr, planes, written, scan>>

--------------------------------------------------------------------------------
AtomicDisable ==
  \/ KeepVblank \/ DisablePlanes \/ WaitVblank \/ VblankTimeout \/ ReleaseVblank
  \/ WaitPageFlip \/ PageFlipTimeout \/ PageFlipFinished
  \/ VblankOff \/ StopDisplay \/ SendStateEvent

AtomicUpdate ==
  \/ SetupCrtc \/ UpdatePlanes
  \/ EnablePlanes \/ FlipGet \/ ArmEvent \/ QueueFrame
  \/ StartDisplay

Thread == AtomicDisable \/ AtomicUpdate \/ WaitFlipDone

Next ==
  \/ StartCommit \/ Thread \/ FlipDoneTimeout
  \/ \E a \in Callers : FinishPageFlip(a)
  \/ HwVblank \/ CrtcIrq \/ VspComplete \/ DisableVblank

\* Threads and interrupt handlers get to run, a running display has vertical
\* blankings and the VSP reaches the end of its frames.
Fairness ==
  /\ WF_vars(Thread)
  /\ \A a \in Callers : WF_vars(FinishPageFlip(a))
  /\ WF_vars(HwVblank) /\ WF_vars(CrtcIrq) /\ WF_vars(VspComplete)

Spec == Init /\ [][Next]_vars /\ Fairness

--------------------------------------------------------------------------------
(* Properties *)

\* Events are delivered once, in order, and eventually ("userspace expects page
\* flips to eventually complete"): PageFlip implements FlipEvents.  An event is
\* lost only to hardware that stalled for so long that the core gave up: the next
\* flip then overwrites it (rcar_du_crtc.c:905), and is delivered itself.
Promise == INSTANCE FlipEvents WITH requested <- cur
EventsDelivered == Promise!Spec

\* Who holds a vblank reference and will drop it: an armed event, a page flip
\* being finished, the commit thread between get and put or get and arm.
RefOwners ==
  (IF event # 0 THEN {"event"} ELSE {})
    \cup {a \in Callers : fin[a] \in {"send", "put"}}
    \cup (IF pc \in {"disable_planes", "vblank_wait", "vblank_put", "arm"} THEN {"pc"} ELSE {})

\* Every vblank reference has an owner: none is dropped twice, so that the
\* interrupt is never disabled under a thread that waits for it, and none is
\* leaked by a flip that two actors finish.  Only an event that is overwritten
\* after a stall leaks its own.
RefsOwned ==
  /\ vref >= Cardinality(RefOwners)
  /\ ~stalled => vref = Cardinality(RefOwners)

\* A CRTC that is turned off leaves nothing behind: from the moment its clocks go
\* off until it is set up again no flip is armed, whoever finished the last one,
\* and the interrupt stays disabled: nobody waits for hardware that has stopped.
QuietWhenOff ==
  (~running /\ (pc = "send_event" \/ (kind = "off" /\ pc \in {"wait", "idle"})))
    => (event = 0 /\ ~vbe /\ fin["thread"] = "no")

\* When the wait of rcar_du_crtc_disable_planes() succeeds the planes are off the
\* screen ("wait for two vblank interrupts" if one was pending).
PlanesOff == (pc = "vblank_wait" /\ vblank_count = 0) => ~planes

\* "@event: event to post when the pending page flip completes" (rcar_du_crtc):
\* on Gen3 its frame is on the screen when the interrupt sends the event.  Not
\* after the reset of an active CRTC, whose own event was sent by the disable
\* handler, nor after a stall: the end of an earlier frame, which nobody waits for,
\* then finishes the flip that follows.
CompleteOnScreen ==
  (gen = 3 /\ ~reset /\ ~stalled /\ fin["irq"] = "send") => taken["irq"] <= scan
===============================================================================
