------------------------------ MODULE CommitTail ------------------------------
(***************************************************************************)
(* The frame every component of the driver runs in: the tail of one DRM    *)
(* atomic commit, in the order rcar_du_atomic_commit_tail() gives its      *)
(* three phases.  A commit names the CRTCs in its state (scope), those     *)
(* that need a full mode set (modeset) and the active flag each one ends   *)
(* with.  The software state is swapped before the tail runs, so `active'  *)
(* is the new state all along and `was' the old one.                       *)
(*                                                                         *)
(*   disable : crtc .atomic_disable, for CRTCs of modeset that were active *)
(*   begin   : crtc .atomic_begin,   for CRTCs of scope that are active    *)
(*   flush   : crtc .atomic_flush,   for the same CRTCs                    *)
(*   enable  : crtc .atomic_enable,  for CRTCs of modeset that are active  *)
(*                                                                         *)
(* Within a phase the CRTCs are taken in index order.  Components extend   *)
(* this module, and conjoin Handle(phase, c) to what they do for c.        *)
(***************************************************************************)
EXTENDS Naturals

CONSTANT Crtcs            \* hardware indices of the CRTCs

ASSUME CrtcsAssumption == Crtcs \subseteq Nat

VARIABLES
  stage,                  \* phase of the commit in progress, or "idle"
  scope,                  \* CRTCs in the atomic state
  modeset,                \* CRTCs of scope with needs_modeset
  was,                    \* active CRTCs in the old state
  active,                 \* active CRTCs in the new (current) state
  todo                    \* CRTCs the phase still has to handle

tail == <<stage, scope, modeset, was, active, todo>>

Phases == {"disable", "begin", "flush", "enable"}

TailTypeOK ==
  /\ stage \in Phases \cup {"idle"}
  /\ scope \subseteq Crtcs
  /\ modeset \subseteq Crtcs
  /\ was \subseteq Crtcs
  /\ active \subseteq Crtcs
  /\ todo \subseteq Crtcs

\* The CRTCs a phase calls the driver for.
Wanted(phase) ==
  IF phase = "disable" THEN modeset \cap was
  ELSE IF phase \in {"begin", "flush"} THEN scope \cap active
  ELSE IF phase = "enable" THEN modeset \cap active
  ELSE {}

Following(phase) ==
  IF phase = "disable" THEN "begin"
  ELSE IF phase = "begin" THEN "flush"
  ELSE IF phase = "flush" THEN "enable"
  ELSE "idle"

TailInit ==
  /\ stage = "idle"
  /\ scope = {} /\ modeset = {} /\ was = {} /\ active = {} /\ todo = {}

\* A checked commit of the CRTCs S reaches its tail.  M are those that need a
\* mode set, which every CRTC whose active flag changes does; A are the CRTCs
\* active once it is applied.
StartCommit(S, M, A) ==
  /\ stage = "idle"
  /\ (active \ A) \cup (A \ active) \subseteq M
  /\ M \subseteq S
  /\ stage' = "disable"
  /\ scope' = S
  /\ modeset' = M
  /\ was' = active
  /\ active' = A
  /\ todo' = M \cap active

\* The phase has handled all its CRTCs.
NextPhase ==
  /\ stage # "idle"
  /\ todo = {}
  /\ stage' = Following(stage)
  /\ todo' = Wanted(stage')
  /\ UNCHANGED <<scope, modeset, was, active>>

\* c is the CRTC the phase handles now.
Handle(phase, c) ==
  /\ stage = phase
  /\ c \in todo
  /\ \A d \in todo : c <= d
  /\ todo' = todo \ {c}
  /\ UNCHANGED <<stage, scope, modeset, was, active>>

\* CRTCs whose disable, respectively begin, respectively enable handler has run
\* for the current commit, or that were brought to that state by an earlier one.
Stopped ==
  IF stage = "disable" THEN Wanted("disable") \ todo
  ELSE IF stage = "idle" THEN {} ELSE Wanted("disable")

Begun ==
  IF stage = "begin" THEN Wanted("begin") \ todo
  ELSE IF stage \in {"flush", "enable"} THEN Wanted("begin") ELSE {}

Enabled ==
  IF stage = "enable" THEN Wanted("enable") \ todo ELSE {}

\* Between commits `active' is the whole story; during one, the CRTCs that are
\* started are those active before it, less the stopped, plus the enabled.
Started ==
  IF stage = "idle" THEN active ELSE (was \ Stopped) \cup Enabled

\* Likewise for the CRTCs that went through rcar_du_crtc_get().
Acquired ==
  IF stage = "idle" THEN active ELSE (was \ Stopped) \cup Begun
===============================================================================
