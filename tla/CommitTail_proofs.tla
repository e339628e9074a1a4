--------------------------- MODULE CommitTail_proofs ---------------------------
(***************************************************************************)
(* Facts about the tail of a commit, for the proofs about the components   *)
(* that run in it: what each of its steps does to the CRTCs that are       *)
(* started and to those that are acquired.                                 *)
(***************************************************************************)
EXTENDS CommitTail, TLAPS

\* During a commit every CRTC whose active flag changes is in modeset, modeset
\* is within scope, and the phase has only CRTCs of its own left to handle.
TailInv ==
  /\ TailTypeOK
  /\ stage # "idle" =>
       /\ (was \ active) \cup (active \ was) \subseteq modeset
       /\ modeset \subseteq scope
       /\ todo \subseteq Wanted(stage)
  /\ stage = "idle" => todo = {}

\* CRTCs whose flush handler has run for the current commit.
Flushed ==
  IF stage = "flush" THEN Wanted("flush") \ todo
  ELSE IF stage = "enable" THEN Wanted("flush") ELSE {}

\* The tail starts idle, with no CRTC started or acquired.
LEMMA TailInitial ==
  TailInit => TailInv /\ Started = {} /\ Acquired = {} /\ Flushed = {}
BY DEF TailInit, TailInv, TailTypeOK, Phases, Started, Acquired, Flushed

\* Starting a commit leaves the CRTCs that are started and acquired alone.
LEMMA TailStart ==
  ASSUME TailInv,
         NEW S \in SUBSET Crtcs, NEW M \in SUBSET Crtcs, NEW A \in SUBSET Crtcs,
         StartCommit(S, M, A)
  PROVE  TailInv' /\ Started' = Started /\ Acquired' = Acquired /\ Flushed' = Flushed
<1>1. TailInv'
  BY DEF TailInv, TailTypeOK, StartCommit, Phases, Wanted
<1>2. Started' = Started /\ Acquired' = Acquired
  BY DEF TailInv, TailTypeOK, StartCommit, Started, Acquired, Stopped, Enabled, Begun, Wanted
<1>3. Flushed' = Flushed
  BY DEF StartCommit, Flushed
<1> QED  BY <1>1, <1>2, <1>3

\* So does the step from a phase to the next, the end of the commit included:
\* then those started, and those acquired, are exactly the active ones.
LEMMA TailNextPhase ==
  ASSUME TailInv, NextPhase
  PROVE  /\ TailInv'
         /\ Started' = Started /\ Acquired' = Acquired
         /\ stage # "enable" => Flushed' = Flushed
         /\ stage = "enable" => Started = active /\ Flushed = scope \cap active
<1>1. TailInv'
  BY DEF TailInv, TailTypeOK, NextPhase, Phases, Wanted, Following
<1>2. CASE stage = "disable"
  <2>1. stage' = "begin"
    BY <1>2 DEF NextPhase, Following
  <2> QED
    BY <1>1, <1>2, <2>1
    DEF TailInv, NextPhase, Started, Acquired, Flushed, Stopped, Enabled, Begun, Wanted
<1>3. CASE stage = "begin"
  <2>1. stage' = "flush"
    BY <1>3 DEF NextPhase, Following
  <2> QED
    BY <1>1, <1>3, <2>1
    DEF TailInv, NextPhase, Started, Acquired, Flushed, Stopped, Enabled, Begun, Wanted
<1>4. CASE stage = "flush"
  <2>1. stage' = "enable"
    BY <1>4 DEF NextPhase, Following
  <2> QED
    BY <1>1, <1>4, <2>1
    DEF TailInv, NextPhase, Started, Acquired, Flushed, Stopped, Enabled, Begun, Wanted
<1>5. CASE stage = "enable"
  <2>1. stage' = "idle" /\ active' = active
    BY <1>5 DEF NextPhase, Following
  <2>2. Started = (was \ (modeset \cap was)) \cup (modeset \cap active)
    BY <1>5 DEF NextPhase, Started, Stopped, Enabled, Wanted
  <2>3. Acquired = (was \ (modeset \cap was)) \cup (scope \cap active)
    BY <1>5 DEF Acquired, Stopped, Begun, Wanted
  <2>4. Started = active /\ Acquired = active
    BY <1>5, <2>2, <2>3 DEF TailInv, TailTypeOK
  <2>5. Flushed = scope \cap active
    BY <1>5 DEF Flushed, Wanted
  <2> QED  BY <1>1, <1>5, <2>1, <2>4, <2>5 DEF Started, Acquired
<1> QED  BY <1>2, <1>3, <1>4, <1>5 DEF TailInv, TailTypeOK, NextPhase, Phases

\* A disable handler stops and releases a CRTC that was started and acquired.
LEMMA TailDisable ==
  ASSUME TailInv, NEW c \in Crtcs, Handle("disable", c)
  PROVE  /\ TailInv'
         /\ c \in Started /\ Started' = Started \ {c}
         /\ c \in Acquired /\ Acquired' = Acquired \ {c}
         /\ c \in scope /\ c \in modeset /\ Flushed = {} /\ Flushed' = {}
<1>1. TailInv'
  BY DEF TailInv, TailTypeOK, Handle, Wanted
<1>2. c \in Started /\ Started' = Started \ {c}
  BY DEF TailInv, Handle, Started, Stopped, Enabled, Wanted
<1>3. c \in Acquired /\ Acquired' = Acquired \ {c}
  BY DEF TailInv, Handle, Acquired, Stopped, Begun, Wanted
<1>4. c \in scope /\ c \in modeset /\ Flushed = {} /\ Flushed' = {}
  BY DEF TailInv, TailTypeOK, Handle, Wanted, Flushed
<1> QED  BY <1>1, <1>2, <1>3, <1>4

\* A begin handler acquires its CRTC, if it was not already.  Only a mode set
\* begins a CRTC that was not.
LEMMA TailBegin ==
  ASSUME TailInv, NEW c \in Crtcs, Handle("begin", c)
  PROVE  /\ TailInv'
         /\ Started' = Started
         /\ Acquired' = Acquired \cup {c}
         /\ c \notin Acquired => c \in modeset
         /\ c \in scope /\ Flushed = {} /\ Flushed' = {}
<1>1. TailInv'
  BY DEF TailInv, TailTypeOK, Handle, Wanted
<1>2. Started' = Started
  BY DEF TailInv, Handle, Started, Stopped, Enabled, Wanted
<1>3. Acquired' = Acquired \cup {c}
  BY DEF TailInv, Handle, Acquired, Stopped, Begun, Wanted
<1>4. c \notin Acquired => c \in modeset
  BY DEF TailInv, Handle, Acquired, Stopped, Begun, Wanted
<1>5. c \in scope /\ Flushed = {} /\ Flushed' = {}
  BY DEF TailInv, TailTypeOK, Handle, Wanted, Flushed
<1> QED  BY <1>1, <1>2, <1>3, <1>4, <1>5

\* A flush handler does neither: its CRTC is active, and acquired.  Unless the
\* commit sets modes it is also started; if no CRTC is, all those flushed will be.
LEMMA TailFlush ==
  ASSUME TailInv, NEW c \in Crtcs, Handle("flush", c)
  PROVE  /\ TailInv'
         /\ Started' = Started
         /\ Acquired' = Acquired
         /\ c \in active /\ c \in Acquired /\ c \in scope
         /\ c \notin Flushed /\ Flushed' = Flushed \cup {c}
         /\ modeset = {} => c \in Started
         /\ Started = {} => Flushed \cup {c} \subseteq Wanted("enable")
<1>1. TailInv'
  BY DEF TailInv, TailTypeOK, Handle, Wanted
<1>2. Started' = Started
  BY DEF TailInv, Handle, Started, Stopped, Enabled, Wanted
<1>3. Acquired' = Acquired /\ c \in active /\ c \in Acquired
  BY DEF TailInv, Handle, Acquired, Stopped, Begun, Wanted
<1>4. c \in scope /\ c \notin Flushed /\ Flushed' = Flushed \cup {c}
  BY DEF TailInv, TailTypeOK, Handle, Wanted, Flushed
<1>5. modeset = {} => c \in Started
  BY DEF TailInv, Handle, Started, Stopped, Enabled, Wanted
<1>6. Started = {} => Flushed \cup {c} \subseteq Wanted("enable")
  BY DEF TailInv, Handle, Started, Stopped, Enabled, Wanted, Flushed
<1> QED  BY <1>1, <1>2, <1>3, <1>4, <1>5, <1>6

\* An enable handler starts a CRTC that was not started, and was acquired by the
\* begin handler of the same commit.
LEMMA TailEnable ==
  ASSUME TailInv, NEW c \in Crtcs, Handle("enable", c)
  PROVE  /\ TailInv'
         /\ c \notin Started /\ Started' = Started \cup {c}
         /\ c \in Acquired /\ Acquired' = Acquired
         /\ c \in scope /\ c \in Flushed /\ Flushed' = Flushed
<1>1. TailInv'
  BY DEF TailInv, TailTypeOK, Handle, Wanted
<1>2. c \notin Started /\ Started' = Started \cup {c}
  BY DEF TailInv, Handle, Started, Stopped, Enabled, Wanted
<1>3. c \in Acquired /\ Acquired' = Acquired
  BY DEF TailInv, Handle, Acquired, Stopped, Begun, Wanted
<1>4. c \in scope /\ c \in Flushed /\ Flushed' = Flushed
  BY DEF TailInv, TailTypeOK, Handle, Wanted, Flushed
<1> QED  BY <1>1, <1>2, <1>3, <1>4

\* Started and acquired CRTCs are CRTCs.
LEMMA TailSubsets ==
  ASSUME TailInv
  PROVE  Started \subseteq Crtcs /\ Acquired \subseteq Crtcs /\ Flushed \subseteq Crtcs
BY DEF TailInv, TailTypeOK, Started, Acquired, Stopped, Enabled, Begun, Wanted, Flushed

\* What a step that leaves the tail alone leaves alone.
LEMMA TailStutter ==
  ASSUME TailInv, UNCHANGED tail
  PROVE  TailInv' /\ Started' = Started /\ Acquired' = Acquired /\ Flushed' = Flushed
BY DEF TailInv, TailTypeOK, tail, Started, Acquired, Stopped, Enabled, Begun, Wanted, Flushed
================================================================================
