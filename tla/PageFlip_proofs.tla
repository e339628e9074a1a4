---------------------------- MODULE PageFlip_proofs ----------------------------
(***************************************************************************)
(* Proofs about PageFlip, for any bound on the number of commits and either *)
(* generation: the safety properties of the runs, and that every step is a *)
(* step of FlipEvents or leaves what it speaks of alone.                   *)
(***************************************************************************)
EXTENDS PageFlip, FiniteSetTheorems, TLAPS

--------------------------------------------------------------------------------
(* The inductive invariant                                                   *)

Labels ==
  {"idle", "setup", "vblank_get", "disable_planes", "vblank_wait", "vblank_put",
   "flip_wait", "flip_finish", "vblank_off", "stop", "send_event", "planes", "flush",
   "flip_get", "arm", "vsp", "start", "wait"}

\* Steps of a commit on a CRTC that is being turned off, or reset.
Disabling ==
  {"vblank_get", "disable_planes", "vblank_wait", "vblank_put", "flip_wait",
   "flip_finish", "vblank_off", "stop", "send_event"}

\* What the commit thread is at says what it commits, and whether the event of
\* the commit has left the state: only that of a reset does so in the disable
\* handler.
ThreadInv ==
  /\ pc \in Labels
  /\ pc # "idle" => cur > 0
  /\ pc \in Disabling => kind \in {"off", "reset"}
  /\ kind = "off" => pc \in Disabling \cup {"wait", "idle"}
  /\ kind = "reset" => reset
  /\ pc \in Disabling \cup {"flip_get", "arm"} => state_event # 0
  /\ pc \in {"setup", "planes", "flush"} /\ state_event = 0 => kind = "reset"
  /\ pc \in {"vsp", "start", "wait", "idle"} => state_event = 0
  /\ fin["thread"] # "no" => pc = "flip_finish"

\* The events under way: each is asked for, not delivered, and in one place.
DistinctInv ==
  /\ state_event \in {0, cur} /\ event \in 0..cur
  /\ event # 0 => event # state_event
  /\ \A a \in Callers :
       /\ taken[a] \in 0..cur
       /\ taken[a] # 0 <=> fin[a] = "send"
       /\ taken[a] # 0 => taken[a] # state_event /\ taken[a] # event
  /\ taken["irq"] # 0 => taken["irq"] # taken["thread"]
  /\ \A i \in DOMAIN delivered :
       /\ delivered[i] \in 1..cur
       /\ delivered[i] # state_event /\ delivered[i] # event
       /\ \A a \in Callers : delivered[i] # taken[a]

\* Unless the hardware stalled all events are delivered in order, but for that of
\* the commit in progress, which is then in one of the four places.
OrderInv ==
  ~stalled =>
    /\ \A i \in DOMAIN delivered : delivered[i] = i
    /\ Len(delivered) \in {cur - 1, cur}
    /\ Len(delivered) = cur =>
         state_event = 0 /\ event = 0 /\ \A a \in Callers : taken[a] = 0
    /\ Len(delivered) # cur =>
         /\ cur \in {state_event, event, taken["irq"], taken["thread"]}
         /\ state_event \in {0, cur} /\ event \in {0, cur}
         /\ \A a \in Callers : taken[a] \in {0, cur}
    /\ pc = "idle" => Len(delivered) = cur

\* RefsOwned, as a sum that a step changes in one place.
One(P) == IF P THEN 1 ELSE 0
Owned ==
  One(event # 0) + One(fin["irq"] \in {"send", "put"}) + One(fin["thread"] \in {"send", "put"})
    + One(pc \in {"disable_planes", "vblank_wait", "vblank_put", "arm"})
RefsInv == vref >= Owned /\ (~stalled => vref = Owned)

\* Once the thread knows that no flip is pending none will be armed before the
\* next flush; nor is the interrupt enabled before the next setup.
QuietInv ==
  /\ pc = "flip_finish" /\ fin["thread"] # "take" => event = 0
  /\ pc \in {"vblank_off", "stop", "send_event"} => event = 0
  /\ kind = "off" /\ pc \in {"wait", "idle"} => event = 0
  /\ pc \in {"stop", "send_event"} \/ (kind = "off" /\ pc \in {"wait", "idle"}) => ~vbe

\* While planes are on the screen that were disabled, the count is what the
\* pending and the coming vertical blanking will take from it.
PlanesInv ==
  pc = "vblank_wait" => ~dspr /\ (planes => vblank_count = IF vbk THEN 2 ELSE 1)

\* On Gen3 a frame that is handed over and not yet shown, and a frame end that is
\* being handled, are those of the flip in progress.
ScanInv ==
  gen = 3 /\ ~reset /\ ~stalled =>
    /\ written # scan => /\ written = cur /\ event = cur /\ pc \in {"start", "wait"}
                         /\ fin["irq"] \in {"no", "put"}
    /\ fin["irq"] = "take" => event = cur /\ scan = cur /\ pc \in {"start", "wait"}
    /\ fin["irq"] = "send" => scan = cur /\ pc \in {"start", "wait"}
    /\ pc = "vsp" => event = cur

IInv ==
  /\ TypeOK
  /\ ThreadInv
  /\ DistinctInv
  /\ OrderInv
  /\ RefsInv
  /\ QuietInv
  /\ PlanesInv
  /\ ScanInv

--------------------------------------------------------------------------------
(* Lemmas                                                                    *)

\* The steps that touch the events under way, or end a commit; all others leave
\* the events alone.
LEMMA EventSteps ==
  ASSUME Next
  PROVE  \/ UNCHANGED <<cur, stalled, flip>> /\ (pc' = "idle" => pc = "idle")
         \/ StartCommit \/ WaitFlipDone \/ FlipDoneTimeout
         \/ PageFlipTimeout \/ SendStateEvent \/ ArmEvent
         \/ \E a \in Callers : FinishPageFlip(a)
         \/ CrtcIrq \/ VspComplete
BY DEF Next, Thread, AtomicDisable, AtomicUpdate, KeepVblank, DisablePlanes, WaitVblank,
       VblankTimeout, ReleaseVblank, WaitPageFlip, PageFlipFinished, VblankOff, StopDisplay,
       SetupCrtc, UpdatePlanes, EnablePlanes, FlipGet, QueueFrame, StartDisplay,
       HwVblank, DisableVblank, Step, commit, flip

\* Delivering an event adds it after those delivered.
LEMMA Delivery ==
  ASSUME delivered \in Seq(Events), NEW e \in Events
  PROVE  /\ Append(delivered, e) \in Seq(Events)
         /\ Len(delivered) \in Nat
         /\ Len(Append(delivered, e)) = Len(delivered) + 1
         /\ DOMAIN delivered = 1..Len(delivered)
         /\ DOMAIN Append(delivered, e) = 1..(Len(delivered) + 1)
         /\ \A i \in DOMAIN delivered : Append(delivered, e)[i] = delivered[i]
         /\ Append(delivered, e)[Len(delivered) + 1] = e
OBVIOUS

\* Every owner of a vblank reference is one reference.
LEMMA OwnersCounted ==
  Cardinality(RefOwners) = Owned
<1> DEFINE P == pc \in {"disable_planes", "vblank_wait", "vblank_put", "arm"}
           Finishes(a) == fin[a] \in {"send", "put"}
           S0 == {}
           S1 == S0 \cup (IF event # 0 THEN {"event"} ELSE {})
           S2 == S1 \cup (IF Finishes("irq") THEN {"irq"} ELSE {})
           S3 == S2 \cup (IF Finishes("thread") THEN {"thread"} ELSE {})
           S4 == S3 \cup (IF P THEN {"pc"} ELSE {})
<1>0. IsFiniteSet(S0) /\ Cardinality(S0) = 0
  BY FS_EmptySet
<1>1. IsFiniteSet(S1) /\ Cardinality(S1) = Cardinality(S0) + One(event # 0)
  <2>1. "event" \notin S0
    OBVIOUS
  <2>2. CASE event # 0
    BY <1>0, <2>1, <2>2, FS_AddElement DEF One
  <2>3. CASE ~(event # 0)
    BY <1>0, <2>3, FS_CardinalityType DEF One
  <2> QED  BY <2>2, <2>3
<1>2. IsFiniteSet(S2) /\ Cardinality(S2) = Cardinality(S1) + One(Finishes("irq"))
  <2>1. "irq" \notin S1
    OBVIOUS
  <2>2. CASE Finishes("irq")
    BY <1>1, <2>1, <2>2, FS_AddElement DEF One
  <2>3. CASE ~(Finishes("irq"))
    BY <1>1, <2>3, FS_CardinalityType DEF One
  <2> QED  BY <2>2, <2>3
<1>3. IsFiniteSet(S3) /\ Cardinality(S3) = Cardinality(S2) + One(Finishes("thread"))
  <2>1. "thread" \notin S2
    OBVIOUS
  <2>2. CASE Finishes("thread")
    BY <1>2, <2>1, <2>2, FS_AddElement DEF One
  <2>3. CASE ~(Finishes("thread"))
    BY <1>2, <2>3, FS_CardinalityType DEF One
  <2> QED  BY <2>2, <2>3
<1>4. IsFiniteSet(S4) /\ Cardinality(S4) = Cardinality(S3) + One(P)
  <2>1. "pc" \notin S3
    OBVIOUS
  <2>2. CASE P
    BY <1>3, <2>1, <2>2, FS_AddElement DEF One
  <2>3. CASE ~(P)
    BY <1>3, <2>3, FS_CardinalityType DEF One
  <2> QED  BY <2>2, <2>3
<1>5. RefOwners = S4
  BY DEF RefOwners, Callers
<1> HIDE DEF S0, S1, S2, S3, S4
<1> QED  BY <1>0, <1>1, <1>2, <1>3, <1>4, <1>5 DEF Owned, One

--------------------------------------------------------------------------------
(* Each part of the invariant is preserved                                   *)

\* The commit thread goes from label to label.
LEMMA ThreadPreserved ==
  ASSUME IInv, Next
  PROVE  ThreadInv'
<1> USE DEF IInv, TypeOK, ThreadInv, Labels, Disabling, Callers, At, Step, commit, flip
<1>1. CASE StartCommit
  <2>1. kind' = "reset" => reset'
    BY <1>1 DEF StartCommit
  <2> QED  BY <1>1, <2>1 DEF StartCommit, Events
<1>2. CASE AtomicDisable
  BY <1>2 DEF AtomicDisable, KeepVblank, DisablePlanes, WaitVblank, VblankTimeout,
     ReleaseVblank, WaitPageFlip, PageFlipTimeout, PageFlipFinished, VblankOff,
     StopDisplay, SendStateEvent
<1>3. CASE AtomicUpdate
  BY <1>3 DEF AtomicUpdate, SetupCrtc, UpdatePlanes, EnablePlanes, FlipGet, ArmEvent,
     QueueFrame, StartDisplay
<1>4. CASE WaitFlipDone \/ FlipDoneTimeout
  BY <1>4 DEF WaitFlipDone, FlipDoneTimeout
<1>5. ASSUME NEW a \in Callers, FinishPageFlip(a) PROVE ThreadInv'
  BY <1>5 DEF FinishPageFlip, TakeEvent, SendEvent, PutVblank
<1>6. CASE HwVblank \/ CrtcIrq \/ VspComplete \/ DisableVblank
  BY <1>6 DEF HwVblank, CrtcIrq, VspComplete, DisableVblank
<1> QED  BY <1>1, <1>2, <1>3, <1>4, <1>5, <1>6 DEF Next, Thread

\* No event is ever in two places: the section under event_lock that takes it
\* leaves none armed, and the disable handler arms none.
LEMMA DistinctPreserved ==
  ASSUME IInv, Next
  PROVE  DistinctInv'
<1> USE DEF IInv, TypeOK, ThreadInv, Disabling, Callers, DistinctInv, Step, commit, flip
<1>1. CASE UNCHANGED <<cur, flip>>
  BY <1>1
<1>2. CASE StartCommit
  BY <1>2 DEF StartCommit, Events
<1>3. CASE PageFlipTimeout
  BY <1>3 DEF PageFlipTimeout
<1>4. CASE SendStateEvent
  <2>1. state_event \in Events /\ state_event = cur
    BY <1>4 DEF SendStateEvent, At
  <2>2. delivered' = Append(delivered, state_event) /\ UNCHANGED <<cur, event, fin, taken>>
        /\ state_event' = 0
    BY <1>4 DEF SendStateEvent, At
  <2>3. \A i \in DOMAIN delivered' : \/ i \in DOMAIN delivered /\ delivered'[i] = delivered[i]
                                     \/ delivered'[i] = state_event
    BY <2>1, <2>2, Delivery
  <2>4. state_event # 0 /\ state_event \in 1..cur
    BY <1>4, <2>1 DEF SendStateEvent, At, Events
  <2> QED  BY <2>1, <2>2, <2>3, <2>4
<1>5. CASE ArmEvent
  BY <1>5 DEF ArmEvent
<1>6. ASSUME NEW a \in Callers, TakeEvent(a) PROVE DistinctInv'
  BY <1>6 DEF TakeEvent
<1>7. ASSUME NEW a \in Callers, SendEvent(a) PROVE DistinctInv'
  <2>1. taken[a] \in Events /\ taken[a] \in 1..cur
    BY <1>7 DEF SendEvent, Events
  <2>2. /\ delivered' = Append(delivered, taken[a])
        /\ taken' = [taken EXCEPT ![a] = 0] /\ fin' = [fin EXCEPT ![a] = "put"]
        /\ UNCHANGED <<cur, state_event, event>>
    BY <1>7 DEF SendEvent
  <2>3. \A i \in DOMAIN delivered' : \/ i \in DOMAIN delivered /\ delivered'[i] = delivered[i]
                                     \/ delivered'[i] = taken[a]
    BY <2>1, <2>2, Delivery
  <2> QED  BY <2>1, <2>2, <2>3
<1>8. ASSUME NEW a \in Callers, PutVblank(a) PROVE DistinctInv'
  BY <1>8 DEF PutVblank
<1>9. CASE CrtcIrq \/ VspComplete
  BY <1>9 DEF CrtcIrq, VspComplete
<1>10. CASE WaitFlipDone \/ FlipDoneTimeout
  BY <1>10 DEF WaitFlipDone, FlipDoneTimeout
<1> QED
  BY <1>1, <1>2, <1>3, <1>4, <1>5, <1>6, <1>7, <1>8, <1>9, <1>10, EventSteps
  DEF FinishPageFlip

\* Without a stall a commit ends only when its event is delivered, so that there is
\* one event at most and it is the next.
LEMMA OrderPreserved ==
  ASSUME IInv, Next
  PROVE  OrderInv'
<1> USE DEF IInv, TypeOK, ThreadInv, Disabling, Callers, DistinctInv, OrderInv, Step, At,
            commit, flip
<1>0. Len(delivered) \in Nat /\ DOMAIN delivered = 1..Len(delivered)
  OBVIOUS
<1>1. CASE UNCHANGED <<cur, stalled, flip>> /\ (pc' = "idle" => pc = "idle")
  BY <1>1
<1>2. CASE StartCommit
  BY <1>0, <1>2 DEF StartCommit, Events
<1>3. CASE PageFlipTimeout
  BY <1>3 DEF PageFlipTimeout
<1>4. CASE SendStateEvent
  <2> SUFFICES ASSUME ~stalled PROVE OrderInv'
    BY <1>4 DEF SendStateEvent
  <2>1. state_event \in Events /\ state_event = cur /\ cur > 0
    BY <1>4 DEF SendStateEvent
  <2>2. delivered' = Append(delivered, state_event) /\ UNCHANGED <<cur, event, fin, taken, stalled>>
        /\ state_event' = 0 /\ pc' # "idle"
    BY <1>4 DEF SendStateEvent
  <2>3. Len(delivered) = cur - 1
    BY <2>1
  <2>4. event = 0 /\ \A a \in Callers : taken[a] = 0
    BY <2>1, <2>3
  <2> QED  BY <2>1, <2>2, <2>3, <2>4, Delivery
<1>5. CASE ArmEvent
  BY <1>5 DEF ArmEvent
<1>6. ASSUME NEW a \in Callers, TakeEvent(a) PROVE OrderInv'
  BY <1>6 DEF TakeEvent
<1>7. ASSUME NEW a \in Callers, SendEvent(a) PROVE OrderInv'
  <2> SUFFICES ASSUME ~stalled PROVE OrderInv'
    BY <1>7 DEF SendEvent
  <2>1. taken[a] \in Events /\ taken[a] \in 1..cur
    BY <1>7 DEF SendEvent, Events
  <2>2. /\ delivered' = Append(delivered, taken[a])
        /\ taken' = [taken EXCEPT ![a] = 0] /\ fin' = [fin EXCEPT ![a] = "put"]
        /\ UNCHANGED <<cur, state_event, event, stalled, pc>>
    BY <1>7 DEF SendEvent
  <2>3. Len(delivered) # cur
    BY <2>1
  <2>4. Len(delivered) = cur - 1 /\ taken[a] = cur /\ pc # "idle"
    BY <2>1, <2>3
  <2>5. state_event = 0 /\ event = 0 /\ \A b \in Callers : b # a => taken[b] = 0
    BY <2>1, <2>3, <2>4
  <2> QED  BY <2>1, <2>2, <2>3, <2>4, <2>5, Delivery
<1>8. ASSUME NEW a \in Callers, PutVblank(a) PROVE OrderInv'
  BY <1>8 DEF PutVblank
<1>9. CASE CrtcIrq \/ VspComplete
  BY <1>9 DEF CrtcIrq, VspComplete
<1>10. CASE WaitFlipDone
  BY <1>0, <1>10 DEF WaitFlipDone, Delivered, Events
<1>11. CASE FlipDoneTimeout
  BY <1>11 DEF FlipDoneTimeout
<1> QED
  BY <1>1, <1>2, <1>3, <1>4, <1>5, <1>6, <1>7, <1>8, <1>9, <1>10, <1>11, EventSteps
  DEF FinishPageFlip

\* Every get has its put: what arms or finishes a flip passes its reference on.
LEMMA RefsPreserved ==
  ASSUME IInv, Next
  PROVE  RefsInv' /\ vref' \in Nat
<1> USE DEF IInv, TypeOK, ThreadInv, Disabling, Callers, RefsInv, Owned, One, Step, At,
            commit, flip, vblank, hardware
<1>1. CASE StartCommit
  BY <1>1 DEF StartCommit
<1>2. CASE KeepVblank \/ FlipGet
  <2>1. vref' = vref + 1 /\ UNCHANGED <<stalled, event, fin>>
    BY <1>2 DEF KeepVblank, FlipGet, VblankGet
  <2>2. pc \in {"vblank_get", "flip_get"} /\ pc' \in {"disable_planes", "arm"}
    BY <1>2 DEF KeepVblank, FlipGet
  <2> QED  BY <2>1, <2>2
<1>3. CASE ReleaseVblank
  BY <1>3 DEF ReleaseVblank, VblankPut
<1>4. CASE PageFlipTimeout
  BY <1>4 DEF PageFlipTimeout
<1>5. CASE ArmEvent
  <2>1. ~stalled => event = 0
    BY <1>5 DEF ArmEvent, DistinctInv, OrderInv
  <2> QED  BY <1>5, <2>1 DEF ArmEvent
<1>6. CASE DisablePlanes \/ WaitVblank \/ VblankTimeout \/ WaitPageFlip \/ PageFlipFinished
  BY <1>6 DEF DisablePlanes, WaitVblank, VblankTimeout, WaitPageFlip, PageFlipFinished
<1>7. CASE VblankOff \/ StopDisplay \/ SendStateEvent
  BY <1>7 DEF VblankOff, StopDisplay, SendStateEvent
<1>8. CASE SetupCrtc \/ UpdatePlanes \/ EnablePlanes \/ QueueFrame \/ StartDisplay
  BY <1>8 DEF SetupCrtc, UpdatePlanes, EnablePlanes, QueueFrame, StartDisplay
<1>9. CASE WaitFlipDone \/ FlipDoneTimeout
  BY <1>9 DEF WaitFlipDone, FlipDoneTimeout
<1>10. ASSUME NEW a \in Callers, TakeEvent(a) PROVE RefsInv' /\ vref' \in Nat
  BY <1>10 DEF TakeEvent
<1>11. ASSUME NEW a \in Callers, SendEvent(a) PROVE RefsInv' /\ vref' \in Nat
  BY <1>11 DEF SendEvent
<1>12. ASSUME NEW a \in Callers, PutVblank(a) PROVE RefsInv' /\ vref' \in Nat
  BY <1>12 DEF PutVblank, VblankPut
<1>13. CASE HwVblank \/ CrtcIrq \/ VspComplete \/ DisableVblank
  BY <1>13 DEF HwVblank, CrtcIrq, VspComplete, DisableVblank
<1> QED
  BY <1>1, <1>2, <1>3, <1>4, <1>5, <1>6, <1>7, <1>8, <1>9, <1>10, <1>11, <1>12, <1>13
  DEF Next, Thread, AtomicDisable, AtomicUpdate, FinishPageFlip

\* The event taken by the thread is the last it finds, and nothing arms another.
LEMMA QuietPreserved ==
  ASSUME IInv, Next
  PROVE  QuietInv'
<1> USE DEF IInv, TypeOK, ThreadInv, Disabling, Callers, QuietInv, Step, At,
            commit, flip, vblank, hardware
<1>1. CASE StartCommit
  BY <1>1 DEF StartCommit
<1>2. CASE AtomicDisable
  <2>1. CASE KeepVblank \/ ReleaseVblank
    BY <2>1 DEF KeepVblank, ReleaseVblank, VblankGet, VblankPut
  <2>2. CASE DisablePlanes
    BY <2>2 DEF DisablePlanes
  <2>3. CASE WaitVblank \/ VblankTimeout
    BY <2>3 DEF WaitVblank, VblankTimeout
  <2>4. CASE WaitPageFlip \/ PageFlipTimeout \/ PageFlipFinished
    BY <2>4 DEF WaitPageFlip, PageFlipTimeout, PageFlipFinished
  <2>5. CASE VblankOff \/ StopDisplay
    BY <2>5 DEF VblankOff, StopDisplay
  <2>6. CASE SendStateEvent
    BY <2>6 DEF SendStateEvent
  <2> QED  BY <1>2, <2>1, <2>2, <2>3, <2>4, <2>5, <2>6 DEF AtomicDisable
<1>3. CASE AtomicUpdate
  BY <1>3 DEF AtomicUpdate, SetupCrtc, UpdatePlanes, EnablePlanes, FlipGet, ArmEvent,
     QueueFrame, StartDisplay, VblankGet
<1>4. CASE WaitFlipDone \/ FlipDoneTimeout
  BY <1>4 DEF WaitFlipDone, FlipDoneTimeout
<1>5. ASSUME NEW a \in Callers, FinishPageFlip(a) PROVE QuietInv'
  BY <1>5 DEF FinishPageFlip, TakeEvent, SendEvent, PutVblank, VblankPut
<1>6. CASE HwVblank \/ CrtcIrq \/ VspComplete \/ DisableVblank
  BY <1>6 DEF HwVblank, CrtcIrq, VspComplete, DisableVblank
<1> QED  BY <1>1, <1>2, <1>3, <1>4, <1>5, <1>6 DEF Next, Thread

\* A vertical blanking takes the planes off the screen before its interrupt counts.
LEMMA PlanesPreserved ==
  ASSUME IInv, Next
  PROVE  PlanesInv' /\ vblank_count' \in 0..2
<1> USE DEF IInv, TypeOK, ThreadInv, Disabling, PlanesInv, Step, At, commit, flip, vblank,
            hardware
<1>1. CASE StartCommit
  BY <1>1 DEF StartCommit
<1>2. CASE AtomicDisable
  <2>1. CASE KeepVblank \/ ReleaseVblank
    BY <2>1 DEF KeepVblank, ReleaseVblank, VblankGet, VblankPut
  <2>2. CASE DisablePlanes
    BY <2>2 DEF DisablePlanes
  <2>3. CASE WaitVblank \/ VblankTimeout
    BY <2>3 DEF WaitVblank, VblankTimeout
  <2>4. CASE WaitPageFlip \/ PageFlipTimeout \/ PageFlipFinished
    BY <2>4 DEF WaitPageFlip, PageFlipTimeout, PageFlipFinished
  <2>5. CASE VblankOff \/ StopDisplay
    BY <2>5 DEF VblankOff, StopDisplay
  <2>6. CASE SendStateEvent
    BY <2>6 DEF SendStateEvent
  <2> QED  BY <1>2, <2>1, <2>2, <2>3, <2>4, <2>5, <2>6 DEF AtomicDisable
<1>3. CASE AtomicUpdate
  BY <1>3 DEF AtomicUpdate, SetupCrtc, UpdatePlanes, EnablePlanes, FlipGet, ArmEvent,
     QueueFrame, StartDisplay, VblankGet
<1>4. CASE WaitFlipDone \/ FlipDoneTimeout
  BY <1>4 DEF WaitFlipDone, FlipDoneTimeout
<1>5. ASSUME NEW a \in Callers, FinishPageFlip(a) PROVE PlanesInv' /\ vblank_count' \in 0..2
  BY <1>5 DEF FinishPageFlip, TakeEvent, SendEvent, PutVblank, VblankPut
<1>6. CASE HwVblank \/ CrtcIrq \/ VspComplete \/ DisableVblank
  BY <1>6 DEF HwVblank, CrtcIrq, VspComplete, DisableVblank
<1> QED  BY <1>1, <1>2, <1>3, <1>4, <1>5, <1>6 DEF Next, Thread

\* Nothing but the hand-over of a frame makes the VSP reach another frame end, and
\* its event is armed before.
LEMMA ScanPreserved ==
  ASSUME IInv, Next
  PROVE  ScanInv'
<1> USE DEF IInv, TypeOK, ThreadInv, Disabling, Callers, ScanInv, Step, At, commit, flip,
            vblank, hardware
<1>1. CASE StartCommit
  BY <1>1 DEF StartCommit, OrderInv, DistinctInv
<1>2. CASE AtomicDisable
  BY <1>2 DEF AtomicDisable, KeepVblank, DisablePlanes, WaitVblank, VblankTimeout,
     ReleaseVblank, WaitPageFlip, PageFlipTimeout, PageFlipFinished, VblankOff,
     StopDisplay, SendStateEvent
<1>3. CASE SetupCrtc \/ FlipGet \/ StartDisplay
  BY <1>3 DEF SetupCrtc, FlipGet, StartDisplay
<1>11. CASE UpdatePlanes \/ QueueFrame
  BY <1>11 DEF UpdatePlanes, QueueFrame
<1>4. CASE EnablePlanes
  BY <1>4 DEF EnablePlanes
<1>5. CASE ArmEvent
  BY <1>5 DEF ArmEvent, DistinctInv
<1>6. CASE WaitFlipDone
  <2>1. ~stalled => Len(delivered) = cur /\ event = 0 /\ taken["irq"] = 0
    BY <1>6 DEF WaitFlipDone, Delivered, OrderInv, Events
  <2> QED  BY <1>6, <2>1 DEF WaitFlipDone, DistinctInv
<1>7. CASE FlipDoneTimeout
  BY <1>7 DEF FlipDoneTimeout
<1>8. ASSUME NEW a \in Callers, TakeEvent(a) PROVE ScanInv'
  BY <1>8 DEF TakeEvent
<1>9. ASSUME NEW a \in Callers, SendEvent(a) \/ PutVblank(a) PROVE ScanInv'
  BY <1>9 DEF SendEvent, PutVblank
<1>10. CASE HwVblank \/ CrtcIrq \/ VspComplete \/ DisableVblank
  BY <1>10 DEF HwVblank, CrtcIrq, VspComplete, DisableVblank
<1> QED
  BY <1>1, <1>2, <1>3, <1>4, <1>5, <1>6, <1>7, <1>8, <1>9, <1>10, <1>11
  DEF Next, Thread, AtomicUpdate, FinishPageFlip

\* The words of the thread, the finishers and the hardware keep their types.
LEMMA TypePreserved ==
  ASSUME IInv, Next
  PROVE  TypeOK'
<1> USE DEF IInv, TypeOK, commit, flip, vblank, hardware
<1>1. vref' \in Nat /\ vblank_count' \in 0..2
  BY RefsPreserved, PlanesPreserved
<1>0. 0 \in Events /\ (cur < MaxCommit => cur + 1 \in Events)
  BY PageFlipAssumption DEF Events
<1> USE DEF Callers, Step, At, VblankGet, VblankPut
<1>2. CASE StartCommit
  BY <1>0, <1>1, <1>2 DEF StartCommit
<1>3. CASE SendStateEvent
  <2>1. delivered' \in Seq(Events)
    BY <1>3, Delivery DEF SendStateEvent
  <2> QED  BY <1>0, <1>1, <1>3, <2>1 DEF SendStateEvent
<1>4. CASE KeepVblank \/ FlipGet \/ ReleaseVblank
  BY <1>1, <1>4 DEF KeepVblank, FlipGet, ReleaseVblank
<1>12. CASE DisablePlanes \/ VblankOff \/ StopDisplay
  BY <1>1, <1>12 DEF DisablePlanes, VblankOff, StopDisplay
<1>5. CASE WaitVblank \/ VblankTimeout \/ WaitPageFlip \/ PageFlipTimeout \/ PageFlipFinished
  BY <1>0, <1>1, <1>5 DEF WaitVblank, VblankTimeout, WaitPageFlip, PageFlipTimeout, PageFlipFinished
<1>6. CASE UpdatePlanes \/ EnablePlanes
  BY <1>0, <1>1, <1>6 DEF UpdatePlanes, EnablePlanes
<1>13. CASE SetupCrtc
  <2>1. vbe' \in BOOLEAN
    <3>1. vbe' = (vref > 0)
      BY <1>13 DEF SetupCrtc
    <3>2. CASE vref > 0
      BY <3>1, <3>2
    <3>3. CASE ~(vref > 0)
      BY <3>1, <3>3
    <3> QED  BY <3>2, <3>3
  <2> QED  BY <1>1, <1>13, <2>1 DEF SetupCrtc
<1>7. CASE ArmEvent \/ QueueFrame \/ StartDisplay
  BY <1>0, <1>1, <1>7 DEF ArmEvent, QueueFrame, StartDisplay
<1>8. CASE WaitFlipDone \/ FlipDoneTimeout
  BY <1>8 DEF WaitFlipDone, FlipDoneTimeout
<1>9. ASSUME NEW a \in Callers, TakeEvent(a) \/ PutVblank(a) PROVE TypeOK'
  BY <1>0, <1>1, <1>9 DEF TakeEvent, PutVblank
<1>10. ASSUME NEW a \in Callers, SendEvent(a) PROVE TypeOK'
  <2>1. delivered' \in Seq(Events)
    BY <1>10, Delivery DEF SendEvent
  <2> QED  BY <1>0, <1>1, <1>10, <2>1 DEF SendEvent
<1>11. CASE HwVblank \/ CrtcIrq \/ VspComplete \/ DisableVblank
  BY <1>0, <1>1, <1>11 DEF HwVblank, CrtcIrq, VspComplete, DisableVblank
<1> QED
  BY <1>2, <1>3, <1>4, <1>5, <1>6, <1>7, <1>8, <1>9, <1>10, <1>11, <1>12, <1>13
  DEF Next, Thread, AtomicDisable, AtomicUpdate, FinishPageFlip

--------------------------------------------------------------------------------
(* The theorems                                                              *)

\* It holds at the start, where the CRTC is off and nothing is asked for, ...
LEMMA InitInvariant == Init => IInv
<1> SUFFICES ASSUME Init PROVE IInv
  OBVIOUS
<1> USE PageFlipAssumption DEF Init, Callers
<1>1. TypeOK
  <2>1. 0 \in Events
    BY DEF Events
  <2>2. delivered \in Seq(Events)
    OBVIOUS
  <2>4. /\ {reset, stalled, vblank_on, vbe, vbk} \subseteq BOOLEAN
        /\ {running, dspr, planes} \subseteq BOOLEAN
    BY Zenon
  <2>3. fin \in [Callers -> {"no", "take", "send", "put"}] /\ taken \in [Callers -> Events]
    BY <2>1
  <2> QED  BY <2>1, <2>2, <2>3, <2>4 DEF TypeOK
<1>2. ThreadInv /\ DistinctInv /\ OrderInv
  BY DEF ThreadInv, DistinctInv, OrderInv, Labels, Disabling
<1>3. RefsInv /\ QuietInv /\ PlanesInv /\ ScanInv
  BY DEF RefsInv, Owned, One, QuietInv, PlanesInv, ScanInv
<1> QED  BY <1>1, <1>2, <1>3 DEF IInv

\* ... and every step preserves it.
LEMMA NextPreserves == IInv /\ [Next]_vars => IInv'
<1> SUFFICES ASSUME IInv, [Next]_vars PROVE IInv'
  OBVIOUS
<1>1. CASE Next
  BY <1>1, TypePreserved, ThreadPreserved, DistinctPreserved, OrderPreserved, RefsPreserved,
     QuietPreserved, PlanesPreserved, ScanPreserved
  DEF IInv
<1>2. CASE UNCHANGED vars
  BY <1>2 DEF vars, commit, flip, vblank, hardware, IInv, TypeOK, ThreadInv, DistinctInv,
     OrderInv, RefsInv, Owned, QuietInv, PlanesInv, ScanInv
<1> QED  BY <1>1, <1>2

\* The invariant holds throughout, for every bound on the number of commits.
THEOREM Invariant == Spec => []IInv
<1> QED  BY InitInvariant, NextPreserves, PTL DEF Spec

\* The words of rcar_du_crtc.c and the hardware keep their types.
THEOREM TypeCorrect == Spec => []TypeOK
<1>1. IInv => TypeOK
  BY DEF IInv
<1> QED  BY <1>1, Invariant, PTL

\* Every vblank reference taken by rcar_du_crtc_atomic_flush() or
\* rcar_du_crtc_disable_planes() is dropped by exactly one actor; a stall may leak
\* some, but none is ever dropped twice.
THEOREM ReferencesOwned == Spec => []RefsOwned
<1>1. IInv => RefsOwned
  BY OwnersCounted DEF IInv, RefsInv, RefsOwned
<1> QED  BY <1>1, Invariant, PTL

\* After rcar_du_crtc_stop() no flip is armed and the interrupt is off, whichever
\* of the waits timed out.
THEOREM QuietOnceOff == Spec => []QuietWhenOff
<1>1. IInv => QuietWhenOff
  BY DEF IInv, ThreadInv, QuietInv, QuietWhenOff
<1> QED  BY <1>1, Invariant, PTL

\* rcar_du_crtc_disable_planes() counts the interrupts it has to wait for right.
THEOREM PlanesOffScreen == Spec => []PlanesOff
<1>1. IInv => PlanesOff
  BY DEF IInv, PlanesInv, PlanesOff
<1> QED  BY <1>1, Invariant, PTL

\* rcar_du_vsp_complete() finishes a flip whose frame is on the screen.
THEOREM FlipsCompleteOnScreen == Spec => []CompleteOnScreen
<1>1. IInv => CompleteOnScreen
  BY DEF IInv, TypeOK, Events, DistinctInv, Callers, ScanInv, CompleteOnScreen
<1> QED  BY <1>1, Invariant, PTL

--------------------------------------------------------------------------------
(* Every step is a step of FlipEvents or a stutter                           *)

\* An event under way is one FlipEvents may deliver.
LEMMA MayDeliver ==
  ASSUME IInv, NEW e \in Events, e # 0, e = state_event \/ \E a \in Callers : e = taken[a],
         e = state_event => pc # "idle"
  PROVE  /\ e \in 1..cur
         /\ e \notin Promise!Range(delivered)
         /\ stalled \/ e = Len(delivered) + 1
<1> USE DEF IInv, TypeOK, Events, DistinctInv, OrderInv, Callers
<1>1. e \in 1..cur
  OBVIOUS
<1>2. e \notin Promise!Range(delivered)
  BY DEF Promise!Range
<1>3. stalled \/ e = Len(delivered) + 1
  OBVIOUS
<1> QED  BY <1>1, <1>2, <1>3

\* A step requests, delivers or gives up an event, or leaves them all alone.
LEMMA StepImplements ==
  ASSUME IInv, [Next]_vars
  PROVE  [Promise!Next]_(Promise!vars)
<1> USE DEF Promise!Next, Promise!vars
<1>1. CASE StartCommit
  BY <1>1 DEF StartCommit, Promise!Request, IInv, TypeOK, Events, flip
<1>2. CASE FlipDoneTimeout
  BY <1>2 DEF FlipDoneTimeout, Promise!GiveUp, flip
<1>3. CASE SendStateEvent
  <2>1. state_event # 0 /\ state_event \in Events /\ pc # "idle"
    BY <1>3 DEF SendStateEvent, At, IInv, TypeOK, ThreadInv, Disabling
  <2>2. delivered' = Append(delivered, state_event) /\ UNCHANGED <<cur, stalled>>
    BY <1>3, <2>1 DEF SendStateEvent, commit
  <2> QED  BY <2>1, <2>2, MayDeliver DEF Promise!Deliver
<1>4. ASSUME NEW a \in Callers, FinishPageFlip(a) PROVE [Promise!Next]_(Promise!vars)
  <2>1. CASE SendEvent(a)
    <3>1. taken[a] # 0 /\ taken[a] \in Events /\ taken[a] # state_event
      BY <2>1 DEF SendEvent, IInv, TypeOK, DistinctInv
    <3>2. delivered' = Append(delivered, taken[a]) /\ UNCHANGED <<cur, stalled>>
      BY <2>1 DEF SendEvent, commit
    <3> QED  BY <3>1, <3>2, MayDeliver DEF Promise!Deliver
  <2>2. CASE TakeEvent(a) \/ PutVblank(a)
    BY <2>2 DEF TakeEvent, PutVblank, commit
  <2> QED  BY <1>4, <2>1, <2>2 DEF FinishPageFlip
<1>5. CASE UNCHANGED vars
  BY <1>5 DEF vars, commit, flip
<1>6. CASE UNCHANGED <<cur, stalled, flip>>
  BY <1>6 DEF flip
<1>7. CASE WaitFlipDone \/ PageFlipTimeout \/ ArmEvent \/ CrtcIrq \/ VspComplete
  BY <1>7 DEF WaitFlipDone, PageFlipTimeout, ArmEvent, CrtcIrq, VspComplete, commit, flip
<1> QED  BY <1>1, <1>2, <1>3, <1>4, <1>5, <1>6, <1>7, EventSteps

\* The safety part of the refinement: whatever times out, events are delivered
\* once, in the order of the commits, and only if a commit asked for them.
THEOREM ImplementsFlipEvents == Spec => Promise!Init /\ [][Promise!Next]_(Promise!vars)
<1>1. Init => Promise!Init
  BY DEF Init, Promise!Init
<1>2. IInv /\ [Next]_vars => [Promise!Next]_(Promise!vars)
  BY StepImplements
<1> QED  BY <1>1, <1>2, Invariant, PTL DEF Spec
================================================================================
