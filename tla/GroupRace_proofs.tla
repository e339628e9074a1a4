---------------------------- MODULE GroupRace_proofs ----------------------------
(***************************************************************************)
(* Proofs about GroupRace when the mode sets of the two CRTCs exclude each *)
(* other: what makes the unlocked updates of the shared words safe beside  *)
(* page flips.                                                             *)
(***************************************************************************)
EXTENDS GroupRace, FiniteSetTheorems, TLAPS

--------------------------------------------------------------------------------
(* The inductive invariant                                                   *)

Other(c) == 1 - c

\* The thread of c is inside rcar_du_crtc_dsysr_clr_set(), to go on at one of nexts.
Writing(c) == pc[c] \in {"load", "store", "write"}
To(c, nexts) == Writing(c) /\ job[c].next \in nexts

\* What it writes: the master bit of c, or the DEN bit of the group.
Updates(c) ==
  {[word |-> c, field |-> "master", value |-> FALSE, next |-> "unuse_load"],
   [word |-> Owner, field |-> "den", value |-> FALSE, next |-> "put_load"],
   [word |-> Owner, field |-> "den", value |-> FALSE, next |-> "restart"],
   [word |-> Owner, field |-> "den", value |-> TRUE, next |-> "unlock"],
   [word |-> c, field |-> "master", value |-> TRUE, next |-> "use_load"],
   [word |-> Owner, field |-> "den", value |-> FALSE, next |-> "start"],
   [word |-> Owner, field |-> "den", value |-> TRUE, next |-> "idle"]}

\* The parts of a commit, in their order.  Stopping: the CRTC is still in use; of
\* Halting, it was the last one.
Stopping(c) == pc[c] \in {"slave", "unuse_load", "unuse_store"} \/ To(c, {"unuse_load"})
Halting(c) == To(c, {"put_load"})
Putting(c) == pc[c] \in {"put_load", "put_store"}
Getting(c) == pc[c] \in {"get_load", "get_store"}
Sourcing(c) == pc[c] \in {"source", "request"}
Locked(c) ==
  pc[c] \in {"test", "clear", "restart", "unlock"} \/ To(c, {"restart", "unlock"})
Entering(c) == pc[c] = "master" \/ To(c, {"use_load"})
Counting(c) == pc[c] \in {"use_load", "use_store"}
Starting(c) == pc[c] = "start" \/ To(c, {"start", "idle"})

\* The threads have a label and a loaded word each.
ThreadsOK == pc = [c \in Crtcs |-> pc[c]] /\ tmp = [c \in Crtcs |-> tmp[c]]

\* What follows is about the thread of c, with d the other CRTC.

\* The thread follows the handlers of its commit; those from begin on are run for
\* an active CRTC.
Flow(c) ==
  /\ \/ pc[c] = "idle"
     \/ kind[c] = "modeset" /\ (Stopping(c) \/ Halting(c) \/ Putting(c))
     \/ c \in active /\ (pc[c] = "lock" \/ Locked(c))
     \/ /\ kind[c] = "modeset" /\ c \in active
        /\ Getting(c) \/ Sourcing(c) \/ Entering(c) \/ Counting(c) \/ Starting(c)
  /\ Writing(c) => job[c] \in Updates(c)

\* Two mode sets exclude each other, and so do two locked sections.
Exclusion(c, d) ==
  /\ ~ (Modesetting(c) /\ Modesetting(d))
  /\ Locked(c) <=> lock = c

\* A restart is requested by a mode set that is yet to flush.  A flip that serves
\* the request does so while that mode set waits for the lock.
Requested(c) == kind[c] = "modeset" /\ pc[c] \in {"lock", "test", "clear"}
Serving(c) == pc[c] \in {"clear", "restart"} \/ To(c, {"restart", "unlock"})

Request(c, d) ==
  /\ need_restart => Requested(c) \/ Requested(d)
  /\ pc[c] = "clear" => need_restart
  /\ kind[c] = "flip" /\ Serving(c) => kind[d] = "modeset" /\ pc[d] = "lock"

\* The counters are the numbers of CRTCs that hold the group and that use it, by
\* where their threads are, and no count changes between its load and its store.
Holds(c) == IF pc[c] = "idle" THEN c \in active ELSE ~Getting(c)

InUse(c) == IF Modesetting(c) THEN Stopping(c) \/ Starting(c) ELSE c \in active

Count(c, d) ==
  /\ use_count = (IF Holds(c) THEN 1 ELSE 0) + (IF Holds(d) THEN 1 ELSE 0)
  /\ used_crtcs = (IF InUse(c) THEN 1 ELSE 0) + (IF InUse(d) THEN 1 ELSE 0)
  /\ pc[c] = "unuse_store" => tmp[c] = used_crtcs - 1
  /\ pc[c] = "put_store" => tmp[c] = use_count - 1
  /\ pc[c] = "get_store" => tmp[c] = use_count + 1
  /\ pc[c] = "use_store" => tmp[c] = used_crtcs

\* The update it makes of a DSYSR word loses no other update: nothing has changed
\* the word since it was loaded, and cache and register differ only in between
\* the two stores.
Updated(c) == [reg[job[c].word] EXCEPT ![job[c].field] = job[c].value]

Lossless(c, d) ==
  /\ ~ (Writing(c) /\ Writing(d))
  /\ pc[c] \in {"store", "write"} => tmp[c] = Updated(c)
  /\ pc[c] = "write" => dsysr[job[c].word] = tmp[c]
  /\ \/ dsysr[c] = reg[c]
     \/ pc[c] = "write" /\ job[c].word = c
     \/ pc[d] = "write" /\ job[d].word = c

\* The group runs for the CRTCs that use it, except while a mode set that will
\* start it in the end is under way.
Runs(c, d) ==
  /\ ~Modesetting(c) /\ ~Modesetting(d) => (reg[Owner].den <=> c \in active \/ d \in active)
  /\ Stopping(c) => reg[Owner].den
  /\ Halting(c) => d \notin active
  /\ Putting(c) => (reg[Owner].den <=> d \in active)
  /\ c \in active /\ (~Modesetting(c) \/ Counting(c) \/ Starting(c)) => reg[c].master

\* A plane source that is not in effect yet has a restart coming: to be requested,
\* requested, or being served by the thread itself or by the other one.
Latches(c, d) ==
  c \in unlatched =>
    \/ pc[c] = "request"
    \/ pc[c] \in {"lock", "test"} /\ need_restart
    \/ pc[c] = "clear" \/ To(c, {"restart"})
    \/ pc[c] = "lock" /\ To(d, {"restart"})

Thread(c, d) ==
  /\ Flow(c) /\ Exclusion(c, d) /\ Request(c, d) /\ Count(c, d)
  /\ Lossless(c, d) /\ Runs(c, d) /\ Latches(c, d)

IInv ==
  /\ TypeOK
  /\ ThreadsOK
  /\ \A c \in Crtcs : Thread(c, Other(c))

--------------------------------------------------------------------------------
(* Lemmas about the threads                                                  *)

\* The CRTCs of a group are two.
LEMMA Two ==
  ASSUME NEW c \in Crtcs, NEW d \in Crtcs, d = Other(c)
  PROVE  /\ c # d /\ Crtcs = {c, d} /\ c = Other(d)
         /\ Owner \in {c, d} /\ NoOne \notin {c, d}
BY DEF Crtcs, Other, Owner, NoOne

\* A count of CRTCs goes up to two.
LEMMA NumberOfCrtcs == Cardinality(Crtcs) = 2
<1>1. IsFiniteSet({0}) /\ Cardinality({0}) = 1
  BY FS_Singleton
<1>2. Crtcs = {0} \cup {1}
  BY DEF Crtcs
<1> QED  BY <1>1, <1>2, FS_AddElement

\* The invariant, for two given threads.
LEMMA ForBoth ==
  ASSUME NEW c \in Crtcs, NEW d \in Crtcs, d = Other(c)
  PROVE  /\ IInv => TypeOK /\ ThreadsOK /\ Thread(c, d) /\ Thread(d, c)
         /\ TypeOK' /\ ThreadsOK' /\ Thread(c, d)' /\ Thread(d, c)' => IInv'
<1>1. Crtcs = {c, d} /\ c = Other(d)
  BY Two
<1>2. IInv => TypeOK /\ ThreadsOK /\ Thread(c, d) /\ Thread(d, c)
  BY <1>1 DEF IInv
<1>3. TypeOK' /\ ThreadsOK' /\ Thread(c, d)' /\ Thread(d, c)' => IInv'
  BY <1>1 DEF IInv
<1> QED  BY <1>2, <1>3

\* A step of one thread moves that thread only.
LEMMA Goes ==
  ASSUME ThreadsOK, NEW c \in Crtcs, NEW d \in Crtcs, d # c, NEW label, Goto(c, label)
  PROVE  pc'[c] = label /\ pc'[d] = pc[d] /\ pc' = [e \in Crtcs |-> pc'[e]]
BY DEF ThreadsOK, Goto

\* Nor does it load a word for the other thread.
LEMMA Loads ==
  ASSUME ThreadsOK, NEW c \in Crtcs, NEW d \in Crtcs, d # c, NEW word,
         tmp' = [tmp EXCEPT ![c] = word]
  PROVE  tmp'[c] = word /\ tmp'[d] = tmp[d] /\ tmp' = [e \in Crtcs |-> tmp'[e]]
BY DEF ThreadsOK

\* The next update of a thread is one of those it makes.
LEMMA Plans ==
  ASSUME TypeOK, NEW c \in Crtcs, NEW d \in Crtcs, d # c, NEW j \in Updates(c) \cup {NoJob},
         job' = [job EXCEPT ![c] = j]
  PROVE  job'[c] = j /\ job'[d] = job[d] /\ job' \in [Crtcs -> Jobs]
<1>1. j \in Jobs
  <2> SUFFICES ASSUME NEW w \in Crtcs, NEW f \in {"master", "den"}, NEW v \in BOOLEAN,
                      NEW n \in {"unuse_load", "put_load", "restart", "unlock", "use_load", "start", "idle"},
                      j = [word |-> w, field |-> f, value |-> v, next |-> n]
               PROVE  j \in Jobs
    BY DEF Updates, NoJob, Owner, Crtcs
  <2> QED  BY DEF Jobs
<1> QED  BY <1>1 DEF TypeOK

\* What the counters and the state of the group depend on stays the same.
Steady(c) ==
  /\ Stopping(c)' <=> Stopping(c)
  /\ Halting(c)' <=> Halting(c)
  /\ Putting(c)' <=> Putting(c)
  /\ Counting(c)' <=> Counting(c)
  /\ Starting(c)' <=> Starting(c)
  /\ Modesetting(c)' <=> Modesetting(c)
  /\ Holds(c)' <=> Holds(c)
  /\ InUse(c)' <=> InUse(c)

\* The rest of what the invariant says of the other thread.
Still(d) ==
  /\ Flow(d)' <=> Flow(d)
  /\ Writing(d)' <=> Writing(d)
  /\ Locked(d)' <=> Locked(d)
  /\ Serving(d)' <=> Serving(d)
  /\ Requested(d)' <=> Requested(d)
  /\ To(d, {"restart"})' <=> To(d, {"restart"})

\* All of it does for a thread that does not move.
LEMMA Bystander ==
  ASSUME NEW d \in Crtcs, pc'[d] = pc[d], job'[d] = job[d], kind'[d] = kind[d],
         d \in active' <=> d \in active
  PROVE  Steady(d) /\ Still(d)
<1> USE DEF Writing, To, Stopping, Halting, Putting, Getting, Sourcing, Locked, Entering,
            Counting, Starting, Modesetting, Serving
<1>1. Steady(d)
  BY DEF Steady, Holds, InUse
<1>2. Flow(d)' <=> Flow(d)
  BY DEF Flow, Updates
<1> QED  BY <1>1, <1>2 DEF Still, Requested

\* While a thread is at work on a mode set, or serves a restart, the other one is
\* not updating a DSYSR word.
LEMMA Alone ==
  ASSUME TypeOK, NEW c \in Crtcs, NEW d \in Crtcs, Thread(c, d), Thread(d, c),
         (Modesetting(c) /\ pc[c] # "lock") \/ Serving(c)
  PROVE  ~Writing(d)
<1>1. SUFFICES ASSUME Writing(d) PROVE FALSE
  OBVIOUS
<1>2. pc[d] \notin {"idle", "lock"}
  BY <1>1 DEF Writing
<1>3. kind[c] \in {"flip", "modeset"} /\ kind[d] \in {"flip", "modeset"}
  BY DEF TypeOK
<1>4. CASE kind[d] = "flip"
  <2>1. Locked(d)
    BY <1>2, <1>4 DEF Thread, Flow
  <2>2. Serving(d)
    BY <1>1, <2>1 DEF Locked, Serving, To, Writing
  <2>3. kind[c] = "modeset" /\ pc[c] = "lock"
    BY <1>4, <2>2 DEF Thread, Request
  <2> QED  BY <2>3 DEF Serving, To, Writing
<1>5. CASE kind[d] = "modeset"
  <2>1. Modesetting(d) /\ ~Modesetting(c)
    BY <1>2, <1>5 DEF Modesetting, Thread, Exclusion
  <2>2. Serving(c) /\ kind[c] = "flip"
    BY <1>3, <2>1 DEF Modesetting, Serving, To, Writing
  <2>3. pc[d] = "lock"
    BY <2>2 DEF Thread, Request
  <2> QED  BY <1>2, <2>3
<1> QED  BY <1>3, <1>4, <1>5

\* A step that is not within an update leaves those of the other thread alone.
LEMMA UpdatesKept ==
  ASSUME NEW c \in Crtcs, NEW d \in Crtcs, Thread(c, d), Thread(d, c),
         pc[c] # "write", pc'[c] \notin {"store", "write"},
         pc'[d] = pc[d], job'[d] = job[d], tmp'[d] = tmp[d],
         UNCHANGED <<reg, dsysr>>,
         Writing(c)' => ~Writing(d)
  PROVE  Lossless(c, d)' /\ Lossless(d, c)'
<1>1. Writing(d)' <=> Writing(d)
  BY DEF Writing
<1>2. Updated(d)' = Updated(d)
  BY DEF Updated
<1>3. Lossless(c, d)'
  BY <1>1 DEF Thread, Lossless
<1>4. Lossless(d, c)'
  BY <1>1, <1>2 DEF Thread, Lossless
<1> QED  BY <1>3, <1>4

\* A thread that sets no mode is idle or in a page flip of an active CRTC.
LEMMA NoModeSet ==
  ASSUME NEW d \in Crtcs, TypeOK, Flow(d), ~Modesetting(d)
  PROVE  /\ pc[d] \notin {"unuse_store", "put_store", "get_store", "use_store", "source", "request"}
         /\ ~Stopping(d) /\ ~Halting(d) /\ ~Putting(d) /\ ~Getting(d)
         /\ ~Entering(d) /\ ~Counting(d) /\ ~Starting(d)
         /\ InUse(d) <=> d \in active
         /\ Holds(d) <=> d \in active
<1> USE DEF Writing, To, Stopping, Halting, Putting, Getting, Sourcing, Locked, Entering,
            Counting, Starting
<1>1. pc[d] = "idle" \/ (d \in active /\ (pc[d] = "lock" \/ Locked(d)))
  BY DEF Flow, Modesetting
<1>2. CASE pc[d] = "idle"
  BY <1>2 DEF InUse, Holds
<1>3. CASE d \in active /\ (pc[d] = "lock" \/ Locked(d))
  BY <1>3 DEF InUse, Holds
<1> QED  BY <1>1, <1>2, <1>3

\* What an update does to the register it is about.
LEMMA UpdatedWord ==
  ASSUME TypeOK, NEW c \in Crtcs, job[c] \in Updates(c)
  PROVE  /\ Updated(c) \in Word
         /\ Updated(c).den = IF job[c].field = "den" THEN job[c].value ELSE reg[job[c].word].den
         /\ Updated(c).master = IF job[c].field = "master" THEN job[c].value ELSE reg[job[c].word].master
<1>1. reg[job[c].word] \in Word /\ job[c].value \in BOOLEAN
  BY DEF TypeOK, Jobs
<1>2. CASE job[c].field = "den"
  BY <1>1, <1>2 DEF Updated, Word
<1>3. CASE job[c].field = "master"
  BY <1>1, <1>3 DEF Updated, Word
<1> QED  BY <1>2, <1>3 DEF TypeOK, Jobs

\* A step that changes neither counters nor registers, by a thread that stays in
\* the same part of its commit.
LEMMA SteadyStep ==
  ASSUME NEW c \in Crtcs, NEW d \in Crtcs, Thread(c, d), Thread(d, c),
         Steady(c), Steady(d), pc'[d] = pc[d], tmp'[d] = tmp[d],
         UNCHANGED <<active, use_count, used_crtcs, reg>>,
         pc'[c] = "unuse_store" => tmp'[c] = used_crtcs - 1,
         pc'[c] = "put_store" => tmp'[c] = use_count - 1,
         pc'[c] = "get_store" => tmp'[c] = use_count + 1,
         pc'[c] = "use_store" => tmp'[c] = used_crtcs
  PROVE  Count(c, d)' /\ Count(d, c)' /\ Runs(c, d)' /\ Runs(d, c)'
<1>1. Count(c, d)' /\ Count(d, c)'
  BY DEF Thread, Count, Steady
<1>2. Runs(c, d)' /\ Runs(d, c)'
  BY DEF Thread, Runs, Steady
<1> QED  BY <1>1, <1>2

--------------------------------------------------------------------------------
(* Updates of the DSYSR words                                                *)

\* The word loaded is that of the register: no other update is under way.
LEMMA LoadCachePreserves ==
  ASSUME IInv, NEW c \in Crtcs, NEW d \in Crtcs, d = Other(c), LoadCache(c)
  PROVE  IInv'
<1>1. TypeOK /\ ThreadsOK /\ Thread(c, d) /\ Thread(d, c) /\ d # c
  BY Two, ForBoth
<1>2. /\ pc[c] = "load" /\ Goto(c, "store")
      /\ tmp' = [tmp EXCEPT ![c] = [dsysr[job[c].word] EXCEPT ![job[c].field] = job[c].value]]
      /\ UNCHANGED <<active, kind, job, use_count, used_crtcs, need_restart, lock, dsysr, reg,
                     unlatched>>
  BY DEF LoadCache, From, thread, counts, display
<1>3. pc'[c] = "store" /\ pc'[d] = pc[d] /\ pc' = [e \in Crtcs |-> pc'[e]]
  BY <1>1, <1>2, Goes
<1>4. /\ tmp'[c] = [dsysr[job[c].word] EXCEPT ![job[c].field] = job[c].value]
      /\ tmp'[d] = tmp[d] /\ tmp' = [e \in Crtcs |-> tmp'[e]]
  BY <1>1, <1>2, Loads
<1>5. Steady(d) /\ Still(d)
  BY <1>2, <1>3, <1>4, Bystander
<1>6. Steady(c) /\ Flow(c)'
  BY <1>1, <1>2, <1>3, <1>4
  DEF Thread, Flow, Updates, Steady, Holds, InUse, Modesetting, Writing, To, Stopping,
      Halting, Putting, Getting, Sourcing, Locked, Entering, Counting, Starting
<1>7. TypeOK' /\ ThreadsOK'
  BY <1>1, <1>2, <1>3, <1>4 DEF TypeOK, ThreadsOK
<1>8. Exclusion(c, d)' /\ Exclusion(d, c)'
  BY <1>1, <1>2, <1>3, <1>4, <1>5, <1>6
  DEF Thread, Exclusion, Still, Steady, Locked, To, Writing
<1>9. Request(c, d)' /\ Request(d, c)'
  BY <1>1, <1>2, <1>3, <1>4, <1>5
  DEF Thread, Exclusion, Request, Still, Requested, Serving, Locked, To, Writing
<1>10. Count(c, d)' /\ Count(d, c)' /\ Runs(c, d)' /\ Runs(d, c)'
  BY <1>1, <1>2, <1>3, <1>4, <1>5, <1>6, SteadyStep
<1>11. Lossless(c, d)' /\ Lossless(d, c)'
  <2>1. Writing(c) /\ ~Writing(d) /\ Writing(c)' /\ ~Writing(d)'
    BY <1>1, <1>2, <1>3, <1>5 DEF Thread, Lossless, Still, Writing
  <2>2. job[c].word \in {c, d}
    BY <1>1, <1>2, Two DEF TypeOK, Jobs
  <2>3. dsysr[c] = reg[c] /\ dsysr[d] = reg[d]
    BY <1>1, <1>2, <2>1 DEF Thread, Lossless, Writing
  <2>4. tmp'[c] = Updated(c)'
    BY <1>2, <1>4, <2>2, <2>3 DEF Updated
  <2> QED  BY <1>2, <1>3, <2>1, <2>3, <2>4 DEF Lossless, Writing
<1>12. Latches(c, d)' /\ Latches(d, c)'
  BY <1>1, <1>2, <1>3, <1>4, <1>5 DEF Thread, Exclusion, Latches, Still, Locked, To, Writing
<1>13. Flow(d)'
  BY <1>1, <1>5 DEF Thread, Still
<1> QED  BY <1>6, <1>7, <1>8, <1>9, <1>10, <1>11, <1>12, <1>13, ForBoth DEF Thread

\* The cache gets the update, ...
LEMMA StoreCachePreserves ==
  ASSUME IInv, NEW c \in Crtcs, NEW d \in Crtcs, d = Other(c), StoreCache(c)
  PROVE  IInv'
<1>1. TypeOK /\ ThreadsOK /\ Thread(c, d) /\ Thread(d, c) /\ d # c
  BY Two, ForBoth
<1>2. /\ pc[c] = "store" /\ Goto(c, "write")
      /\ dsysr' = [dsysr EXCEPT ![job[c].word] = tmp[c]]
      /\ UNCHANGED <<tmp, active, kind, job, use_count, used_crtcs, need_restart, lock, reg,
                     unlatched>>
  BY DEF StoreCache, From, thread, counts, display
<1>3. pc'[c] = "write" /\ pc'[d] = pc[d] /\ pc' = [e \in Crtcs |-> pc'[e]]
  BY <1>1, <1>2, Goes
<1>5. Steady(d) /\ Still(d)
  BY <1>2, <1>3, Bystander
<1>6. Steady(c) /\ Flow(c)'
  BY <1>1, <1>2, <1>3
  DEF Thread, Flow, Updates, Steady, Holds, InUse, Modesetting, Writing, To, Stopping,
      Halting, Putting, Getting, Sourcing, Locked, Entering, Counting, Starting
<1>7. TypeOK' /\ ThreadsOK'
  <2>1. tmp[c] \in Word
    BY <1>1, <1>2, UpdatedWord DEF Thread, Flow, Lossless, Writing
  <2> QED  BY <1>1, <1>2, <1>3, <2>1 DEF TypeOK, ThreadsOK
<1>8. Exclusion(c, d)' /\ Exclusion(d, c)'
  BY <1>1, <1>2, <1>3, <1>5, <1>6 DEF Thread, Exclusion, Still, Steady, Locked, To, Writing
<1>9. Request(c, d)' /\ Request(d, c)'
  BY <1>1, <1>2, <1>3, <1>5
  DEF Thread, Exclusion, Request, Still, Requested, Serving, Locked, To, Writing
<1>10. Count(c, d)' /\ Count(d, c)' /\ Runs(c, d)' /\ Runs(d, c)'
  BY <1>1, <1>2, <1>3, <1>5, <1>6, SteadyStep
<1>11. Lossless(c, d)' /\ Lossless(d, c)'
  <2>1. Writing(c) /\ ~Writing(d) /\ Writing(c)' /\ ~Writing(d)'
    BY <1>1, <1>2, <1>3, <1>5 DEF Thread, Lossless, Still, Writing
  <2>2. job[c].word \in {c, d}
    BY <1>1, <1>2, Two DEF TypeOK, Jobs
  <2>3. tmp'[c] = Updated(c)' /\ dsysr[c] = reg[c] /\ dsysr[d] = reg[d]
    BY <1>1, <1>2, <2>1 DEF Thread, Lossless, Updated, Writing
  <2>4. /\ dsysr'[job[c].word] = tmp[c]
        /\ \A e \in {c, d} : e # job[c].word => dsysr'[e] = dsysr[e]
    BY <1>1, <1>2, <2>2, Two DEF TypeOK
  <2> QED  BY <1>2, <1>3, <2>1, <2>2, <2>3, <2>4 DEF Lossless, Writing
<1>12. Latches(c, d)' /\ Latches(d, c)'
  BY <1>1, <1>2, <1>3, <1>5 DEF Thread, Exclusion, Latches, Still, Locked, To, Writing
<1>13. Flow(d)'
  BY <1>1, <1>5 DEF Thread, Still
<1> QED  BY <1>6, <1>7, <1>8, <1>9, <1>10, <1>11, <1>12, <1>13, ForBoth DEF Thread

\* ... then the register.  A restart holds the group and lets it go, and latches all
\* sources; a last user stops the group, a new one starts it; and the master bit of
\* a CRTC changes while it has no claim on the group.
LEMMA WriteDsysrPreserves ==
  ASSUME IInv, NEW c \in Crtcs, NEW d \in Crtcs, d = Other(c), WriteDsysr(c)
  PROVE  IInv'
<1>1. TypeOK /\ ThreadsOK /\ Thread(c, d) /\ Thread(d, c) /\ d # c /\ Owner \in {c, d}
  BY Two, ForBoth
<1>2. /\ pc[c] = "write" /\ Goto(c, job[c].next)
      /\ reg' = [reg EXCEPT ![job[c].word] = tmp[c]]
      /\ unlatched' = IF job[c].word = Owner /\ ~tmp[c].den THEN {} ELSE unlatched
      /\ tmp' = [tmp EXCEPT ![c] = 0]
      /\ job' = [job EXCEPT ![c] = NoJob]
      /\ UNCHANGED <<active, kind, use_count, used_crtcs, need_restart, lock, dsysr>>
  BY DEF WriteDsysr, From, thread, counts
<1>3. /\ pc'[c] = job[c].next /\ pc'[d] = pc[d] /\ pc' = [e \in Crtcs |-> pc'[e]]
  BY <1>1, <1>2, Goes
<1>4. tmp'[c] = 0 /\ tmp'[d] = tmp[d] /\ tmp' = [e \in Crtcs |-> tmp'[e]]
  BY <1>1, <1>2, Loads
<1>5. job'[c] = NoJob /\ job'[d] = job[d] /\ job' \in [Crtcs -> Jobs]
  BY <1>1, <1>2, Plans
<1>6. Steady(d) /\ Still(d)
  BY <1>2, <1>3, <1>5, Bystander
<1>7. Writing(c) /\ ~Writing(d) /\ job[c] \in Updates(c) /\ tmp[c] = Updated(c)
  BY <1>1, <1>2 DEF Thread, Flow, Lossless, Writing
<1>8. \/ /\ job[c].next = "unuse_load" /\ job[c].word = c
         /\ job[c].field = "master" /\ job[c].value = FALSE
      \/ /\ job[c].next \in {"put_load", "restart", "start"} /\ job[c].word = Owner
         /\ job[c].field = "den" /\ job[c].value = FALSE
      \/ /\ job[c].next \in {"unlock", "idle"} /\ job[c].word = Owner
         /\ job[c].field = "den" /\ job[c].value = TRUE
      \/ /\ job[c].next = "use_load" /\ job[c].word = c
         /\ job[c].field = "master" /\ job[c].value = TRUE
  BY <1>7 DEF Updates
<1>9. /\ tmp[c] \in Word
      /\ tmp[c].den = IF job[c].field = "den" THEN job[c].value ELSE reg[job[c].word].den
      /\ tmp[c].master = IF job[c].field = "master" THEN job[c].value ELSE reg[job[c].word].master
  BY <1>1, <1>7, UpdatedWord
<1>10. /\ reg'[Owner].den = IF job[c].field = "den" THEN job[c].value ELSE reg[Owner].den
       /\ reg'[c].master = IF job[c].field = "master" THEN job[c].value ELSE reg[c].master
       /\ reg'[d].master = reg[d].master
       /\ reg' \in [Crtcs -> Word]
  <2>1. CASE job[c].word = c
    <3>1. reg'[c] = tmp[c] /\ reg'[d] = reg[d] /\ reg' \in [Crtcs -> Word]
      BY <1>1, <1>2, <1>9, <2>1 DEF TypeOK
    <3> QED  BY <1>1, <1>8, <1>9, <2>1, <3>1
  <2>2. CASE job[c].word = d
    <3>1. reg'[d] = tmp[c] /\ reg'[c] = reg[c] /\ reg' \in [Crtcs -> Word]
      BY <1>1, <1>2, <1>9, <2>2 DEF TypeOK
    <3> QED  BY <1>1, <1>8, <1>9, <2>2, <3>1
  <2> QED  BY <1>1, <1>8, <2>1, <2>2
<1>11. /\ Modesetting(c)' => Modesetting(c)
       /\ Modesetting(c) => Modesetting(c)' \/ job[c].next = "idle"
       /\ Locked(c)' <=> Locked(c)
       /\ InUse(c)' <=> InUse(c)
       /\ Holds(c)' <=> Holds(c)
  BY <1>1, <1>3, <1>5, <1>2, <1>7, <1>8
  DEF Thread, Flow, InUse, Holds, Modesetting, Writing, To, Stopping, Halting, Putting,
      Getting, Sourcing, Locked, Entering, Counting, Starting
<1>12. Flow(c)' /\ Flow(d)'
  BY <1>1, <1>2, <1>3, <1>5, <1>6, <1>7, <1>8
  DEF Thread, Flow, Still, Writing, To, Stopping, Halting, Putting, Getting, Sourcing, Locked,
      Entering, Counting, Starting
<1>13. Exclusion(c, d)' /\ Exclusion(d, c)'
  BY <1>1, <1>2, <1>6, <1>11 DEF Thread, Exclusion, Steady, Still
<1>14. Request(c, d)' /\ Request(d, c)'
  BY <1>1, <1>2, <1>3, <1>5, <1>6, <1>7, <1>8
  DEF Thread, Request, Still, Requested, Serving, To, Writing
<1>15. Count(c, d)' /\ Count(d, c)'
  BY <1>1, <1>2, <1>3, <1>4, <1>6, <1>8, <1>11 DEF Thread, Count, Steady
<1>16. TypeOK' /\ ThreadsOK'
  BY <1>1, <1>2, <1>3, <1>4, <1>5, <1>10 DEF TypeOK, ThreadsOK
<1>17. Lossless(c, d)' /\ Lossless(d, c)'
  <2>1. dsysr[job[c].word] = tmp[c] /\ \A e \in {c, d} : e # job[c].word => dsysr[e] = reg[e]
    BY <1>1, <1>2, <1>7 DEF Thread, Lossless, Writing
  <2>2. dsysr'[c] = reg'[c] /\ dsysr'[d] = reg'[d]
    BY <1>1, <1>2, <2>1 DEF TypeOK
  <2>3. pc'[c] \notin {"load", "store", "write"}
    BY <1>3, <1>8
  <2> QED  BY <1>3, <1>7, <2>2, <2>3 DEF Lossless, Writing
<1>18. Runs(c, d)' /\ Runs(d, c)'
  <2>1. CASE Modesetting(c)
    <3>1. ~Modesetting(d) /\ ~Stopping(d) /\ ~Halting(d) /\ ~Putting(d)
      BY <1>1, <2>1, NoModeSet DEF Thread, Exclusion
    <3>2. Runs(d, c)'
      <4>1. ~Modesetting(c)' => job[c].next = "idle"
        BY <1>2, <1>3, <1>8, <2>1 DEF Modesetting
      <4>2. job[c].next = "idle" => Starting(c) /\ c \in active
        BY <1>1, <1>7 DEF Thread, Flow, To, Writing, Stopping, Halting, Starting,
                          Putting, Getting, Sourcing, Locked, Entering, Counting
      <4>3. job[c].next = "idle" => reg'[Owner].den
        BY <1>8, <1>10
      <4>4. ~Stopping(d)' /\ ~Halting(d)' /\ ~Putting(d)' /\ ~Modesetting(d)'
        BY <1>6, <3>1 DEF Steady
      <4>5. d \in active => reg'[d].master
        BY <1>1, <1>10, <3>1 DEF Thread, Runs
      <4> QED  BY <1>2, <4>1, <4>2, <4>3, <4>4, <4>5 DEF Runs
    <3>3. Runs(c, d)'
      <4>1. /\ pc'[c] = job[c].next /\ ~Writing(c)' /\ active' = active
            /\ Stopping(c)' <=> job[c].next = "unuse_load"
            /\ ~Halting(c)'
            /\ Putting(c)' <=> job[c].next = "put_load"
            /\ Counting(c)' <=> job[c].next = "use_load"
            /\ Starting(c)' <=> job[c].next = "start"
            /\ ~Modesetting(c)' => job[c].next = "idle"
        BY <1>2, <1>3, <1>8, <2>1
        DEF Modesetting, Writing, To, Stopping, Halting, Putting, Counting, Starting
      <4>2. /\ job[c].next = "unuse_load" => Stopping(c)
            /\ job[c].next = "put_load" => Halting(c)
            /\ job[c].next \in {"start", "idle"} => Starting(c) /\ c \in active
        BY <1>1, <1>7 DEF Thread, Flow, To, Writing, Stopping, Halting, Starting,
                          Putting, Getting, Sourcing, Locked, Entering, Counting
      <4>3. /\ job[c].next = "unuse_load" => reg'[Owner].den
            /\ job[c].next = "put_load" => ~reg'[Owner].den /\ d \notin active
            /\ job[c].next = "idle" => reg'[Owner].den /\ c \in active
        BY <1>1, <1>8, <1>10, <4>2 DEF Thread, Runs
      <4>4. job[c].next \in {"use_load", "start", "idle"} /\ c \in active => reg'[c].master
        BY <1>1, <1>8, <1>10, <4>2 DEF Thread, Runs
      <4>5. CASE job[c].next \in {"use_load", "start", "idle"}
        BY <4>1, <4>3, <4>4, <4>5 DEF Runs
      <4>6. CASE job[c].next \notin {"use_load", "start", "idle"}
        BY <4>1, <4>3, <4>6 DEF Runs
      <4> QED  BY <4>5, <4>6
    <3> QED  BY <3>2, <3>3
  <2>2. CASE ~Modesetting(c)
    <3>1. Serving(c) /\ kind[c] = "flip" /\ c \in active /\ job[c].field = "den"
      BY <1>1, <1>2, <1>7, <1>8, <2>2
      DEF Thread, Flow, TypeOK, Modesetting, Serving, Locked, To, Writing
    <3>2. kind[d] = "modeset" /\ pc[d] = "lock"
      BY <1>1, <3>1 DEF Thread, Request
    <3> QED
      BY <1>1, <1>2, <1>3, <1>5, <1>6, <1>7, <1>8, <1>10, <3>1, <3>2
      DEF Thread, Flow, Runs, Steady, Modesetting, Writing, To, Stopping, Halting, Putting,
          Getting, Sourcing, Locked, Entering, Counting, Starting
  <2> QED  BY <2>1, <2>2
<1>19. Latches(c, d)' /\ Latches(d, c)'
  BY <1>1, <1>2, <1>3, <1>5, <1>6, <1>7, <1>8, <1>9 DEF Thread, Latches, Still, To, Writing
<1> QED  BY <1>12, <1>13, <1>14, <1>15, <1>16, <1>17, <1>18, <1>19, ForBoth DEF Thread

--------------------------------------------------------------------------------
(* Commits                                                                   *)

\* A page flip holds and uses what its CRTC does already.
LEMMA PageFlipPreserves ==
  ASSUME IInv, NEW c \in Crtcs, NEW d \in Crtcs, d = Other(c), PageFlip(c)
  PROVE  IInv'
<1>1. TypeOK /\ ThreadsOK /\ Thread(c, d) /\ Thread(d, c) /\ d # c
  BY Two, ForBoth
<1>2. /\ pc[c] = "idle" /\ Goto(c, "lock")
      /\ c \in active /\ kind' = [kind EXCEPT ![c] = "flip"]
      /\ UNCHANGED <<tmp, active, job, use_count, used_crtcs, need_restart, lock, dsysr, reg,
                     unlatched>>
  BY DEF PageFlip, From, thread, counts, display
<1>3. pc'[c] = "lock" /\ pc'[d] = pc[d] /\ pc' = [e \in Crtcs |-> pc'[e]]
  BY <1>1, <1>2, Goes
<1>4. kind'[c] = "flip" /\ kind'[d] = kind[d] /\ kind' \in [Crtcs -> {"flip", "modeset"}]
  BY <1>1, <1>2 DEF TypeOK
<1>5. Steady(d) /\ Still(d)
  BY <1>2, <1>3, <1>4, Bystander
<1>6. Steady(c) /\ Flow(c)'
  BY <1>1, <1>2, <1>3, <1>4
  DEF Thread, Flow, Updates, Steady, Holds, InUse, Modesetting, Writing, To, Stopping,
      Halting, Putting, Getting, Sourcing, Locked, Entering, Counting, Starting
<1>7. TypeOK' /\ ThreadsOK'
  BY <1>1, <1>2, <1>3, <1>4 DEF TypeOK, ThreadsOK
<1>8. Exclusion(c, d)' /\ Exclusion(d, c)'
  BY <1>1, <1>2, <1>3, <1>4, <1>5, <1>6
  DEF Thread, Exclusion, Still, Steady, Locked, To, Writing
<1>9. Request(c, d)' /\ Request(d, c)'
  BY <1>1, <1>2, <1>3, <1>4, <1>5
  DEF Thread, Exclusion, Request, Still, Requested, Serving, Locked, To, Writing
<1>10. Count(c, d)' /\ Count(d, c)' /\ Runs(c, d)' /\ Runs(d, c)'
  BY <1>1, <1>2, <1>3, <1>4, <1>5, <1>6, SteadyStep
<1>11. Lossless(c, d)' /\ Lossless(d, c)'
  BY <1>1, <1>2, <1>3, <1>4, UpdatesKept DEF Writing
<1>12. Latches(c, d)' /\ Latches(d, c)'
  BY <1>1, <1>2, <1>3, <1>4, <1>5 DEF Thread, Exclusion, Latches, Still, Locked, To, Writing
<1>13. Flow(d)'
  BY <1>1, <1>5 DEF Thread, Still
<1> QED  BY <1>6, <1>7, <1>8, <1>9, <1>10, <1>11, <1>12, <1>13, ForBoth DEF Thread

\* A mode set is the only one; a page flip that may run beside it is in no restart.
LEMMA ModeSetPreserves ==
  ASSUME Blocking, IInv, NEW c \in Crtcs, NEW d \in Crtcs, d = Other(c), ModeSet(c)
  PROVE  IInv'
<1>1. TypeOK /\ ThreadsOK /\ Thread(c, d) /\ Thread(d, c) /\ d # c
  BY Two, ForBoth
<1>2. /\ pc[c] = "idle" /\ ~Modesetting(d) /\ kind' = [kind EXCEPT ![c] = "modeset"]
      /\ \/ c \in active /\ Goto(c, "slave") /\ active' \in {active, active \ {c}}
         \/ c \notin active /\ Goto(c, "get_load") /\ active' = active \cup {c}
      /\ UNCHANGED <<tmp, job, use_count, used_crtcs, need_restart, lock, dsysr, reg,
                     unlatched>>
  BY DEF ModeSet, StartModeSet, From, counts, display
<1>3. /\ pc'[d] = pc[d] /\ pc' = [e \in Crtcs |-> pc'[e]]
      /\ \/ c \in active /\ pc'[c] = "slave"
         \/ c \notin active /\ pc'[c] = "get_load" /\ c \in active'
      /\ d \in active' <=> d \in active
  <2>1. CASE c \in active
    BY <1>1, <1>2, <2>1, Goes
  <2>2. CASE c \notin active
    BY <1>1, <1>2, <2>2, Goes
  <2> QED  BY <2>1, <2>2
<1>4. kind'[c] = "modeset" /\ kind'[d] = kind[d] /\ kind' \in [Crtcs -> {"flip", "modeset"}]
  BY <1>1, <1>2 DEF TypeOK
<1>5. Steady(d) /\ Still(d)
  BY <1>2, <1>3, <1>4, Bystander
<1>6. /\ ~Modesetting(c) /\ ~Locked(c) /\ (InUse(c) <=> c \in active) /\ (Holds(c) <=> c \in active)
      /\ Modesetting(c)' /\ ~Locked(c)' /\ ~Halting(c)' /\ ~Putting(c)' /\ ~Counting(c)' /\ ~Starting(c)'
      /\ Stopping(c)' <=> c \in active
      /\ InUse(c)' <=> c \in active
      /\ Holds(c)' <=> c \in active
  BY <1>2, <1>3, <1>4
  DEF InUse, Holds, Modesetting, Writing, To, Stopping, Halting, Putting, Getting, Sourcing,
      Locked, Entering, Counting, Starting
<1>7. ~Putting(d) /\ ~Stopping(d) /\ ~Halting(d)
      /\ pc[d] \notin {"unuse_store", "put_store", "get_store", "use_store"}
  BY <1>1, <1>2, NoModeSet DEF Thread
<1>8. Flow(c)' /\ Flow(d)'
  BY <1>1, <1>2, <1>3, <1>4, <1>5
  DEF Thread, Flow, Updates, Still, Writing, To, Stopping, Halting, Putting, Getting,
      Sourcing, Locked, Entering, Counting, Starting
<1>9. Exclusion(c, d)' /\ Exclusion(d, c)'
  BY <1>1, <1>2, <1>5, <1>6 DEF Thread, Exclusion, Steady, Still
<1>10. Request(c, d)' /\ Request(d, c)'
  BY <1>1, <1>2, <1>3, <1>4, <1>5 DEF Thread, Request, Still, Requested, Serving, To, Writing
<1>11. Count(c, d)' /\ Count(d, c)'
  BY <1>1, <1>2, <1>3, <1>5, <1>6, <1>7 DEF Thread, Count, Steady
<1>12. TypeOK' /\ ThreadsOK'
  BY <1>1, <1>2, <1>3, <1>4 DEF TypeOK, ThreadsOK
<1>13. Lossless(c, d)' /\ Lossless(d, c)'
  BY <1>1, <1>2, <1>3, UpdatesKept DEF Writing
<1>14. Runs(c, d)' /\ Runs(d, c)'
  BY <1>1, <1>2, <1>3, <1>5, <1>6, <1>7 DEF Thread, Runs, Steady
<1>15. Latches(c, d)' /\ Latches(d, c)'
  BY <1>1, <1>2, <1>3, <1>5 DEF Thread, Latches, Still, To, Writing
<1> QED  BY <1>8, <1>9, <1>10, <1>11, <1>12, <1>13, <1>14, <1>15, ForBoth DEF Thread

--------------------------------------------------------------------------------
(* Disable                                                                   *)

\* The CRTC leaves master mode while it is still in use.
LEMMA LeaveMasterPreserves ==
  ASSUME IInv, NEW c \in Crtcs, NEW d \in Crtcs, d = Other(c), LeaveMaster(c)
  PROVE  IInv'
<1>1. TypeOK /\ ThreadsOK /\ Thread(c, d) /\ Thread(d, c) /\ d # c
  BY Two, ForBoth
<1>2. /\ pc[c] = "slave" /\ Goto(c, "load")
      /\ job' = [job EXCEPT ![c] = [word |-> c, field |-> "master", value |-> FALSE, next |-> "unuse_load"]]
      /\ UNCHANGED <<tmp, active, kind, use_count, used_crtcs, need_restart, lock, dsysr, reg,
                     unlatched>>
  BY DEF LeaveMaster, From, Update, thread, counts, display
<1>3. pc'[c] = "load" /\ pc'[d] = pc[d] /\ pc' = [e \in Crtcs |-> pc'[e]]
  BY <1>1, <1>2, Goes
<1>4. /\ job'[c] = [word |-> c, field |-> "master", value |-> FALSE, next |-> "unuse_load"]
      /\ job'[d] = job[d] /\ job' \in [Crtcs -> Jobs]
  <2>1. [word |-> c, field |-> "master", value |-> FALSE, next |-> "unuse_load"] \in Updates(c)
    BY DEF Updates
  <2> QED  BY <1>1, <1>2, <2>1, Plans
<1>5. Steady(d) /\ Still(d)
  BY <1>2, <1>3, <1>4, Bystander
<1>6. Steady(c) /\ Flow(c)'
  BY <1>1, <1>2, <1>3, <1>4
  DEF Thread, Flow, Updates, Steady, Holds, InUse, Modesetting, Writing, To, Stopping,
      Halting, Putting, Getting, Sourcing, Locked, Entering, Counting, Starting
<1>7. TypeOK' /\ ThreadsOK'
  BY <1>1, <1>2, <1>3, <1>4 DEF TypeOK, ThreadsOK
<1>8. Exclusion(c, d)' /\ Exclusion(d, c)'
  BY <1>1, <1>2, <1>3, <1>4, <1>5, <1>6
  DEF Thread, Exclusion, Still, Steady, Locked, To, Writing
<1>9. Request(c, d)' /\ Request(d, c)'
  BY <1>1, <1>2, <1>3, <1>4, <1>5
  DEF Thread, Exclusion, Request, Still, Requested, Serving, Locked, To, Writing
<1>10. Count(c, d)' /\ Count(d, c)' /\ Runs(c, d)' /\ Runs(d, c)'
  BY <1>1, <1>2, <1>3, <1>4, <1>5, <1>6, SteadyStep
<1>11. Lossless(c, d)' /\ Lossless(d, c)'
  <2>1. ~Writing(d)
    BY <1>1, <1>2, Alone
    DEF Thread, Flow, Modesetting, Serving, Writing, To, Stopping, Halting, Putting, Getting,
        Sourcing, Locked, Entering, Counting, Starting
  <2> QED  BY <1>1, <1>2, <1>3, <1>4, <2>1, UpdatesKept
<1>12. Latches(c, d)' /\ Latches(d, c)'
  BY <1>1, <1>2, <1>3, <1>4, <1>5 DEF Thread, Exclusion, Latches, Still, Locked, To, Writing
<1>13. Flow(d)'
  BY <1>1, <1>5 DEF Thread, Still
<1> QED  BY <1>6, <1>7, <1>8, <1>9, <1>10, <1>11, <1>12, <1>13, ForBoth DEF Thread

\* The counts stay as loaded: the other thread sets no mode.
LEMMA LoadForUnusePreserves ==
  ASSUME IInv, NEW c \in Crtcs, NEW d \in Crtcs, d = Other(c), LoadForUnuse(c)
  PROVE  IInv'
<1>1. TypeOK /\ ThreadsOK /\ Thread(c, d) /\ Thread(d, c) /\ d # c
  BY Two, ForBoth
<1>2. /\ pc[c] = "unuse_load" /\ Goto(c, "unuse_store")
      /\ tmp' = [tmp EXCEPT ![c] = used_crtcs - 1]
      /\ UNCHANGED <<active, kind, job, use_count, used_crtcs, need_restart, lock, dsysr, reg,
                     unlatched>>
  BY DEF LoadForUnuse, From, thread, counts, display
<1>3. pc'[c] = "unuse_store" /\ pc'[d] = pc[d] /\ pc' = [e \in Crtcs |-> pc'[e]]
  BY <1>1, <1>2, Goes
<1>4. tmp'[c] = used_crtcs - 1 /\ tmp'[d] = tmp[d] /\ tmp' = [e \in Crtcs |-> tmp'[e]]
  BY <1>1, <1>2, Loads
<1>5. Steady(d) /\ Still(d)
  BY <1>2, <1>3, <1>4, Bystander
<1>6. Steady(c) /\ Flow(c)'
  BY <1>1, <1>2, <1>3, <1>4
  DEF Thread, Flow, Updates, Steady, Holds, InUse, Modesetting, Writing, To, Stopping,
      Halting, Putting, Getting, Sourcing, Locked, Entering, Counting, Starting
<1>7. TypeOK' /\ ThreadsOK'
  BY <1>1, <1>2, <1>3, <1>4 DEF TypeOK, ThreadsOK
<1>8. Exclusion(c, d)' /\ Exclusion(d, c)'
  BY <1>1, <1>2, <1>3, <1>4, <1>5, <1>6
  DEF Thread, Exclusion, Still, Steady, Locked, To, Writing
<1>9. Request(c, d)' /\ Request(d, c)'
  BY <1>1, <1>2, <1>3, <1>4, <1>5
  DEF Thread, Exclusion, Request, Still, Requested, Serving, Locked, To, Writing
<1>10. Count(c, d)' /\ Count(d, c)' /\ Runs(c, d)' /\ Runs(d, c)'
  BY <1>1, <1>2, <1>3, <1>4, <1>5, <1>6, SteadyStep
<1>11. Lossless(c, d)' /\ Lossless(d, c)'
  BY <1>1, <1>2, <1>3, <1>4, UpdatesKept DEF Writing
<1>12. Latches(c, d)' /\ Latches(d, c)'
  BY <1>1, <1>2, <1>3, <1>4, <1>5 DEF Thread, Exclusion, Latches, Still, Locked, To, Writing
<1>13. Flow(d)'
  BY <1>1, <1>5 DEF Thread, Still
<1> QED  BY <1>6, <1>7, <1>8, <1>9, <1>10, <1>11, <1>12, <1>13, ForBoth DEF Thread

\* The last user stops the group; otherwise the other CRTC is active.
LEMMA StoreUnusePreserves ==
  ASSUME IInv, NEW c \in Crtcs, NEW d \in Crtcs, d = Other(c), StoreUnuse(c)
  PROVE  IInv'
<1>1. TypeOK /\ ThreadsOK /\ Thread(c, d) /\ Thread(d, c) /\ d # c
  BY Two, ForBoth
<1>2. /\ pc[c] = "unuse_store" /\ used_crtcs' = tmp[c] /\ tmp' = [tmp EXCEPT ![c] = 0]
      /\ \/ /\ tmp[c] = 0 /\ Goto(c, "load")
            /\ job' = [job EXCEPT ![c] =
                         [word |-> Owner, field |-> "den", value |-> FALSE, next |-> "put_load"]]
         \/ tmp[c] # 0 /\ Goto(c, "put_load") /\ job' = job
      /\ UNCHANGED <<active, kind, use_count, need_restart, lock, dsysr, reg, unlatched>>
  BY DEF StoreUnuse, From, Update, StartStop, thread, counts, display
<1>3. tmp'[c] = 0 /\ tmp'[d] = tmp[d] /\ tmp' = [e \in Crtcs |-> tmp'[e]]
  BY <1>1, <1>2, Loads
<1>4. /\ pc'[d] = pc[d] /\ pc' = [e \in Crtcs |-> pc'[e]]
      /\ job'[d] = job[d] /\ job' \in [Crtcs -> Jobs]
      /\ \/ tmp[c] = 0 /\ pc'[c] = "load" /\ job'[c] = [word |-> Owner, field |-> "den", value |-> FALSE, next |-> "put_load"]
         \/ tmp[c] # 0 /\ pc'[c] = "put_load"
  <2>1. CASE tmp[c] = 0
    <3>1. pc'[c] = "load" /\ pc'[d] = pc[d] /\ pc' = [e \in Crtcs |-> pc'[e]]
      BY <1>1, <1>2, <2>1, Goes
    <3>2. [word |-> Owner, field |-> "den", value |-> FALSE, next |-> "put_load"] \in Updates(c)
      BY DEF Updates
    <3>3. /\ job'[c] = [word |-> Owner, field |-> "den", value |-> FALSE, next |-> "put_load"]
          /\ job'[d] = job[d] /\ job' \in [Crtcs -> Jobs]
      BY <1>1, <1>2, <2>1, <3>2, Plans
    <3> QED  BY <2>1, <3>1, <3>3
  <2>2. CASE tmp[c] # 0
    <3>1. pc'[c] = "put_load" /\ pc'[d] = pc[d] /\ pc' = [e \in Crtcs |-> pc'[e]]
      BY <1>1, <1>2, <2>2, Goes
    <3> QED  BY <1>1, <1>2, <2>2, <3>1 DEF TypeOK
  <2> QED  BY <2>1, <2>2
<1>5. Steady(d) /\ Still(d)
  BY <1>2, <1>3, <1>4, Bystander
<1>6. /\ Modesetting(c) /\ Stopping(c) /\ InUse(c) /\ Holds(c)
      /\ Modesetting(c)' /\ ~Stopping(c)' /\ ~Starting(c)' /\ ~Counting(c)'
      /\ Halting(c)' <=> tmp[c] = 0
      /\ Putting(c)' <=> tmp[c] # 0
      /\ ~InUse(c)' /\ Holds(c)'
  BY <1>1, <1>2, <1>3, <1>4
  DEF Thread, Flow, InUse, Holds, Modesetting, Writing, To, Stopping, Halting, Putting,
      Getting, Sourcing, Locked, Entering, Counting, Starting
<1>7. ~Modesetting(d) /\ ~Putting(d) /\ ~Stopping(d) /\ ~Halting(d)
      /\ (InUse(d) <=> d \in active)
      /\ pc[d] \notin {"unuse_store", "put_store", "get_store", "use_store"}
  BY <1>1, <1>6, NoModeSet DEF Thread, Exclusion
<1>8. Flow(c)' /\ Flow(d)'
  BY <1>1, <1>2, <1>3, <1>4, <1>5
  DEF Thread, Flow, Updates, Still, Writing, To, Stopping, Halting, Putting, Getting,
      Sourcing, Locked, Entering, Counting, Starting
<1>9. Exclusion(c, d)' /\ Exclusion(d, c)'
  BY <1>1, <1>2, <1>3, <1>4, <1>5, <1>6, <1>7
  DEF Thread, Exclusion, Steady, Still, Locked, To, Writing
<1>10. Request(c, d)' /\ Request(d, c)'
  BY <1>1, <1>2, <1>3, <1>4, <1>5, <1>7
  DEF Thread, Request, Still, Requested, Serving, To, Writing
<1>11. Count(c, d)' /\ Count(d, c)'
  BY <1>1, <1>2, <1>3, <1>4, <1>5, <1>6, <1>7 DEF Thread, Count, Steady
<1>12. TypeOK' /\ ThreadsOK'
  <2>1. use_count' \in 0..2 /\ used_crtcs' \in 0..2
    BY <1>11 DEF Count
  <2> QED  BY <1>1, <1>2, <1>3, <1>4, <2>1, NumberOfCrtcs DEF TypeOK, ThreadsOK
<1>13. Lossless(c, d)' /\ Lossless(d, c)'
  <2>1. ~Writing(d)
    BY <1>1, <1>2, <1>6, Alone
  <2> QED  BY <1>1, <1>2, <1>3, <1>4, <2>1, UpdatesKept
<1>14. Runs(c, d)' /\ Runs(d, c)'
  BY <1>1, <1>2, <1>3, <1>4, <1>5, <1>6, <1>7 DEF Thread, Runs, Count, Steady
<1>15. Latches(c, d)' /\ Latches(d, c)'
  BY <1>1, <1>2, <1>3, <1>4, <1>5 DEF Thread, Latches, Still, To, Writing
<1> QED  BY <1>8, <1>9, <1>10, <1>11, <1>12, <1>13, <1>14, <1>15, ForBoth DEF Thread

\* Likewise for the other count, ...
LEMMA LoadForPutPreserves ==
  ASSUME IInv, NEW c \in Crtcs, NEW d \in Crtcs, d = Other(c), LoadForPut(c)
  PROVE  IInv'
<1>1. TypeOK /\ ThreadsOK /\ Thread(c, d) /\ Thread(d, c) /\ d # c
  BY Two, ForBoth
<1>2. /\ pc[c] = "put_load" /\ Goto(c, "put_store")
      /\ tmp' = [tmp EXCEPT ![c] = use_count - 1]
      /\ UNCHANGED <<active, kind, job, use_count, used_crtcs, need_restart, lock, dsysr, reg,
                     unlatched>>
  BY DEF LoadForPut, From, thread, counts, display
<1>3. pc'[c] = "put_store" /\ pc'[d] = pc[d] /\ pc' = [e \in Crtcs |-> pc'[e]]
  BY <1>1, <1>2, Goes
<1>4. tmp'[c] = use_count - 1 /\ tmp'[d] = tmp[d] /\ tmp' = [e \in Crtcs |-> tmp'[e]]
  BY <1>1, <1>2, Loads
<1>5. Steady(d) /\ Still(d)
  BY <1>2, <1>3, <1>4, Bystander
<1>6. Steady(c) /\ Flow(c)'
  BY <1>1, <1>2, <1>3, <1>4
  DEF Thread, Flow, Updates, Steady, Holds, InUse, Modesetting, Writing, To, Stopping,
      Halting, Putting, Getting, Sourcing, Locked, Entering, Counting, Starting
<1>7. TypeOK' /\ ThreadsOK'
  BY <1>1, <1>2, <1>3, <1>4 DEF TypeOK, ThreadsOK
<1>8. Exclusion(c, d)' /\ Exclusion(d, c)'
  BY <1>1, <1>2, <1>3, <1>4, <1>5, <1>6
  DEF Thread, Exclusion, Still, Steady, Locked, To, Writing
<1>9. Request(c, d)' /\ Request(d, c)'
  BY <1>1, <1>2, <1>3, <1>4, <1>5
  DEF Thread, Exclusion, Request, Still, Requested, Serving, Locked, To, Writing
<1>10. Count(c, d)' /\ Count(d, c)' /\ Runs(c, d)' /\ Runs(d, c)'
  BY <1>1, <1>2, <1>3, <1>4, <1>5, <1>6, SteadyStep
<1>11. Lossless(c, d)' /\ Lossless(d, c)'
  BY <1>1, <1>2, <1>3, <1>4, UpdatesKept DEF Writing
<1>12. Latches(c, d)' /\ Latches(d, c)'
  BY <1>1, <1>2, <1>3, <1>4, <1>5 DEF Thread, Exclusion, Latches, Still, Locked, To, Writing
<1>13. Flow(d)'
  BY <1>1, <1>5 DEF Thread, Still
<1> QED  BY <1>6, <1>7, <1>8, <1>9, <1>10, <1>11, <1>12, <1>13, ForBoth DEF Thread

\* The CRTC gives the group up, perhaps to take it again in begin.
LEMMA StorePutPreserves ==
  ASSUME IInv, NEW c \in Crtcs, NEW d \in Crtcs, d = Other(c), StorePut(c)
  PROVE  IInv'
<1>1. TypeOK /\ ThreadsOK /\ Thread(c, d) /\ Thread(d, c) /\ d # c
  BY Two, ForBoth
<1>2. /\ pc[c] = "put_store" /\ use_count' = tmp[c] /\ tmp' = [tmp EXCEPT ![c] = 0]
      /\ Goto(c, IF c \in active THEN "get_load" ELSE "idle")
      /\ UNCHANGED <<active, kind, job, used_crtcs, need_restart, lock, dsysr, reg,
                     unlatched>>
  BY DEF StorePut, From, thread, counts, display
<1>3. tmp'[c] = 0 /\ tmp'[d] = tmp[d] /\ tmp' = [e \in Crtcs |-> tmp'[e]]
  BY <1>1, <1>2, Loads
<1>4. /\ pc'[c] = (IF c \in active THEN "get_load" ELSE "idle")
      /\ pc'[d] = pc[d] /\ pc' = [e \in Crtcs |-> pc'[e]]
  BY <1>1, <1>2, Goes
<1>5. Steady(d) /\ Still(d)
  BY <1>2, <1>3, <1>4, Bystander
<1>6. /\ Modesetting(c) /\ Putting(c) /\ ~InUse(c) /\ Holds(c)
      /\ Modesetting(c)' <=> c \in active
      /\ ~Stopping(c)' /\ ~Halting(c)' /\ ~Putting(c)' /\ ~Counting(c)' /\ ~Starting(c)'
      /\ ~InUse(c)' /\ ~Holds(c)'
  BY <1>1, <1>2, <1>3, <1>4
  DEF Thread, Flow, InUse, Holds, Modesetting, Writing, To, Stopping, Halting, Putting,
      Getting, Sourcing, Locked, Entering, Counting, Starting
<1>7. ~Modesetting(d) /\ ~Putting(d) /\ ~Stopping(d) /\ ~Halting(d)
      /\ (InUse(d) <=> d \in active)
      /\ pc[d] \notin {"unuse_store", "put_store", "get_store", "use_store"}
  BY <1>1, <1>6, NoModeSet DEF Thread, Exclusion
<1>8. Flow(c)' /\ Flow(d)'
  BY <1>1, <1>2, <1>3, <1>4, <1>5
  DEF Thread, Flow, Updates, Still, Writing, To, Stopping, Halting, Putting, Getting,
      Sourcing, Locked, Entering, Counting, Starting
<1>9. Exclusion(c, d)' /\ Exclusion(d, c)'
  BY <1>1, <1>2, <1>3, <1>4, <1>5, <1>6, <1>7
  DEF Thread, Exclusion, Steady, Still, Locked, To, Writing
<1>10. Request(c, d)' /\ Request(d, c)'
  BY <1>1, <1>2, <1>3, <1>4, <1>5, <1>7
  DEF Thread, Request, Still, Requested, Serving, To, Writing
<1>11. Count(c, d)' /\ Count(d, c)'
  BY <1>1, <1>2, <1>3, <1>4, <1>5, <1>6, <1>7 DEF Thread, Count, Steady
<1>12. TypeOK' /\ ThreadsOK'
  <2>1. use_count' \in 0..2 /\ used_crtcs' \in 0..2
    BY <1>11 DEF Count
  <2> QED  BY <1>1, <1>2, <1>3, <1>4, <2>1, NumberOfCrtcs DEF TypeOK, ThreadsOK
<1>13. Lossless(c, d)' /\ Lossless(d, c)'
  BY <1>1, <1>2, <1>3, <1>4, UpdatesKept DEF Writing
<1>14. Runs(c, d)' /\ Runs(d, c)'
  BY <1>1, <1>2, <1>3, <1>4, <1>5, <1>6, <1>7 DEF Thread, Runs, Count, Steady
<1>15. Latches(c, d)' /\ Latches(d, c)'
  BY <1>1, <1>2, <1>3, <1>4, <1>5 DEF Thread, Latches, Still, To, Writing
<1> QED  BY <1>8, <1>9, <1>10, <1>11, <1>12, <1>13, <1>14, <1>15, ForBoth DEF Thread

--------------------------------------------------------------------------------
(* Begin                                                                     *)

\* The count of users is loaded, ...
LEMMA LoadForGetPreserves ==
  ASSUME IInv, NEW c \in Crtcs, NEW d \in Crtcs, d = Other(c), LoadForGet(c)
  PROVE  IInv'
<1>1. TypeOK /\ ThreadsOK /\ Thread(c, d) /\ Thread(d, c) /\ d # c
  BY Two, ForBoth
<1>2. /\ pc[c] = "get_load" /\ Goto(c, "get_store")
      /\ tmp' = [tmp EXCEPT ![c] = use_count + 1]
      /\ UNCHANGED <<active, kind, job, use_count, used_crtcs, need_restart, lock, dsysr, reg,
                     unlatched>>
  BY DEF LoadForGet, From, thread, counts, display
<1>3. pc'[c] = "get_store" /\ pc'[d] = pc[d] /\ pc' = [e \in Crtcs |-> pc'[e]]
  BY <1>1, <1>2, Goes
<1>4. tmp'[c] = use_count + 1 /\ tmp'[d] = tmp[d] /\ tmp' = [e \in Crtcs |-> tmp'[e]]
  BY <1>1, <1>2, Loads
<1>5. Steady(d) /\ Still(d)
  BY <1>2, <1>3, <1>4, Bystander
<1>6. Steady(c) /\ Flow(c)'
  BY <1>1, <1>2, <1>3, <1>4
  DEF Thread, Flow, Updates, Steady, Holds, InUse, Modesetting, Writing, To, Stopping,
      Halting, Putting, Getting, Sourcing, Locked, Entering, Counting, Starting
<1>7. TypeOK' /\ ThreadsOK'
  BY <1>1, <1>2, <1>3, <1>4 DEF TypeOK, ThreadsOK
<1>8. Exclusion(c, d)' /\ Exclusion(d, c)'
  BY <1>1, <1>2, <1>3, <1>4, <1>5, <1>6
  DEF Thread, Exclusion, Still, Steady, Locked, To, Writing
<1>9. Request(c, d)' /\ Request(d, c)'
  BY <1>1, <1>2, <1>3, <1>4, <1>5
  DEF Thread, Exclusion, Request, Still, Requested, Serving, Locked, To, Writing
<1>10. Count(c, d)' /\ Count(d, c)' /\ Runs(c, d)' /\ Runs(d, c)'
  BY <1>1, <1>2, <1>3, <1>4, <1>5, <1>6, SteadyStep
<1>11. Lossless(c, d)' /\ Lossless(d, c)'
  BY <1>1, <1>2, <1>3, <1>4, UpdatesKept DEF Writing
<1>12. Latches(c, d)' /\ Latches(d, c)'
  BY <1>1, <1>2, <1>3, <1>4, <1>5 DEF Thread, Exclusion, Latches, Still, Locked, To, Writing
<1>13. Flow(d)'
  BY <1>1, <1>5 DEF Thread, Still
<1> QED  BY <1>6, <1>7, <1>8, <1>9, <1>10, <1>11, <1>12, <1>13, ForBoth DEF Thread

\* The count of users is stored with the CRTC in it.
LEMMA StoreGetPreserves ==
  ASSUME IInv, NEW c \in Crtcs, NEW d \in Crtcs, d = Other(c), StoreGet(c)
  PROVE  IInv'
<1>1. TypeOK /\ ThreadsOK /\ Thread(c, d) /\ Thread(d, c) /\ d # c
  BY Two, ForBoth
<1>2. /\ pc[c] = "get_store" /\ use_count' = tmp[c] /\ tmp' = [tmp EXCEPT ![c] = 0]
      /\ Goto(c, "source")
      /\ UNCHANGED <<active, kind, job, used_crtcs, need_restart, lock, dsysr, reg,
                     unlatched>>
  BY DEF StoreGet, From, thread, counts, display
<1>3. tmp'[c] = 0 /\ tmp'[d] = tmp[d] /\ tmp' = [e \in Crtcs |-> tmp'[e]]
  BY <1>1, <1>2, Loads
<1>4. pc'[c] = "source" /\ pc'[d] = pc[d] /\ pc' = [e \in Crtcs |-> pc'[e]]
  BY <1>1, <1>2, Goes
<1>5. Steady(d) /\ Still(d)
  BY <1>2, <1>3, <1>4, Bystander
<1>6. /\ Modesetting(c) /\ ~InUse(c) /\ ~Holds(c) /\ Modesetting(c)'
      /\ ~Stopping(c)' /\ ~Halting(c)' /\ ~Putting(c)' /\ ~Counting(c)' /\ ~Starting(c)'
      /\ ~InUse(c)' /\ Holds(c)'
  BY <1>1, <1>2, <1>3, <1>4
  DEF Thread, Flow, InUse, Holds, Modesetting, Writing, To, Stopping, Halting, Putting,
      Getting, Sourcing, Locked, Entering, Counting, Starting
<1>7. ~Modesetting(d) /\ ~Putting(d) /\ ~Stopping(d) /\ ~Halting(d)
      /\ (InUse(d) <=> d \in active)
      /\ pc[d] \notin {"unuse_store", "put_store", "get_store", "use_store"}
  BY <1>1, <1>6, NoModeSet DEF Thread, Exclusion
<1>8. Flow(c)' /\ Flow(d)'
  BY <1>1, <1>2, <1>3, <1>4, <1>5
  DEF Thread, Flow, Updates, Still, Writing, To, Stopping, Halting, Putting, Getting,
      Sourcing, Locked, Entering, Counting, Starting
<1>9. Exclusion(c, d)' /\ Exclusion(d, c)'
  BY <1>1, <1>2, <1>3, <1>4, <1>5, <1>6, <1>7
  DEF Thread, Exclusion, Steady, Still, Locked, To, Writing
<1>10. Request(c, d)' /\ Request(d, c)'
  BY <1>1, <1>2, <1>3, <1>4, <1>5, <1>7
  DEF Thread, Request, Still, Requested, Serving, To, Writing
<1>11. Count(c, d)' /\ Count(d, c)'
  BY <1>1, <1>2, <1>3, <1>4, <1>5, <1>6, <1>7 DEF Thread, Count, Steady
<1>12. TypeOK' /\ ThreadsOK'
  <2>1. use_count' \in 0..2 /\ used_crtcs' \in 0..2
    BY <1>11 DEF Count
  <2> QED  BY <1>1, <1>2, <1>3, <1>4, <2>1, NumberOfCrtcs DEF TypeOK, ThreadsOK
<1>13. Lossless(c, d)' /\ Lossless(d, c)'
  BY <1>1, <1>2, <1>3, <1>4, UpdatesKept DEF Writing
<1>14. Runs(c, d)' /\ Runs(d, c)'
  BY <1>1, <1>2, <1>3, <1>4, <1>5, <1>6, <1>7 DEF Thread, Runs, Count, Steady
<1>15. Latches(c, d)' /\ Latches(d, c)'
  BY <1>1, <1>2, <1>3, <1>4, <1>5 DEF Thread, Latches, Still, To, Writing
<1> QED  BY <1>8, <1>9, <1>10, <1>11, <1>12, <1>13, <1>14, <1>15, ForBoth DEF Thread

\* The source written may wait for the restart to be requested next.
LEMMA WriteSourcePreserves ==
  ASSUME IInv, NEW c \in Crtcs, NEW d \in Crtcs, d = Other(c), WriteSource(c)
  PROVE  IInv'
<1>1. TypeOK /\ ThreadsOK /\ Thread(c, d) /\ Thread(d, c) /\ d # c
  BY Two, ForBoth
<1>2. /\ pc[c] = "source" /\ Goto(c, "request")
      /\ unlatched' = IF reg[Owner].den THEN unlatched \cup {c} ELSE unlatched
      /\ UNCHANGED <<tmp, active, kind, job, use_count, used_crtcs, need_restart, lock, dsysr,
                     reg>>
  BY DEF WriteSource, From, thread, counts, display
<1>3. pc'[c] = "request" /\ pc'[d] = pc[d] /\ pc' = [e \in Crtcs |-> pc'[e]]
  BY <1>1, <1>2, Goes
<1>5. Steady(d) /\ Still(d)
  BY <1>2, <1>3, Bystander
<1>6. Steady(c) /\ Flow(c)'
  BY <1>1, <1>2, <1>3
  DEF Thread, Flow, Updates, Steady, Holds, InUse, Modesetting, Writing, To, Stopping,
      Halting, Putting, Getting, Sourcing, Locked, Entering, Counting, Starting
<1>7. TypeOK' /\ ThreadsOK'
  BY <1>1, <1>2, <1>3 DEF TypeOK, ThreadsOK
<1>8. Exclusion(c, d)' /\ Exclusion(d, c)'
  BY <1>1, <1>2, <1>3, <1>5, <1>6 DEF Thread, Exclusion, Still, Steady, Locked, To, Writing
<1>9. Request(c, d)' /\ Request(d, c)'
  BY <1>1, <1>2, <1>3, <1>5
  DEF Thread, Exclusion, Request, Still, Requested, Serving, Locked, To, Writing
<1>10. Count(c, d)' /\ Count(d, c)' /\ Runs(c, d)' /\ Runs(d, c)'
  BY <1>1, <1>2, <1>3, <1>5, <1>6, SteadyStep
<1>11. Lossless(c, d)' /\ Lossless(d, c)'
  BY <1>1, <1>2, <1>3, UpdatesKept DEF Writing
<1>12. Latches(c, d)' /\ Latches(d, c)'
  BY <1>1, <1>2, <1>3, <1>5 DEF Thread, Exclusion, Latches, Still, Locked, To, Writing
<1>13. Flow(d)'
  BY <1>1, <1>5 DEF Thread, Still
<1> QED  BY <1>6, <1>7, <1>8, <1>9, <1>10, <1>11, <1>12, <1>13, ForBoth DEF Thread

\* From here on either thread may serve the request.
LEMMA RequestRestartPreserves ==
  ASSUME IInv, NEW c \in Crtcs, NEW d \in Crtcs, d = Other(c), RequestRestart(c)
  PROVE  IInv'
<1>1. TypeOK /\ ThreadsOK /\ Thread(c, d) /\ Thread(d, c) /\ d # c
  BY Two, ForBoth
<1>2. /\ pc[c] = "request" /\ Goto(c, "lock")
      /\ need_restart' = TRUE
      /\ UNCHANGED <<tmp, active, kind, job, use_count, used_crtcs, lock, dsysr, reg,
                     unlatched>>
  BY DEF RequestRestart, From, thread, counts, display
<1>3. pc'[c] = "lock" /\ pc'[d] = pc[d] /\ pc' = [e \in Crtcs |-> pc'[e]]
  BY <1>1, <1>2, Goes
<1>5. Steady(d) /\ Still(d)
  BY <1>2, <1>3, Bystander
<1>6. Steady(c) /\ Flow(c)'
  BY <1>1, <1>2, <1>3
  DEF Thread, Flow, Updates, Steady, Holds, InUse, Modesetting, Writing, To, Stopping,
      Halting, Putting, Getting, Sourcing, Locked, Entering, Counting, Starting
<1>7. TypeOK' /\ ThreadsOK'
  BY <1>1, <1>2, <1>3 DEF TypeOK, ThreadsOK
<1>8. Exclusion(c, d)' /\ Exclusion(d, c)'
  BY <1>1, <1>2, <1>3, <1>5, <1>6 DEF Thread, Exclusion, Still, Steady, Locked, To, Writing
<1>9. Request(c, d)' /\ Request(d, c)'
  BY <1>1, <1>2, <1>3, <1>5
  DEF Thread, Exclusion, Request, Still, Requested, Serving, Flow, Writing, To, Stopping,
      Halting, Putting, Getting, Sourcing, Locked, Entering, Counting, Starting
<1>10. Count(c, d)' /\ Count(d, c)' /\ Runs(c, d)' /\ Runs(d, c)'
  BY <1>1, <1>2, <1>3, <1>5, <1>6, SteadyStep
<1>11. Lossless(c, d)' /\ Lossless(d, c)'
  BY <1>1, <1>2, <1>3, UpdatesKept DEF Writing
<1>12. Latches(c, d)' /\ Latches(d, c)'
  BY <1>1, <1>2, <1>3, <1>5 DEF Thread, Exclusion, Latches, Still, Locked, To, Writing
<1>13. Flow(d)'
  BY <1>1, <1>5 DEF Thread, Still
<1> QED  BY <1>6, <1>7, <1>8, <1>9, <1>10, <1>11, <1>12, <1>13, ForBoth DEF Thread

--------------------------------------------------------------------------------
(* Flush                                                                     *)

\* The lock is free to take: the other thread is in no restart.
LEMMA TakeLockPreserves ==
  ASSUME IInv, NEW c \in Crtcs, NEW d \in Crtcs, d = Other(c), TakeLock(c)
  PROVE  IInv'
<1>1. TypeOK /\ ThreadsOK /\ Thread(c, d) /\ Thread(d, c) /\ d # c
  BY Two, ForBoth
<1>2. /\ pc[c] = "lock" /\ Goto(c, "test")
      /\ lock = NoOne /\ lock' = c
      /\ UNCHANGED <<tmp, active, kind, job, use_count, used_crtcs, need_restart, dsysr, reg,
                     unlatched>>
  BY DEF TakeLock, From, thread, counts, display
<1>3. pc'[c] = "test" /\ pc'[d] = pc[d] /\ pc' = [e \in Crtcs |-> pc'[e]]
  BY <1>1, <1>2, Goes
<1>5. Steady(d) /\ Still(d)
  BY <1>2, <1>3, Bystander
<1>6. Steady(c) /\ Flow(c)'
  BY <1>1, <1>2, <1>3
  DEF Thread, Flow, Updates, Steady, Holds, InUse, Modesetting, Writing, To, Stopping,
      Halting, Putting, Getting, Sourcing, Locked, Entering, Counting, Starting
<1>7. TypeOK' /\ ThreadsOK'
  BY <1>1, <1>2, <1>3 DEF TypeOK, ThreadsOK
<1>8. Exclusion(c, d)' /\ Exclusion(d, c)'
  BY <1>1, <1>2, <1>3, <1>5, <1>6, Two
  DEF Thread, Exclusion, Still, Steady, Locked, To, Writing
<1>9. Request(c, d)' /\ Request(d, c)'
  BY <1>1, <1>2, <1>3, <1>5, Two
  DEF Thread, Exclusion, Request, Still, Requested, Serving, Locked, To, Writing
<1>10. Count(c, d)' /\ Count(d, c)' /\ Runs(c, d)' /\ Runs(d, c)'
  BY <1>1, <1>2, <1>3, <1>5, <1>6, SteadyStep
<1>11. Lossless(c, d)' /\ Lossless(d, c)'
  BY <1>1, <1>2, <1>3, UpdatesKept DEF Writing
<1>12. Latches(c, d)' /\ Latches(d, c)'
  BY <1>1, <1>2, <1>3, <1>5, Two DEF Thread, Exclusion, Latches, Still, Locked, To, Writing
<1>13. Flow(d)'
  BY <1>1, <1>5 DEF Thread, Still
<1> QED  BY <1>6, <1>7, <1>8, <1>9, <1>10, <1>11, <1>12, <1>13, ForBoth DEF Thread

\* With the lock held a request found is still there, and one not found was served.
LEMMA TestRestartPreserves ==
  ASSUME IInv, NEW c \in Crtcs, NEW d \in Crtcs, d = Other(c), TestRestart(c)
  PROVE  IInv'
<1>1. TypeOK /\ ThreadsOK /\ Thread(c, d) /\ Thread(d, c) /\ d # c
  BY Two, ForBoth
<1>2. /\ pc[c] = "test" /\ Goto(c, IF need_restart THEN "clear" ELSE "unlock")
      /\ UNCHANGED <<tmp, active, kind, job, use_count, used_crtcs, need_restart, lock, dsysr,
                     reg, unlatched>>
  BY DEF TestRestart, From, thread, counts, display
<1>3. /\ pc'[c] = (IF need_restart THEN "clear" ELSE "unlock")
      /\ pc'[d] = pc[d] /\ pc' = [e \in Crtcs |-> pc'[e]]
  BY <1>1, <1>2, Goes
<1>5. Steady(d) /\ Still(d)
  BY <1>2, <1>3, Bystander
<1>6. Steady(c) /\ Flow(c)'
  BY <1>1, <1>2, <1>3
  DEF Thread, Flow, Updates, Steady, Holds, InUse, Modesetting, Writing, To, Stopping,
      Halting, Putting, Getting, Sourcing, Locked, Entering, Counting, Starting
<1>7. TypeOK' /\ ThreadsOK'
  BY <1>1, <1>2, <1>3 DEF TypeOK, ThreadsOK
<1>8. Exclusion(c, d)' /\ Exclusion(d, c)'
  BY <1>1, <1>2, <1>3, <1>5, <1>6 DEF Thread, Exclusion, Still, Steady, Locked, To, Writing
<1>9. Request(c, d)' /\ Request(d, c)'
  BY <1>1, <1>2, <1>3, <1>5
  DEF Thread, Exclusion, Request, Still, Requested, Serving, Locked, To, Writing
<1>10. Count(c, d)' /\ Count(d, c)' /\ Runs(c, d)' /\ Runs(d, c)'
  BY <1>1, <1>2, <1>3, <1>5, <1>6, SteadyStep
<1>11. Lossless(c, d)' /\ Lossless(d, c)'
  BY <1>1, <1>2, <1>3, UpdatesKept DEF Writing
<1>12. Latches(c, d)' /\ Latches(d, c)'
  BY <1>1, <1>2, <1>3, <1>5 DEF Thread, Exclusion, Latches, Still, Locked, To, Writing
<1>13. Flow(d)'
  BY <1>1, <1>5 DEF Thread, Still
<1> QED  BY <1>6, <1>7, <1>8, <1>9, <1>10, <1>11, <1>12, <1>13, ForBoth DEF Thread

\* The restart has begun, in place of the request.
LEMMA ClearRequestPreserves ==
  ASSUME IInv, NEW c \in Crtcs, NEW d \in Crtcs, d = Other(c), ClearRequest(c)
  PROVE  IInv'
<1>1. TypeOK /\ ThreadsOK /\ Thread(c, d) /\ Thread(d, c) /\ d # c
  BY Two, ForBoth
<1>2. /\ pc[c] = "clear" /\ Goto(c, "load")
      /\ need_restart' = FALSE
      /\ job' = [job EXCEPT ![c] = [word |-> Owner, field |-> "den", value |-> FALSE, next |-> "restart"]]
      /\ UNCHANGED <<tmp, active, kind, use_count, used_crtcs, lock, dsysr, reg, unlatched>>
  BY DEF ClearRequest, From, Update, StartStop, thread, counts, display
<1>3. pc'[c] = "load" /\ pc'[d] = pc[d] /\ pc' = [e \in Crtcs |-> pc'[e]]
  BY <1>1, <1>2, Goes
<1>4. /\ job'[c] = [word |-> Owner, field |-> "den", value |-> FALSE, next |-> "restart"]
      /\ job'[d] = job[d] /\ job' \in [Crtcs -> Jobs]
  <2>1. [word |-> Owner, field |-> "den", value |-> FALSE, next |-> "restart"] \in Updates(c)
    BY DEF Updates
  <2> QED  BY <1>1, <1>2, <2>1, Plans
<1>5. Steady(d) /\ Still(d)
  BY <1>2, <1>3, <1>4, Bystander
<1>6. Steady(c) /\ Flow(c)'
  BY <1>1, <1>2, <1>3, <1>4
  DEF Thread, Flow, Updates, Steady, Holds, InUse, Modesetting, Writing, To, Stopping,
      Halting, Putting, Getting, Sourcing, Locked, Entering, Counting, Starting
<1>7. TypeOK' /\ ThreadsOK'
  BY <1>1, <1>2, <1>3, <1>4 DEF TypeOK, ThreadsOK
<1>8. Exclusion(c, d)' /\ Exclusion(d, c)'
  BY <1>1, <1>2, <1>3, <1>4, <1>5, <1>6
  DEF Thread, Exclusion, Still, Steady, Locked, To, Writing
<1>9. Request(c, d)' /\ Request(d, c)'
  BY <1>1, <1>2, <1>3, <1>4, <1>5
  DEF Thread, Exclusion, Request, Still, Requested, Serving, Locked, To, Writing
<1>10. Count(c, d)' /\ Count(d, c)' /\ Runs(c, d)' /\ Runs(d, c)'
  BY <1>1, <1>2, <1>3, <1>4, <1>5, <1>6, SteadyStep
<1>11. Lossless(c, d)' /\ Lossless(d, c)'
  <2>1. ~Writing(d)
    BY <1>1, <1>2, Alone
    DEF Thread, Flow, Modesetting, Serving, Writing, To, Stopping, Halting, Putting, Getting,
        Sourcing, Locked, Entering, Counting, Starting
  <2> QED  BY <1>1, <1>2, <1>3, <1>4, <2>1, UpdatesKept
<1>12. Latches(c, d)' /\ Latches(d, c)'
  BY <1>1, <1>2, <1>3, <1>4, <1>5 DEF Thread, Exclusion, Latches, Still, Locked, To, Writing
<1>13. Flow(d)'
  BY <1>1, <1>5 DEF Thread, Still
<1> QED  BY <1>6, <1>7, <1>8, <1>9, <1>10, <1>11, <1>12, <1>13, ForBoth DEF Thread

\* The group was stopped, which latched all sources.
LEMMA RestartPreserves ==
  ASSUME IInv, NEW c \in Crtcs, NEW d \in Crtcs, d = Other(c), Restart(c)
  PROVE  IInv'
<1>1. TypeOK /\ ThreadsOK /\ Thread(c, d) /\ Thread(d, c) /\ d # c
  BY Two, ForBoth
<1>2. /\ pc[c] = "restart" /\ Goto(c, "load")
      /\ job' = [job EXCEPT ![c] = [word |-> Owner, field |-> "den", value |-> TRUE, next |-> "unlock"]]
      /\ UNCHANGED <<tmp, active, kind, use_count, used_crtcs, need_restart, lock, dsysr, reg,
                     unlatched>>
  BY DEF Restart, From, Update, StartStop, thread, counts, display
<1>3. pc'[c] = "load" /\ pc'[d] = pc[d] /\ pc' = [e \in Crtcs |-> pc'[e]]
  BY <1>1, <1>2, Goes
<1>4. /\ job'[c] = [word |-> Owner, field |-> "den", value |-> TRUE, next |-> "unlock"]
      /\ job'[d] = job[d] /\ job' \in [Crtcs -> Jobs]
  <2>1. [word |-> Owner, field |-> "den", value |-> TRUE, next |-> "unlock"] \in Updates(c)
    BY DEF Updates
  <2> QED  BY <1>1, <1>2, <2>1, Plans
<1>5. Steady(d) /\ Still(d)
  BY <1>2, <1>3, <1>4, Bystander
<1>6. Steady(c) /\ Flow(c)'
  BY <1>1, <1>2, <1>3, <1>4
  DEF Thread, Flow, Updates, Steady, Holds, InUse, Modesetting, Writing, To, Stopping,
      Halting, Putting, Getting, Sourcing, Locked, Entering, Counting, Starting
<1>7. TypeOK' /\ ThreadsOK'
  BY <1>1, <1>2, <1>3, <1>4 DEF TypeOK, ThreadsOK
<1>8. Exclusion(c, d)' /\ Exclusion(d, c)'
  BY <1>1, <1>2, <1>3, <1>4, <1>5, <1>6
  DEF Thread, Exclusion, Still, Steady, Locked, To, Writing
<1>9. Request(c, d)' /\ Request(d, c)'
  BY <1>1, <1>2, <1>3, <1>4, <1>5
  DEF Thread, Exclusion, Request, Still, Requested, Serving, Locked, To, Writing
<1>10. Count(c, d)' /\ Count(d, c)' /\ Runs(c, d)' /\ Runs(d, c)'
  BY <1>1, <1>2, <1>3, <1>4, <1>5, <1>6, SteadyStep
<1>11. Lossless(c, d)' /\ Lossless(d, c)'
  <2>1. ~Writing(d)
    BY <1>1, <1>2, Alone
    DEF Thread, Flow, Modesetting, Serving, Writing, To, Stopping, Halting, Putting, Getting,
        Sourcing, Locked, Entering, Counting, Starting
  <2> QED  BY <1>1, <1>2, <1>3, <1>4, <2>1, UpdatesKept
<1>12. Latches(c, d)' /\ Latches(d, c)'
  BY <1>1, <1>2, <1>3, <1>4, <1>5 DEF Thread, Exclusion, Latches, Still, Locked, To, Writing
<1>13. Flow(d)'
  BY <1>1, <1>5 DEF Thread, Still
<1> QED  BY <1>6, <1>7, <1>8, <1>9, <1>10, <1>11, <1>12, <1>13, ForBoth DEF Thread

\* A thread that drops the lock has its own source in effect.
LEMMA DropLockPreserves ==
  ASSUME IInv, NEW c \in Crtcs, NEW d \in Crtcs, d = Other(c), DropLock(c)
  PROVE  IInv'
<1>1. TypeOK /\ ThreadsOK /\ Thread(c, d) /\ Thread(d, c) /\ d # c
  BY Two, ForBoth
<1>2. /\ pc[c] = "unlock" /\ Goto(c, IF kind[c] = "modeset" THEN "master" ELSE "idle")
      /\ lock' = NoOne
      /\ UNCHANGED <<tmp, active, kind, job, use_count, used_crtcs, need_restart, dsysr, reg,
                     unlatched>>
  BY DEF DropLock, From, thread, counts, display
<1>3. /\ pc'[c] = (IF kind[c] = "modeset" THEN "master" ELSE "idle")
      /\ pc'[d] = pc[d] /\ pc' = [e \in Crtcs |-> pc'[e]]
  BY <1>1, <1>2, Goes
<1>5. Steady(d) /\ Still(d)
  BY <1>2, <1>3, Bystander
<1>6. Steady(c) /\ Flow(c)'
  BY <1>1, <1>2, <1>3
  DEF Thread, Flow, Updates, Steady, Holds, InUse, Modesetting, Writing, To, Stopping,
      Halting, Putting, Getting, Sourcing, Locked, Entering, Counting, Starting
<1>7. TypeOK' /\ ThreadsOK'
  BY <1>1, <1>2, <1>3 DEF TypeOK, ThreadsOK
<1>8. Exclusion(c, d)' /\ Exclusion(d, c)'
  BY <1>1, <1>2, <1>3, <1>5, <1>6, Two
  DEF Thread, Exclusion, Still, Steady, Locked, To, Writing
<1>9. Request(c, d)' /\ Request(d, c)'
  BY <1>1, <1>2, <1>3, <1>5, Two
  DEF Thread, Exclusion, Request, Still, Requested, Serving, Locked, To, Writing
<1>10. Count(c, d)' /\ Count(d, c)' /\ Runs(c, d)' /\ Runs(d, c)'
  BY <1>1, <1>2, <1>3, <1>5, <1>6, SteadyStep
<1>11. Lossless(c, d)' /\ Lossless(d, c)'
  BY <1>1, <1>2, <1>3, UpdatesKept DEF Writing
<1>12. Latches(c, d)' /\ Latches(d, c)'
  BY <1>1, <1>2, <1>3, <1>5, Two DEF Thread, Exclusion, Latches, Still, Locked, To, Writing
<1>13. Flow(d)'
  BY <1>1, <1>5 DEF Thread, Still
<1> QED  BY <1>6, <1>7, <1>8, <1>9, <1>10, <1>11, <1>12, <1>13, ForBoth DEF Thread

--------------------------------------------------------------------------------
(* Enable                                                                    *)

\* The CRTC enters master mode, for as long as it is active.
LEMMA EnterMasterPreserves ==
  ASSUME IInv, NEW c \in Crtcs, NEW d \in Crtcs, d = Other(c), EnterMaster(c)
  PROVE  IInv'
<1>1. TypeOK /\ ThreadsOK /\ Thread(c, d) /\ Thread(d, c) /\ d # c
  BY Two, ForBoth
<1>2. /\ pc[c] = "master" /\ Goto(c, "load")
      /\ job' = [job EXCEPT ![c] = [word |-> c, field |-> "master", value |-> TRUE, next |-> "use_load"]]
      /\ UNCHANGED <<tmp, active, kind, use_count, used_crtcs, need_restart, lock, dsysr, reg,
                     unlatched>>
  BY DEF EnterMaster, From, Update, thread, counts, display
<1>3. pc'[c] = "load" /\ pc'[d] = pc[d] /\ pc' = [e \in Crtcs |-> pc'[e]]
  BY <1>1, <1>2, Goes
<1>4. /\ job'[c] = [word |-> c, field |-> "master", value |-> TRUE, next |-> "use_load"]
      /\ job'[d] = job[d] /\ job' \in [Crtcs -> Jobs]
  <2>1. [word |-> c, field |-> "master", value |-> TRUE, next |-> "use_load"] \in Updates(c)
    BY DEF Updates
  <2> QED  BY <1>1, <1>2, <2>1, Plans
<1>5. Steady(d) /\ Still(d)
  BY <1>2, <1>3, <1>4, Bystander
<1>6. Steady(c) /\ Flow(c)'
  BY <1>1, <1>2, <1>3, <1>4
  DEF Thread, Flow, Updates, Steady, Holds, InUse, Modesetting, Writing, To, Stopping,
      Halting, Putting, Getting, Sourcing, Locked, Entering, Counting, Starting
<1>7. TypeOK' /\ ThreadsOK'
  BY <1>1, <1>2, <1>3, <1>4 DEF TypeOK, ThreadsOK
<1>8. Exclusion(c, d)' /\ Exclusion(d, c)'
  BY <1>1, <1>2, <1>3, <1>4, <1>5, <1>6
  DEF Thread, Exclusion, Still, Steady, Locked, To, Writing
<1>9. Request(c, d)' /\ Request(d, c)'
  BY <1>1, <1>2, <1>3, <1>4, <1>5
  DEF Thread, Exclusion, Request, Still, Requested, Serving, Locked, To, Writing
<1>10. Count(c, d)' /\ Count(d, c)' /\ Runs(c, d)' /\ Runs(d, c)'
  BY <1>1, <1>2, <1>3, <1>4, <1>5, <1>6, SteadyStep
<1>11. Lossless(c, d)' /\ Lossless(d, c)'
  <2>1. ~Writing(d)
    BY <1>1, <1>2, Alone
    DEF Thread, Flow, Modesetting, Serving, Writing, To, Stopping, Halting, Putting, Getting,
        Sourcing, Locked, Entering, Counting, Starting
  <2> QED  BY <1>1, <1>2, <1>3, <1>4, <2>1, UpdatesKept
<1>12. Latches(c, d)' /\ Latches(d, c)'
  BY <1>1, <1>2, <1>3, <1>4, <1>5 DEF Thread, Exclusion, Latches, Still, Locked, To, Writing
<1>13. Flow(d)'
  BY <1>1, <1>5 DEF Thread, Still
<1> QED  BY <1>6, <1>7, <1>8, <1>9, <1>10, <1>11, <1>12, <1>13, ForBoth DEF Thread

\* The count of CRTCs in use is loaded, ...
LEMMA LoadForUsePreserves ==
  ASSUME IInv, NEW c \in Crtcs, NEW d \in Crtcs, d = Other(c), LoadForUse(c)
  PROVE  IInv'
<1>1. TypeOK /\ ThreadsOK /\ Thread(c, d) /\ Thread(d, c) /\ d # c
  BY Two, ForBoth
<1>2. /\ pc[c] = "use_load" /\ Goto(c, "use_store")
      /\ tmp' = [tmp EXCEPT ![c] = used_crtcs]
      /\ UNCHANGED <<active, kind, job, use_count, used_crtcs, need_restart, lock, dsysr, reg,
                     unlatched>>
  BY DEF LoadForUse, From, thread, counts, display
<1>3. pc'[c] = "use_store" /\ pc'[d] = pc[d] /\ pc' = [e \in Crtcs |-> pc'[e]]
  BY <1>1, <1>2, Goes
<1>4. tmp'[c] = used_crtcs /\ tmp'[d] = tmp[d] /\ tmp' = [e \in Crtcs |-> tmp'[e]]
  BY <1>1, <1>2, Loads
<1>5. Steady(d) /\ Still(d)
  BY <1>2, <1>3, <1>4, Bystander
<1>6. Steady(c) /\ Flow(c)'
  BY <1>1, <1>2, <1>3, <1>4
  DEF Thread, Flow, Updates, Steady, Holds, InUse, Modesetting, Writing, To, Stopping,
      Halting, Putting, Getting, Sourcing, Locked, Entering, Counting, Starting
<1>7. TypeOK' /\ ThreadsOK'
  BY <1>1, <1>2, <1>3, <1>4 DEF TypeOK, ThreadsOK
<1>8. Exclusion(c, d)' /\ Exclusion(d, c)'
  BY <1>1, <1>2, <1>3, <1>4, <1>5, <1>6
  DEF Thread, Exclusion, Still, Steady, Locked, To, Writing
<1>9. Request(c, d)' /\ Request(d, c)'
  BY <1>1, <1>2, <1>3, <1>4, <1>5
  DEF Thread, Exclusion, Request, Still, Requested, Serving, Locked, To, Writing
<1>10. Count(c, d)' /\ Count(d, c)' /\ Runs(c, d)' /\ Runs(d, c)'
  BY <1>1, <1>2, <1>3, <1>4, <1>5, <1>6, SteadyStep
<1>11. Lossless(c, d)' /\ Lossless(d, c)'
  BY <1>1, <1>2, <1>3, <1>4, UpdatesKept DEF Writing
<1>12. Latches(c, d)' /\ Latches(d, c)'
  BY <1>1, <1>2, <1>3, <1>4, <1>5 DEF Thread, Exclusion, Latches, Still, Locked, To, Writing
<1>13. Flow(d)'
  BY <1>1, <1>5 DEF Thread, Still
<1> QED  BY <1>6, <1>7, <1>8, <1>9, <1>10, <1>11, <1>12, <1>13, ForBoth DEF Thread

\* The count is stored with one more; a group in use is stopped to be started again.
LEMMA StoreUsePreserves ==
  ASSUME IInv, NEW c \in Crtcs, NEW d \in Crtcs, d = Other(c), StoreUse(c)
  PROVE  IInv'
<1>1. TypeOK /\ ThreadsOK /\ Thread(c, d) /\ Thread(d, c) /\ d # c
  BY Two, ForBoth
<1>2. /\ pc[c] = "use_store" /\ used_crtcs' = tmp[c] + 1 /\ tmp' = [tmp EXCEPT ![c] = 0]
      /\ \/ /\ tmp[c] # 0 /\ Goto(c, "load")
            /\ job' = [job EXCEPT ![c] =
                         [word |-> Owner, field |-> "den", value |-> FALSE, next |-> "start"]]
         \/ tmp[c] = 0 /\ Goto(c, "start") /\ job' = job
      /\ UNCHANGED <<active, kind, use_count, need_restart, lock, dsysr, reg, unlatched>>
  BY DEF StoreUse, From, Update, StartStop, thread, counts, display
<1>3. tmp'[c] = 0 /\ tmp'[d] = tmp[d] /\ tmp' = [e \in Crtcs |-> tmp'[e]]
  BY <1>1, <1>2, Loads
<1>4. /\ pc'[d] = pc[d] /\ pc' = [e \in Crtcs |-> pc'[e]]
      /\ job'[d] = job[d] /\ job' \in [Crtcs -> Jobs]
      /\ \/ tmp[c] # 0 /\ pc'[c] = "load" /\ job'[c] = [word |-> Owner, field |-> "den", value |-> FALSE, next |-> "start"]
         \/ tmp[c] = 0 /\ pc'[c] = "start"
  <2>1. CASE tmp[c] # 0
    <3>1. pc'[c] = "load" /\ pc'[d] = pc[d] /\ pc' = [e \in Crtcs |-> pc'[e]]
      BY <1>1, <1>2, <2>1, Goes
    <3>2. [word |-> Owner, field |-> "den", value |-> FALSE, next |-> "start"] \in Updates(c)
      BY DEF Updates
    <3>3. /\ job'[c] = [word |-> Owner, field |-> "den", value |-> FALSE, next |-> "start"]
          /\ job'[d] = job[d] /\ job' \in [Crtcs -> Jobs]
      BY <1>1, <1>2, <2>1, <3>2, Plans
    <3> QED  BY <2>1, <3>1, <3>3
  <2>2. CASE tmp[c] = 0
    <3>1. pc'[c] = "start" /\ pc'[d] = pc[d] /\ pc' = [e \in Crtcs |-> pc'[e]]
      BY <1>1, <1>2, <2>2, Goes
    <3> QED  BY <1>1, <1>2, <2>2, <3>1 DEF TypeOK
  <2> QED  BY <2>1, <2>2
<1>5. Steady(d) /\ Still(d)
  BY <1>2, <1>3, <1>4, Bystander
<1>6. /\ Modesetting(c) /\ Counting(c) /\ ~InUse(c) /\ Holds(c) /\ c \in active
      /\ Modesetting(c)' /\ ~Stopping(c)' /\ ~Halting(c)' /\ ~Putting(c)' /\ Starting(c)'
      /\ InUse(c)' /\ Holds(c)'
  BY <1>1, <1>2, <1>3, <1>4
  DEF Thread, Flow, InUse, Holds, Modesetting, Writing, To, Stopping, Halting, Putting,
      Getting, Sourcing, Locked, Entering, Counting, Starting
<1>7. ~Modesetting(d) /\ ~Putting(d) /\ ~Stopping(d) /\ ~Halting(d)
      /\ (InUse(d) <=> d \in active)
      /\ pc[d] \notin {"unuse_store", "put_store", "get_store", "use_store"}
  BY <1>1, <1>6, NoModeSet DEF Thread, Exclusion
<1>8. Flow(c)' /\ Flow(d)'
  BY <1>1, <1>2, <1>3, <1>4, <1>5
  DEF Thread, Flow, Updates, Still, Writing, To, Stopping, Halting, Putting, Getting,
      Sourcing, Locked, Entering, Counting, Starting
<1>9. Exclusion(c, d)' /\ Exclusion(d, c)'
  BY <1>1, <1>2, <1>3, <1>4, <1>5, <1>6, <1>7
  DEF Thread, Exclusion, Steady, Still, Locked, To, Writing
<1>10. Request(c, d)' /\ Request(d, c)'
  BY <1>1, <1>2, <1>3, <1>4, <1>5, <1>7
  DEF Thread, Request, Still, Requested, Serving, To, Writing
<1>11. Count(c, d)' /\ Count(d, c)'
  BY <1>1, <1>2, <1>3, <1>4, <1>5, <1>6, <1>7 DEF Thread, Count, Steady
<1>12. TypeOK' /\ ThreadsOK'
  <2>1. use_count' \in 0..2 /\ used_crtcs' \in 0..2
    BY <1>11 DEF Count
  <2> QED  BY <1>1, <1>2, <1>3, <1>4, <2>1, NumberOfCrtcs DEF TypeOK, ThreadsOK
<1>13. Lossless(c, d)' /\ Lossless(d, c)'
  <2>1. ~Writing(d)
    BY <1>1, <1>2, <1>6, Alone
  <2> QED  BY <1>1, <1>2, <1>3, <1>4, <2>1, UpdatesKept
<1>14. Runs(c, d)' /\ Runs(d, c)'
  BY <1>1, <1>2, <1>3, <1>4, <1>5, <1>6, <1>7 DEF Thread, Runs, Count, Steady
<1>15. Latches(c, d)' /\ Latches(d, c)'
  BY <1>1, <1>2, <1>3, <1>4, <1>5 DEF Thread, Latches, Still, To, Writing
<1> QED  BY <1>8, <1>9, <1>10, <1>11, <1>12, <1>13, <1>14, <1>15, ForBoth DEF Thread

\* The group starts for its new user.
LEMMA StartGroupPreserves ==
  ASSUME IInv, NEW c \in Crtcs, NEW d \in Crtcs, d = Other(c), StartGroup(c)
  PROVE  IInv'
<1>1. TypeOK /\ ThreadsOK /\ Thread(c, d) /\ Thread(d, c) /\ d # c
  BY Two, ForBoth
<1>2. /\ pc[c] = "start" /\ Goto(c, "load")
      /\ job' = [job EXCEPT ![c] = [word |-> Owner, field |-> "den", value |-> TRUE, next |-> "idle"]]
      /\ UNCHANGED <<tmp, active, kind, use_count, used_crtcs, need_restart, lock, dsysr, reg,
                     unlatched>>
  BY DEF StartGroup, From, Update, StartStop, thread, counts, display
<1>3. pc'[c] = "load" /\ pc'[d] = pc[d] /\ pc' = [e \in Crtcs |-> pc'[e]]
  BY <1>1, <1>2, Goes
<1>4. /\ job'[c] = [word |-> Owner, field |-> "den", value |-> TRUE, next |-> "idle"]
      /\ job'[d] = job[d] /\ job' \in [Crtcs -> Jobs]
  <2>1. [word |-> Owner, field |-> "den", value |-> TRUE, next |-> "idle"] \in Updates(c)
    BY DEF Updates
  <2> QED  BY <1>1, <1>2, <2>1, Plans
<1>5. Steady(d) /\ Still(d)
  BY <1>2, <1>3, <1>4, Bystander
<1>6. Steady(c) /\ Flow(c)'
  BY <1>1, <1>2, <1>3, <1>4
  DEF Thread, Flow, Updates, Steady, Holds, InUse, Modesetting, Writing, To, Stopping,
      Halting, Putting, Getting, Sourcing, Locked, Entering, Counting, Starting
<1>7. TypeOK' /\ ThreadsOK'
  BY <1>1, <1>2, <1>3, <1>4 DEF TypeOK, ThreadsOK
<1>8. Exclusion(c, d)' /\ Exclusion(d, c)'
  BY <1>1, <1>2, <1>3, <1>4, <1>5, <1>6
  DEF Thread, Exclusion, Still, Steady, Locked, To, Writing
<1>9. Request(c, d)' /\ Request(d, c)'
  BY <1>1, <1>2, <1>3, <1>4, <1>5
  DEF Thread, Exclusion, Request, Still, Requested, Serving, Locked, To, Writing
<1>10. Count(c, d)' /\ Count(d, c)' /\ Runs(c, d)' /\ Runs(d, c)'
  BY <1>1, <1>2, <1>3, <1>4, <1>5, <1>6, SteadyStep
<1>11. Lossless(c, d)' /\ Lossless(d, c)'
  <2>1. ~Writing(d)
    BY <1>1, <1>2, Alone
    DEF Thread, Flow, Modesetting, Serving, Writing, To, Stopping, Halting, Putting, Getting,
        Sourcing, Locked, Entering, Counting, Starting
  <2> QED  BY <1>1, <1>2, <1>3, <1>4, <2>1, UpdatesKept
<1>12. Latches(c, d)' /\ Latches(d, c)'
  BY <1>1, <1>2, <1>3, <1>4, <1>5 DEF Thread, Exclusion, Latches, Still, Locked, To, Writing
<1>13. Flow(d)'
  BY <1>1, <1>5 DEF Thread, Still
<1> QED  BY <1>6, <1>7, <1>8, <1>9, <1>10, <1>11, <1>12, <1>13, ForBoth DEF Thread

--------------------------------------------------------------------------------
(* The theorems                                                              *)

\* No commit is in progress, the group is stopped, and nothing is requested.
LEMMA InitInvariant == Init => IInv
<1> SUFFICES ASSUME Init  PROVE  IInv
  OBVIOUS
<1> USE DEF Writing, To, Stopping, Halting, Putting, Locked, Entering, Counting, Starting,
            Modesetting, Serving, Requested
<1>1. NoJob \in Jobs
  BY DEF NoJob, Jobs, Owner, Crtcs
<1>2. [master |-> FALSE, den |-> FALSE] \in Word
  BY DEF Word
<1>3. TypeOK
  <2>1. 0 \in Int /\ {0, 0} \subseteq 0 .. Cardinality(Crtcs)
    BY NumberOfCrtcs
  <2> QED  BY <1>1, <1>2, <2>1 DEF Init, TypeOK
<1>4. ThreadsOK
  BY DEF Init, ThreadsOK
<1>5. ASSUME NEW c \in Crtcs, NEW d \in Crtcs, d = Other(c)
      PROVE  Thread(c, d)
  <2>1. /\ pc[c] = "idle" /\ pc[d] = "idle" /\ kind[c] = "flip" /\ active = {}
        /\ lock = NoOne /\ c # NoOne /\ unlatched = {} /\ ~need_restart
        /\ use_count = 0 /\ used_crtcs = 0
        /\ dsysr[c] = reg[c] /\ ~reg[Owner].den
    BY <1>5, Two DEF Init
  <2>2. Flow(c) /\ Exclusion(c, d) /\ Request(c, d) /\ Latches(c, d)
    BY <2>1 DEF Flow, Exclusion, Request, Latches
  <2>3. Count(c, d)
    BY <2>1 DEF Count, Holds, InUse
  <2>4. Lossless(c, d) /\ Runs(c, d)
    BY <2>1 DEF Lossless, Runs
  <2> QED  BY <2>2, <2>3, <2>4 DEF Thread
<1>6. \A c \in Crtcs : Other(c) \in Crtcs
  BY DEF Crtcs, Other
<1> QED  BY <1>3, <1>4, <1>5, <1>6 DEF IInv

\* Every step keeps the invariant.
LEMMA NextPreserves ==
  ASSUME Blocking, IInv, [Next]_vars
  PROVE  IInv'
<1>1. CASE UNCHANGED vars
  <2>1. UNCHANGED <<active, kind, pc, tmp, job, use_count, used_crtcs, need_restart, lock,
                    dsysr, reg, unlatched>>
    BY <1>1 DEF vars, thread, counts, display
  <2>2. TypeOK' /\ ThreadsOK'
    BY <2>1 DEF IInv, TypeOK, ThreadsOK
  <2>3. ASSUME NEW c \in Crtcs  PROVE  Thread(c, Other(c))'
    <3>1. Thread(c, Other(c))
      BY DEF IInv
    <3> QED
      BY <2>1, <3>1
      DEF Thread, Flow, Exclusion, Request, Count, Lossless, Runs, Latches, Updated, Holds,
          InUse, Requested, Serving, Modesetting, Writing, To, Stopping, Halting, Putting,
          Getting, Sourcing, Locked, Entering, Counting, Starting
  <2> QED  BY <2>2, <2>3 DEF IInv
<1>2. ASSUME NEW c \in Crtcs,
             \/ PageFlip(c) \/ ModeSet(c)
             \/ Disable(c) \/ Begin(c) \/ Flush(c) \/ Enable(c)
             \/ LoadCache(c) \/ StoreCache(c) \/ WriteDsysr(c)
      PROVE  IInv'
  <2> DEFINE d == Other(c)
  <2>1. d \in Crtcs /\ d = Other(c)
    BY DEF Crtcs, Other
  <2> HIDE DEF d
  <2>2. CASE PageFlip(c) \/ ModeSet(c)
    BY <2>1, <2>2, PageFlipPreserves, ModeSetPreserves
  <2>3. CASE Disable(c)
    BY <2>1, <2>3, LeaveMasterPreserves, LoadForUnusePreserves, StoreUnusePreserves,
       LoadForPutPreserves, StorePutPreserves DEF Disable
  <2>4. CASE Begin(c)
    BY <2>1, <2>4, LoadForGetPreserves, StoreGetPreserves, WriteSourcePreserves,
       RequestRestartPreserves DEF Begin
  <2>5. CASE Flush(c)
    BY <2>1, <2>5, TakeLockPreserves, TestRestartPreserves, ClearRequestPreserves,
       RestartPreserves, DropLockPreserves DEF Flush
  <2>6. CASE Enable(c)
    BY <2>1, <2>6, EnterMasterPreserves, LoadForUsePreserves, StoreUsePreserves,
       StartGroupPreserves DEF Enable
  <2>7. CASE LoadCache(c) \/ StoreCache(c) \/ WriteDsysr(c)
    BY <2>1, <2>7, LoadCachePreserves, StoreCachePreserves, WriteDsysrPreserves
  <2> QED  BY <1>2, <2>2, <2>3, <2>4, <2>5, <2>6, <2>7
<1> QED  BY <1>1, <1>2 DEF Next

\* When the mode sets of the two CRTCs exclude each other, the invariant always holds.
THEOREM Invariant ==
  ASSUME Blocking
  PROVE  Spec => []IInv
<1>1. Init => IInv
  BY InitInvariant
<1>2. IInv /\ [Next]_vars => IInv'
  BY NextPreserves
<1> QED  BY <1>1, <1>2, PTL DEF Spec

\* Every word the threads share keeps its type, and both counters stay within the
\* number of CRTCs of the group.
THEOREM TypeCorrect ==
  ASSUME Blocking
  PROVE  Spec => []TypeOK
<1>1. IInv => TypeOK
  BY DEF IInv
<1> QED  BY <1>1, Invariant, PTL

\* The number of active CRTCs, by CRTC.
LEMMA NumberActive ==
  ASSUME active \subseteq Crtcs, NEW c \in Crtcs, NEW d \in Crtcs, d = Other(c)
  PROVE  Cardinality(active) = (IF c \in active THEN 1 ELSE 0) + (IF d \in active THEN 1 ELSE 0)
<1>1. Cardinality({}) = 0 /\ Cardinality({c}) = 1 /\ Cardinality({d}) = 1
  BY FS_EmptySet, FS_Singleton
<1>2. c # d /\ Crtcs = {c, d}
  BY Two
<1>3. \/ active = {} \/ active = {c} \/ active = {d} \/ active = Crtcs
  BY <1>2
<1> QED  BY <1>1, <1>2, <1>3, NumberOfCrtcs

\* No increment or decrement of the counters is lost: with no commit in progress,
\* the group is held once by every active CRTC, and used by every active CRTC.
THEOREM CountersExact ==
  ASSUME Blocking
  PROVE  Spec => []CountsExact
<1>1. IInv => CountsExact
  <2> SUFFICES ASSUME IInv, Quiet
               PROVE  use_count = Cardinality(active) /\ used_crtcs = Cardinality(active)
    BY DEF CountsExact
  <2>1. 0 \in Crtcs /\ 1 \in Crtcs /\ 1 = Other(0)
    BY DEF Crtcs, Other
  <2>2. TypeOK /\ Thread(0, 1)
    BY <2>1, ForBoth
  <2>3. pc[0] = "idle" /\ pc[1] = "idle"
    BY <2>1 DEF Quiet
  <2>4. /\ Cardinality(active) = (IF 0 \in active THEN 1 ELSE 0) + (IF 1 \in active THEN 1 ELSE 0)
        /\ Count(0, 1)
    BY <2>1, <2>2, NumberActive DEF TypeOK, Thread
  <2> QED  BY <2>3, <2>4 DEF Count, Holds, InUse, Modesetting
<1> QED  BY <1>1, Invariant, PTL

\* The group runs for its active CRTCs, no update of a DSYSR word undoes another,
\* and an active CRTC is in master sync mode once its commit is over.
THEOREM GroupRuns ==
  ASSUME Blocking
  PROVE  Spec => []RunningExact
<1>1. IInv => RunningExact
  <2> SUFFICES ASSUME IInv  PROVE  RunningExact
    OBVIOUS
  <2>1. 0 \in Crtcs /\ 1 \in Crtcs /\ 1 = Other(0) /\ Crtcs = {0, 1}
    BY DEF Crtcs, Other
  <2>2. TypeOK /\ Thread(0, 1) /\ Thread(1, 0)
    BY <2>1, ForBoth
  <2>3. ASSUME Quiet  PROVE  (reg[Owner].den <=> active # {}) /\ dsysr = reg
    <3>1. pc[0] = "idle" /\ pc[1] = "idle"
      BY <2>1, <2>3 DEF Quiet
    <3>2. reg[Owner].den <=> 0 \in active \/ 1 \in active
      BY <2>2, <3>1 DEF Thread, Runs, Modesetting
    <3>3. dsysr[0] = reg[0] /\ dsysr[1] = reg[1]
      BY <2>2, <3>1 DEF Thread, Lossless
    <3>4. active # {} <=> 0 \in active \/ 1 \in active
      BY <2>1, <2>2 DEF TypeOK
    <3>5. /\ dsysr \in [Crtcs -> Word] /\ reg \in [Crtcs -> Word]
          /\ \A e \in Crtcs : dsysr[e] = reg[e]
      BY <2>1, <2>2, <3>3 DEF TypeOK
    <3>6. dsysr = reg
      BY <3>5
    <3> QED  BY <3>2, <3>4, <3>6
  <2>4. ASSUME NEW c \in active, pc[c] = "idle"  PROVE  reg[c].master
    <3>1. c = 0 \/ c = 1
      BY <2>1, <2>2 DEF TypeOK
    <3> QED  BY <2>2, <2>4, <3>1 DEF Thread, Runs, Modesetting
  <2> QED  BY <2>3, <2>4 DEF RunningExact
<1> QED  BY <1>1, Invariant, PTL

\* A plane source is in effect once the thread that wrote it is done with the
\* locked section of its flush, whichever thread served the restart it requested.
THEOREM SourcesLatch ==
  ASSUME Blocking
  PROVE  Spec => []SourceInEffect
<1>1. IInv => SourceInEffect
  <2> SUFFICES ASSUME IInv, NEW c \in Crtcs,
                      pc[c] \in {"master", "use_load", "use_store", "start", "idle"}
               PROVE  c \notin unlatched
    BY DEF SourceInEffect
  <2>1. Latches(c, Other(c))
    BY DEF IInv, Thread
  <2> QED  BY <2>1 DEF Latches, To, Writing
<1> QED  BY <1>1, Invariant, PTL
================================================================================
