---------------------------- MODULE VspBuffers_proofs ----------------------------
(***************************************************************************)
(* Proofs about VspBuffers, for any number of planes, commits and failing  *)
(* calls: the safety properties of the runs, and that every step is a step *)
(* of Mappings or leaves what it speaks of alone; and about FrameBuffers,  *)
(* for any widths and pitches.                                             *)
(***************************************************************************)
EXTENDS VspBuffers, FrameBuffers, WellFoundedInduction, TLAPS

--------------------------------------------------------------------------------
(* The inductive invariant                                                   *)

\* The steps of a commit: the old states stay until it ends, and one that leaves the
\* CRTC dark has no writeback job.
CommitInv ==
  /\ pc # "idle" => n # 0
  /\ pc = "prepare" => prep \subseteq touched
  /\ pc = "disable" => kind \in {"off", "reset"}
  /\ kind \in {"off", "dark"} => 0 \notin touched
  /\ pc \in {"idle", "prepare", "abort"} => old = {}

\* The states and jobs of the commits that were swapped in, by their owner.
Current == {<<p, cur[p]>> : p \in Planes}
Queued == {0} \X Range(jobs)
Settled == old \cup cleaning \cup Current \cup Queued

\* None is of a commit to come, nor of one that is being prepared.
AgeInv ==
  /\ \A s \in Settled \cup leaked \cup visible : s[2] <= n
  /\ pc \in {"prepare", "abort"} => \A s \in Settled : s[2] # n
  /\ pc = "prepare" => \A s \in leaked : s[2] # n
  /\ pc = "abort" => \A s \in leaked : s[2] = n => s[1] \in prep
  /\ pc \in {"disable", "update", "arm", "queue"} => <<0, n>> \notin cleaning \cup Queued

\* An owner is the only one, and what a failing prepare leaves has none.
OwnerInv ==
  /\ old \subseteq Planes \X Commits /\ leaked \subseteq Planes \X Commits
  /\ cleaning \cap (old \cup Current \cup Queued) = {}
  /\ old \cap Current = {}
  /\ leaked \cap Settled = {}

\* What is mapped, by state: MappingsOwned says that mapped is AllTables(Mapped).
Mapped == {s \in Owners : Mapping(s)} \cup leaked

\* The owners of the mappings.
OwnersInv == CommitInv /\ AgeInv /\ OwnerInv /\ mapped = AllTables(Mapped)

\* Frames the VSP has not finished: between commits it has one at most, and none
\* whose flip is yet to be armed.
Unfinished == Len(lists) + (IF "complete" \in status THEN 1 ELSE 0)

FlipInv ==
  /\ event # 0 => event = n /\ n \notin done /\ pc \in {"queue", "flush", "start", "wait"}
  /\ done \subseteq 1 .. n
  /\ pc \in {"prepare", "abort", "disable"} => n \notin done
  /\ Unfinished <= IF pc \in {"start", "wait"} /\ event # 0 THEN 2 ELSE 1
  /\ pc \in {"update", "arm"} /\ n \in done => Unfinished = 0
  /\ pc \in {"queue", "flush"} /\ event = 0 => Unfinished = 0

\* The jobs the VSP has, in their order in the queue and in the frames.
VspJobs == ({shown.job} \cup {lists[i].job : i \in DOMAIN lists}) \ {0}

OrderInv ==
  /\ \A i, j \in DOMAIN jobs : i < j => jobs[i] < jobs[j]
  /\ \A i, j \in DOMAIN lists : i < j /\ lists[j].job # 0 => lists[i].job < lists[j].job
  /\ \A i \in DOMAIN lists : lists[i].job # 0 => shown.job < lists[i].job

\* They are queued.  The one whose completion is pending is the first of the queue,
\* which the VSP has written; no other job is queued, unless one was lost.
JobInv ==
  /\ VspJobs \subseteq Range(jobs)
  /\ pc \in {"prepare", "abort", "disable", "update", "arm", "queue", "flush"} =>
       n \notin VspJobs
  /\ pc = "flush" /\ 0 \in touched => n \in Range(jobs)
  /\ "writeback" \in status =>
       /\ jobs # <<>> /\ jobs[1] \notin VspJobs
       /\ pc = "flush" => jobs[1] # n
  /\ ~lost =>
       /\ signalled \subseteq written
       /\ "writeback" \in status => jobs[1] \in written
       /\ \A x \in Range(jobs) :
            \/ x \in VspJobs
            \/ pc = "flush" /\ x = n /\ 0 \in touched
            \/ "writeback" \in status /\ x = jobs[1]

IInv == TypeOK /\ OwnersInv /\ FlipInv /\ OrderInv /\ JobInv

--------------------------------------------------------------------------------
(* Lemmas about the operators                                                *)

\* A sequence that grows keeps its elements and gets one more, ...
LEMMA AppendOne ==
  ASSUME NEW S, NEW s \in Seq(S), NEW e \in S
  PROVE  /\ Append(s, e) \in Seq(S) /\ Len(Append(s, e)) = Len(s) + 1
         /\ \A i \in DOMAIN s : Append(s, e)[i] = s[i]
         /\ Append(s, e)[Len(s) + 1] = e
         /\ DOMAIN s = 1 .. Len(s) /\ DOMAIN Append(s, e) = 1 .. Len(s) + 1
         /\ Range(Append(s, e)) = Range(s) \cup {e}
<1>1. /\ Append(s, e) \in Seq(S) /\ Len(Append(s, e)) = Len(s) + 1
      /\ \A i \in 1 .. Len(s) : Append(s, e)[i] = s[i]
      /\ Append(s, e)[Len(s) + 1] = e
      /\ DOMAIN s = 1 .. Len(s) /\ DOMAIN Append(s, e) = 1 .. Len(s) + 1
      /\ Len(s) \in Nat
  OBVIOUS
<1>2. \A x : x \in Range(Append(s, e)) <=> x \in Range(s) \cup {e}
  BY <1>1 DEF Range
<1> QED  BY <1>1, <1>2

\* ... and one that loses its first keeps the others, in their order.
LEMMA TailOne ==
  ASSUME NEW S, NEW s \in Seq(S), s # <<>>
  PROVE  /\ Tail(s) \in Seq(S) /\ Len(Tail(s)) = Len(s) - 1
         /\ DOMAIN s = 1 .. Len(s) /\ DOMAIN Tail(s) = 1 .. Len(s) - 1
         /\ \A i \in 1 .. Len(s) - 1 : Tail(s)[i] = s[i + 1]
         /\ Len(s) \in Nat \ {0} /\ Head(s) = s[1] /\ s[1] \in S
         /\ Range(s) = {s[1]} \cup Range(Tail(s))
<1>1. /\ Tail(s) \in Seq(S) /\ Len(Tail(s)) = Len(s) - 1
      /\ DOMAIN s = 1 .. Len(s) /\ DOMAIN Tail(s) = 1 .. Len(s) - 1
      /\ \A i \in 1 .. Len(s) - 1 : Tail(s)[i] = s[i + 1]
      /\ Len(s) \in Nat \ {0} /\ Head(s) = s[1] /\ s[1] \in S
  OBVIOUS
<1>2. ASSUME NEW x \in Range(s)  PROVE  x \in {s[1]} \cup Range(Tail(s))
  <2>1. PICK i \in 1 .. Len(s) : x = s[i]
    BY <1>1 DEF Range
  <2>2. i = 1 \/ (i - 1 \in 1 .. Len(s) - 1 /\ Tail(s)[i - 1] = s[i])
    BY <1>1
  <2> QED  BY <1>1, <2>1, <2>2 DEF Range
<1>3. ASSUME NEW x \in {s[1]} \cup Range(Tail(s))  PROVE  x \in Range(s)
  BY <1>1 DEF Range
<1> QED  BY <1>1, <1>2, <1>3

\* Of some holders there is a first.
LEMMA FirstHolder ==
  ASSUME NEW S \in SUBSET Holders, S # {}
  PROVE  Min(S) \in S
<1> DEFINE Less == OpToRel(<, Nat)
<1>1. S \subseteq Nat /\ S # {}
  BY VspBuffersAssumption DEF Holders
<1>2. PICK x \in S : \A y \in S : ~ (<<y, x>> \in Less)
  <2> HIDE DEF Less
  <2> QED  BY <1>1, NatLessThanWellFounded, WFMin DEF Less
<1>3. ASSUME NEW y \in S  PROVE  x <= y
  <2>1. x \in Nat /\ y \in Nat /\ <<y, x>> \notin Less
    BY <1>1, <1>2
  <2>2. ~ (y < x)
    BY <2>1 DEF OpToRel
  <2> HIDE DEF Less
  <2> QED  BY <2>1, <2>2
<1> QED  BY <1>3 DEF Min

\* The tables of some states, table by table.
LEMMA TableOf ==
  ASSUME NEW S, NEW s, NEW i
  PROVE  <<s, i>> \in AllTables(S) <=> s \in S /\ i \in 1 .. NumTables(s[1])
BY DEF AllTables, TablesOf

\* More states have their tables more, ...
LEMMA TablesAdded ==
  ASSUME NEW S, NEW T
  PROVE  AllTables(S \cup T) = AllTables(S) \cup AllTables(T)
BY DEF AllTables

\* ... and fewer states as many tables fewer.
LEMMA TablesRemoved ==
  ASSUME NEW S, NEW T
  PROVE  AllTables(S \ T) = AllTables(S) \ AllTables(T)
BY DEF AllTables, TablesOf

\* All tables of a state, in the order in which MapFb takes them.
LEMMA TablesOfOne ==
  ASSUME NEW s
  PROVE  AllTables({s}) = {s} \X (1 .. NumTables(s[1]))
BY DEF AllTables, TablesOf

--------------------------------------------------------------------------------
(* What steps leave alone                                                    *)

\* Owners are states and jobs of the commits so far.
LEMMA OwnersAre ==
  ASSUME TypeOK
  PROVE  /\ Settled \subseteq Holders \X (0 .. MaxCommit)
         /\ Current \subseteq Planes \X (0 .. MaxCommit)
         /\ Queued \subseteq {0} \X Commits
         /\ Owners = Settled \cup PreparedOwners \cup JobOwner
         /\ Range(jobs) \subseteq Commits
         /\ 0 \notin Planes /\ n \in Nat /\ MaxCommit \in Nat
<1>1. Range(jobs) \subseteq Commits
  BY DEF TypeOK, Range
<1>2. Current \subseteq Planes \X (0 .. MaxCommit)
  BY DEF TypeOK, Current
<1>3. Queued \subseteq {0} \X Commits
  BY <1>1 DEF Queued
<1>4. Owners = Settled \cup PreparedOwners \cup JobOwner
  BY DEF Owners, Settled, Current, Queued
<1>5. old \subseteq States /\ cleaning \subseteq States
  BY DEF TypeOK
<1>6. 0 \notin Planes /\ n \in Nat /\ MaxCommit \in Nat
  BY VspBuffersAssumption DEF TypeOK
<1>7. Settled \subseteq Holders \X (0 .. MaxCommit)
  BY <1>2, <1>3, <1>5, <1>6 DEF Settled, States, Holders, Commits
<1> QED  BY <1>1, <1>2, <1>3, <1>4, <1>6, <1>7

\* The parts of the invariant, and the type of what they are about.
LEMMA Parts ==
  ASSUME IInv
  PROVE  /\ TypeOK /\ OwnersInv /\ FlipInv /\ OrderInv /\ JobInv
         /\ CommitInv /\ AgeInv /\ OwnerInv /\ mapped = AllTables(Mapped)
         /\ Settled \subseteq Holders \X (0 .. MaxCommit)
         /\ Owners = Settled \cup PreparedOwners \cup JobOwner
         /\ n \in Nat /\ MaxCommit \in Nat /\ 0 \notin Planes
         /\ pc # "idle" => n \in Commits
<1>1. TypeOK /\ OwnersInv /\ FlipInv /\ OrderInv /\ JobInv
  BY DEF IInv
<1>2. pc # "idle" => n \in Commits
  BY <1>1, OwnersAre DEF OwnersInv, CommitInv, TypeOK, Commits
<1> QED  BY <1>1, <1>2, OwnersAre DEF OwnersInv

\* A step between two handlers of a commit leaves mappings and owners as they are.
LEMMA OwnersKept ==
  ASSUME TypeOK, OwnersInv,
         UNCHANGED <<n, kind, touched, visible, cur, prep, old, mapped, leaked, cleaning, jobs>>,
         \/ pc' = pc
         \/ pc = "disable" /\ pc' = "update"
         \/ pc = "disable" /\ pc' = "wait" /\ kind = "off"
         \/ pc = "update" /\ pc' = "arm"
         \/ pc = "arm" /\ pc' = "queue"
         \/ pc = "flush" /\ pc' \in {"start", "wait"}
         \/ pc = "start" /\ pc' = "wait"
  PROVE  OwnersInv'
<1>1. CommitInv'
  BY DEF OwnersInv, CommitInv
<1>2. Current' = Current /\ Queued' = Queued /\ Settled' = Settled
  BY DEF Settled, Current, Queued
<1>3. AgeInv'
  BY <1>2 DEF OwnersInv, AgeInv
<1>4. OwnerInv'
  BY <1>2 DEF OwnersInv, OwnerInv
<1>5. PreparedOwners' = PreparedOwners /\ JobOwner' = JobOwner
  BY DEF PreparedOwners, JobOwner, OwnersInv, CommitInv
<1>6. Owners' = Owners
  BY <1>5 DEF Owners
<1>7. Mapped' = Mapped
  BY <1>6 DEF Mapped, Mapping
<1> QED  BY <1>1, <1>3, <1>4, <1>7 DEF OwnersInv

\* A step that leaves the frames alone leaves their order alone.
LEMMA OrderKept ==
  ASSUME OrderInv, UNCHANGED <<jobs, lists, shown>>
  PROVE  OrderInv'
BY DEF OrderInv

\* Nor does it change what the VSP has to write.
LEMMA JobsKept ==
  ASSUME TypeOK, JobInv, UNCHANGED <<jobs, lists, shown, status, signalled, written, lost>>,
         pc' \in {"prepare", "abort", "disable", "update", "arm", "queue", "flush"} =>
           n' \notin VspJobs,
         pc # "flush", pc' # "flush"
  PROVE  JobInv'
<1>1. VspJobs' = VspJobs
  BY DEF VspJobs
<1> QED  BY <1>1 DEF JobInv

--------------------------------------------------------------------------------
(* A commit is prepared and swapped in                                       *)

\* The new commit has no owners yet, and those there are belong to others.
LEMMA StartCommitPreserves ==
  ASSUME IInv, StartCommit
  PROVE  IInv'
<1>1. PICK P \in SUBSET Planes, V \in SUBSET Planes, J \in SUBSET {0} :
        /\ V \subseteq P
        /\ kind' \in {"off", "dark"} => J = {}
        /\ touched' = P \cup J /\ prep' = P \cup J
        /\ visible' = visible \cup (V \X {n + 1})
  BY DEF StartCommit
<1>2. /\ pc = "idle" /\ n < MaxCommit /\ n' = n + 1 /\ pc' = "prepare"
      /\ kind' \in {"on", "off", "reset", "flip", "dark"}
      /\ UNCHANGED <<lit, cur, old, reset, fails, leaked, mapped, cleaning, event, done, running,
                     input, lists, shown, status, written, jobs, signalled, lost>>
  BY DEF StartCommit, flip, vsp, wb
<1>3. /\ TypeOK /\ CommitInv /\ AgeInv /\ OwnerInv /\ mapped = AllTables(Mapped)
      /\ FlipInv /\ OrderInv /\ JobInv
      /\ n \in Nat /\ n' \in Commits /\ 0 \notin Planes
  <2>1. TypeOK /\ OwnersInv /\ FlipInv /\ OrderInv /\ JobInv
    BY DEF IInv
  <2>2. n \in Nat /\ MaxCommit \in Nat /\ 0 \notin Planes
    BY <2>1, OwnersAre
  <2> QED  BY <1>2, <2>1, <2>2 DEF OwnersInv, Commits
<1>4. TypeOK'
  <2>1. visible' \subseteq Planes \X Commits
    BY <1>1, <1>2, <1>3 DEF TypeOK
  <2>2. touched' \subseteq Holders /\ prep' \subseteq Holders
    BY <1>1 DEF Holders
  <2>3. n' \in 0 .. MaxCommit
    BY <1>3 DEF Commits
  <2> QED  BY <1>2, <1>3, <2>1, <2>2, <2>3 DEF TypeOK
<1>5. CommitInv'
  BY <1>1, <1>2, <1>3 DEF CommitInv
<1>6. Current' = Current /\ Queued' = Queued /\ Settled' = Settled
  BY <1>2 DEF Settled, Current, Queued
<1>7. \A s \in Settled \cup leaked : s[2] \in Nat /\ s[2] <= n
  <2>1. Settled \subseteq Holders \X (0 .. MaxCommit) /\ leaked \subseteq Holders \X Commits
    BY <1>3, OwnersAre DEF TypeOK, States
  <2>2. \A s \in Settled \cup leaked : s[2] \in 0 .. MaxCommit
    BY <2>1 DEF Commits
  <2> QED  BY <1>3, <2>2 DEF AgeInv
<1>8. AgeInv'
  <2>1. \A s \in visible : s[2] \in Nat /\ s[2] <= n
    BY <1>3 DEF AgeInv, TypeOK, Commits
  <2>2. \A s \in visible' : s[2] <= n + 1
    BY <1>1, <1>3, <2>1
  <2> QED  BY <1>2, <1>3, <1>6, <1>7, <2>2 DEF AgeInv
<1>9. OwnerInv'
  BY <1>2, <1>3, <1>6 DEF OwnerInv
<1>10. Mapped' = Mapped
  <2>1. Owners = Settled /\ Owners' = Settled
    BY <1>1, <1>2, <1>6 DEF Owners, PreparedOwners, JobOwner, Settled, Current, Queued
  <2>2. ASSUME NEW s \in Settled  PROVE  Mapping(s)' <=> Mapping(s)
    BY <1>1, <1>3, <1>7 DEF Mapping
  <2> QED  BY <1>2, <2>1, <2>2 DEF Mapped
<1>11. FlipInv'
  BY <1>2, <1>3 DEF FlipInv, Unfinished, TypeOK
<1>12. OrderInv'
  BY <1>2, <1>3, OrderKept
<1>13. n' \notin VspJobs
  <2>1. ASSUME NEW x \in Range(jobs)  PROVE  x # n + 1
    <3>1. <<0, x>> \in Settled
      BY DEF Settled, Queued
    <3> QED  BY <1>3, <1>7, <3>1
  <2> QED  BY <1>2, <1>3, <2>1 DEF JobInv
<1>14. JobInv'
  BY <1>2, <1>3, <1>13, JobsKept
<1> QED  BY <1>2, <1>3, <1>4, <1>5, <1>8, <1>9, <1>10, <1>11, <1>12, <1>14 DEF IInv, OwnersInv

\* What is prepared now is not mapped yet, and has no owner.
LEMMA PreparingIsNew ==
  ASSUME IInv, pc = "prepare", prep # {}
  PROVE  /\ Min(prep) \in prep /\ Min(prep) \in touched /\ Min(prep) \in Holders
         /\ Preparing = <<Min(prep), n>> /\ Preparing \in States
         /\ Preparing \notin Owners \cup leaked
<1>1. Min(prep) \in prep /\ Min(prep) \in touched /\ Min(prep) \in Holders
  BY Parts, FirstHolder DEF TypeOK, CommitInv
<1>2. Preparing = <<Min(prep), n>> /\ Preparing \in States
  BY <1>1, Parts DEF Preparing, States
<1>3. Preparing \notin Settled \cup leaked
  BY <1>2, Parts DEF AgeInv
<1>4. Preparing \notin PreparedOwners \cup JobOwner
  BY <1>1, <1>2 DEF PreparedOwners, JobOwner
<1> QED  BY <1>1, <1>2, <1>3, <1>4, Parts

\* What is prepared gets an owner, and a mapping if it needs one.
LEMMA PreparePreserves ==
  ASSUME IInv, Prepare
  PROVE  IInv'
<1> DEFINE s == Preparing
<1>1. /\ pc = "prepare" /\ prep # {} /\ pc' = pc /\ prep' = prep \ {Min(prep)}
      /\ mapped' = IF Mapping(s) THEN MapFb(s, NumTables(Min(prep))) ELSE mapped
      /\ UNCHANGED <<n, kind, lit, touched, visible, cur, old, reset, fails, leaked, cleaning,
                     event, done, running, input, lists, shown, status, written, jobs,
                     signalled, lost>>
  BY DEF Prepare, commit, flip, vsp, wb
<1>2. /\ s = <<Min(prep), n>> /\ s[1] = Min(prep) /\ s \in States
      /\ Min(prep) \in prep /\ Min(prep) \in touched
  BY <1>1, PreparingIsNew
<1> HIDE DEF s
<1>3. PreparedOwners' = PreparedOwners \cup {s} /\ JobOwner' = JobOwner
  BY <1>1, <1>2 DEF PreparedOwners, JobOwner
<1>4. Current' = Current /\ Queued' = Queued /\ Settled' = Settled
  BY <1>1 DEF Settled, Current, Queued
<1>5. Owners' = Owners \cup {s}
  BY <1>1, <1>3 DEF Owners
<1>6. mapped' = AllTables(Mapped)'
  <2>1. CASE Mapping(s)
    <3>1. Mapped' = Mapped \cup {s}
      BY <1>1, <1>5, <2>1 DEF Mapped, Mapping
    <3>2. mapped' = mapped \cup AllTables({s})
      BY <1>1, <1>2, <2>1, TablesOfOne DEF MapFb
    <3> QED  BY <3>1, <3>2, Parts, TablesAdded
  <2>2. CASE ~Mapping(s)
    <3>1. Mapped' = Mapped
      BY <1>1, <1>5, <2>2 DEF Mapped, Mapping
    <3> QED  BY <1>1, <2>2, <3>1, Parts
  <2> QED  BY <2>1, <2>2
<1>7. TypeOK'
  <2>1. mapped' \subseteq AllTables(States)
    <3>1. AllTables({s}) \subseteq AllTables(States)
      BY <1>2 DEF AllTables
    <3> QED  BY <1>1, <1>2, <3>1, Parts, TablesOfOne DEF MapFb, TypeOK
  <2>2. prep' \subseteq Holders
    BY <1>1, Parts DEF TypeOK
  <2> QED  BY <1>1, <2>1, <2>2, Parts DEF TypeOK
<1>8. CommitInv' /\ AgeInv' /\ OwnerInv'
  BY <1>1, <1>4, Parts DEF CommitInv, AgeInv, OwnerInv
<1>9. FlipInv' /\ OrderInv'
  BY <1>1, Parts DEF FlipInv, Unfinished, OrderInv
<1>10. JobInv'
  BY <1>1, Parts, JobsKept DEF JobInv
<1> QED  BY <1>6, <1>7, <1>8, <1>9, <1>10 DEF IInv, OwnersInv

\* A framebuffer that could not be mapped keeps no table; one whose last call
\* failed keeps them all, and counts as left.
LEMMA PrepareFailedPreserves ==
  ASSUME IInv, PrepareFailed
  PROVE  IInv'
<1> DEFINE s == Preparing
<1>1. PICK m \in 0 .. NumTables(Min(prep)) :
        /\ m = NumTables(Min(prep)) => Min(prep) # 0
        /\ mapped' = MapFb(s, m)
        /\ leaked' = IF m = NumTables(Min(prep)) THEN leaked \cup {s} ELSE leaked
  BY DEF PrepareFailed
<1>2. /\ pc = "prepare" /\ prep # {} /\ pc' = "abort" /\ Mapping(s)
      /\ fails < MaxFail /\ fails' = fails + 1
      /\ UNCHANGED <<n, kind, lit, touched, visible, cur, prep, old, reset, cleaning,
                     event, done, running, input, lists, shown, status, written, jobs,
                     signalled, lost>>
  BY DEF PrepareFailed, commit, flip, vsp, wb
<1>3. /\ s = <<Min(prep), n>> /\ s[1] = Min(prep) /\ s[2] = n /\ s \in States
      /\ Min(prep) \in prep /\ Min(prep) \in Holders /\ s \notin Owners \cup leaked
  BY <1>2, PreparingIsNew
<1> HIDE DEF s
<1>4. Current' = Current /\ Queued' = Queued /\ Settled' = Settled
  BY <1>2 DEF Settled, Current, Queued
<1>5. Owners' = Owners
  BY <1>2 DEF Owners, PreparedOwners, JobOwner
<1>6. mapped' = AllTables(Mapped)' /\ mapped' \subseteq AllTables(States)
  <2>1. CASE m = NumTables(Min(prep))
    <3>1. Mapped' = Mapped \cup {s}
      BY <1>1, <1>2, <1>5, <2>1 DEF Mapped, Mapping
    <3>2. mapped' = mapped \cup AllTables({s})
      BY <1>1, <1>3, <2>1, TablesOfOne DEF MapFb
    <3>3. AllTables({s}) \subseteq AllTables(States)
      BY <1>3 DEF AllTables
    <3> QED  BY <3>1, <3>2, <3>3, Parts, TablesAdded DEF TypeOK
  <2>2. CASE m # NumTables(Min(prep))
    <3>1. Mapped' = Mapped
      BY <1>1, <1>2, <1>5, <2>2 DEF Mapped, Mapping
    <3>2. s \notin Mapped
      BY <1>3 DEF Mapped
    <3>3. mapped \cap ({s} \X (1 .. m)) = {}
      BY <3>2, Parts DEF AllTables, TablesOf
    <3>4. mapped' = mapped
      BY <1>1, <1>3, <2>2, <3>3 DEF MapFb
    <3> QED  BY <3>1, <3>4, Parts DEF TypeOK
  <2> QED  BY <2>1, <2>2
<1>7. leaked' \subseteq leaked \cup {s} /\ (s \in leaked' => s[1] \in Planes)
  BY <1>1, <1>3 DEF Holders
<1>8. TypeOK'
  <2>1. fails' \in 0 .. MaxFail
    BY <1>2, Parts, VspBuffersAssumption DEF TypeOK
  <2>2. leaked' \subseteq States
    BY <1>3, <1>7, Parts DEF TypeOK
  <2> QED  BY <1>2, <1>6, <2>1, <2>2, Parts DEF TypeOK
<1>9. CommitInv'
  BY <1>2, Parts DEF CommitInv
<1>10. AgeInv'
  BY <1>2, <1>3, <1>4, <1>7, Parts DEF AgeInv
<1>11. OwnerInv'
  <2>1. s \notin Settled
    BY <1>2, <1>3, Parts
  <2>2. leaked' \subseteq Planes \X Commits
    BY <1>2, <1>3, <1>7, Parts DEF OwnerInv
  <2> QED  BY <1>2, <1>4, <1>7, <2>1, <2>2, Parts DEF OwnerInv
<1>12. FlipInv' /\ OrderInv'
  BY <1>2, Parts, OrderKept DEF FlipInv, Unfinished
<1>13. JobInv'
  BY <1>2, Parts, JobsKept DEF JobInv
<1> QED  BY <1>6, <1>8, <1>9, <1>10, <1>11, <1>12, <1>13 DEF IInv, OwnersInv

\* A commit that is given up takes its own mappings along, and no other.
LEMMA AbortPreserves ==
  ASSUME IInv, Abort
  PROVE  IInv'
<1> DEFINE U == {s \in PreparedOwners : Mapping(s)}
<1>1. /\ pc = "abort" /\ pc' = "idle" /\ prep' = {}
      /\ mapped' = mapped \ AllTables(U)
      /\ visible' = visible \ (Planes \X {n})
      /\ UNCHANGED <<n, kind, lit, touched, cur, old, reset, fails, leaked, cleaning,
                     event, done, running, input, lists, shown, status, written, jobs,
                     signalled, lost>>
  BY DEF Abort, Step, Unmapped, PreparedOwners, flip, vsp, wb
<1>2. PreparedOwners = (touched \ prep) \X {n} /\ PreparedOwners' = {}
  BY <1>1 DEF PreparedOwners
<1>3. Current' = Current /\ Queued' = Queued /\ Settled' = Settled
  BY <1>1 DEF Settled, Current, Queued
<1>4. Owners = Settled \cup PreparedOwners /\ Owners' = Settled
  BY <1>1, <1>2, <1>3, Parts DEF Owners, JobOwner, Settled, Current, Queued
<1>5. \A s \in Settled : s[2] # n /\ s \notin PreparedOwners /\ (Mapping(s)' <=> Mapping(s))
  BY <1>1, <1>2, Parts DEF AgeInv, Mapping
<1>6. leaked \cap PreparedOwners = {}
  BY <1>1, <1>2, Parts DEF AgeInv
<1>7. Mapped' = Mapped \ U
  BY <1>1, <1>4, <1>5, <1>6 DEF Mapped
<1>8. mapped' = AllTables(Mapped)'
  BY <1>1, <1>7, Parts, TablesRemoved
<1>9. TypeOK'
  BY <1>1, Parts DEF TypeOK
<1>10. CommitInv' /\ AgeInv' /\ OwnerInv'
  BY <1>1, <1>3, Parts DEF CommitInv, AgeInv, OwnerInv
<1>11. FlipInv' /\ OrderInv'
  BY <1>1, Parts, OrderKept DEF FlipInv, Unfinished
<1>12. JobInv'
  BY <1>1, Parts, JobsKept
<1> QED  BY <1>8, <1>9, <1>10, <1>11, <1>12 DEF IInv, OwnersInv

\* The new states take the place of the old ones, which stay mapped; the job keeps
\* its mapping until it is queued.
LEMMA SwapPreserves ==
  ASSUME IInv, Swap
  PROVE  IInv'
<1>1. /\ pc = "prepare" /\ prep = {} /\ prep' = {}
      /\ old' = {<<p, cur[p]>> : p \in {q \in touched \ {0} : cur[q] # 0}}
      /\ cur' = [p \in Planes |-> IF p \in touched THEN n ELSE cur[p]]
      /\ done' = IF kind = "dark" THEN done \cup {n} ELSE done
      /\ lit' \in BOOLEAN /\ reset' = (reset \/ kind = "reset")
      /\ UNCHANGED <<n, kind, touched, visible, fails, leaked, mapped, cleaning,
                     event, running, input, lists, shown, status, written, jobs,
                     signalled, lost>>
  BY DEF Swap, prepare, vsp, wb
<1>2. \/ kind \in {"off", "reset"} /\ pc' = "disable"
      \/ kind \in {"on", "flip"} /\ pc' = "update"
      \/ kind = "dark" /\ pc' = "wait"
  BY Parts DEF Swap, TypeOK
<1>3. old = {} /\ touched \ {0} \subseteq Planes /\ n \in Commits /\ event = 0
  BY <1>1, Parts DEF CommitInv, TypeOK, Holders, FlipInv
<1>4. /\ cur \in [Planes -> 0 .. MaxCommit] /\ cur' \in [Planes -> 0 .. MaxCommit]
      /\ \A p \in Planes : cur'[p] = IF p \in touched THEN n ELSE cur[p]
      /\ \A p \in Planes : cur[p] \in Nat /\ cur[p] < n
  <2>1. \A p \in Planes : cur[p] # n /\ cur[p] <= n
    <3> SUFFICES ASSUME NEW p \in Planes  PROVE  cur[p] # n /\ cur[p] <= n
      OBVIOUS
    <3>1. <<p, cur[p]>> \in Settled
      BY DEF Settled, Current
    <3> QED  BY <1>1, <3>1, Parts DEF AgeInv
  <2> QED  BY <1>1, <1>3, <2>1, Parts DEF TypeOK, Commits
<1>5. /\ old' \subseteq Current /\ old' \subseteq Planes \X Commits
      /\ Current' \subseteq Current \cup (Planes \X {n})
      /\ \A s \in Current : s[2] # n /\ s[2] <= n
      /\ old' \cap Current' = {}
  <2>1. \A s \in old' : s \in Planes \X Commits /\ s \in Current /\ s[1] \in touched
    BY <1>1, <1>3, <1>4 DEF Current, Commits
  <2>2. \A s \in Current' : s \in Current \/ s \in Planes \X {n}
    BY <1>4 DEF Current
  <2>3. \A s \in Current' : s[1] \in touched => s[2] = n
    BY <1>4 DEF Current
  <2>4. \A s \in Current : s[2] # n /\ s[2] <= n
    BY <1>3, <1>4 DEF Current, Commits
  <2>5. old' \cap Current' = {}
    BY <2>1, <2>3, <2>4
  <2> QED  BY <2>1, <2>2, <2>4, <2>5
<1>6. /\ Queued' = Queued
      /\ Settled' \subseteq Settled \cup (Planes \X {n})
      /\ \A s \in Settled \cup leaked : s[2] # n
  BY <1>1, <1>5, Parts DEF Queued, Settled, AgeInv
<1>7. TypeOK'
  <2>1. old' \subseteq States
    BY <1>5 DEF States, Holders
  <2>2. done' \subseteq Commits
    BY <1>1, <1>3, Parts DEF TypeOK
  <2>3. pc' \in {"disable", "update", "wait"} /\ reset' \in BOOLEAN
    BY <1>1, <1>2, Parts DEF TypeOK
  <2> QED  BY <1>1, <1>4, <2>1, <2>2, <2>3, Parts DEF TypeOK
<1>8. CommitInv'
  BY <1>1, <1>2, <1>3, Parts DEF CommitInv, Commits
<1>9. AgeInv'
  <2>1. <<0, n>> \notin cleaning \cup Queued
    BY <1>6 DEF Settled
  <2> QED  BY <1>1, <1>2, <1>6, <2>1, Parts DEF AgeInv
<1>10. OwnerInv'
  <2>1. cleaning \cap (old' \cup Current' \cup Queued) = {}
    BY <1>5, <1>6, Parts DEF OwnerInv, Settled
  <2> QED  BY <1>1, <1>5, <1>6, <2>1, Parts DEF OwnerInv
<1>11. Mapped' = Mapped
  <2>1. /\ Owners = cleaning \cup Current \cup Queued \cup (touched \X {n})
        /\ Owners' = old' \cup cleaning \cup Current' \cup Queued \cup ((touched \cap {0}) \X {n})
    <3>1. JobOwner' = (touched \cap {0}) \X {n} /\ PreparedOwners' = {}
      BY <1>1, <1>2, Parts DEF JobOwner, PreparedOwners, CommitInv
    <3>2. JobOwner = {} /\ PreparedOwners = touched \X {n}
      BY <1>1 DEF JobOwner, PreparedOwners
    <3>3. Owners' = old' \cup cleaning' \cup Current' \cup Queued' \cup JobOwner'
      BY <3>1 DEF Owners, Current, Queued
    <3> QED  BY <1>1, <1>3, <1>6, <3>1, <3>2, <3>3 DEF Owners, Current, Queued
  <2>2. \A s : Mapping(s)' <=> Mapping(s)
    BY <1>1 DEF Mapping
  <2>3. ASSUME NEW s, s[1] = 0  PROVE  s \in Owners' <=> s \in Owners
    <3>1. s \notin Current /\ s \notin Current' /\ s \notin old'
      BY <1>5, <2>3, Parts DEF Current
    <3>2. s \in (touched \cap {0}) \X {n} <=> s \in touched \X {n}
      BY <2>3
    <3> QED  BY <2>1, <3>1, <3>2
  <2>4. ASSUME NEW s \in visible  PROVE  s \in Owners' <=> s \in Owners
    <3>1. PICK p \in Planes, k \in Commits : s = <<p, k>>
      BY Parts DEF TypeOK
    <3>2. s \in Current <=> cur[p] = k
      BY <3>1 DEF Current
    <3>3. s \in Current' <=> cur'[p] = k
      BY <3>1 DEF Current
    <3>4. s \in old' <=> p \in touched /\ cur[p] = k
      BY <1>1, <3>1, Parts DEF Commits
    <3>5. s \in touched \X {n} <=> p \in touched /\ k = n
      BY <3>1
    <3>6. s \notin (touched \cap {0}) \X {n}
      BY <3>1, Parts
    <3>7. cur'[p] = IF p \in touched THEN n ELSE cur[p]
      BY <1>4
    <3>8. s \in Current \/ s \in touched \X {n} <=> s \in old' \/ s \in Current'
      BY <3>2, <3>3, <3>4, <3>5, <3>7
    <3> QED  BY <2>1, <3>6, <3>8
  <2>5. \A s : Mapping(s) => (s \in Owners' <=> s \in Owners)
    BY <2>3, <2>4 DEF Mapping
  <2> QED  BY <1>1, <2>2, <2>5 DEF Mapped
<1>12. FlipInv'
  BY <1>1, <1>2, <1>3, Parts DEF FlipInv, Unfinished, Commits
<1>13. OrderInv' /\ JobInv'
  <2>1. pc # "flush" /\ pc' # "flush" /\ n \notin VspJobs
    BY <1>1, <1>2, Parts DEF JobInv
  <2> QED  BY <1>1, <2>1, Parts, OrderKept, JobsKept
<1> QED  BY <1>1, <1>7, <1>8, <1>9, <1>10, <1>11, <1>12, <1>13, Parts DEF IInv, OwnersInv

--------------------------------------------------------------------------------
(* The handlers of the CRTC                                                  *)

\* The VSP is stopped with no callback in progress: it has no frame and no job, and
\* the jobs that stay in the queue are lost.
LEMMA DisablePreserves ==
  ASSUME IInv, Disable
  PROVE  IInv'
<1>1. /\ pc = "disable" /\ pc' = (IF kind = "reset" THEN "update" ELSE "wait")
      /\ event = 0 /\ status = {} /\ running' = FALSE
      /\ input' = [p \in Planes |-> 0] /\ lists' = <<>> /\ shown' = NoFrame
      /\ lost' = (lost \/ {l.job : l \in Range(lists) \cup {shown}} # {0})
      /\ done' = done \cup {n}
      /\ UNCHANGED <<n, kind, lit, touched, visible, cur, old, reset, prep, fails, leaked,
                     mapped, cleaning, event, status, written, jobs, signalled>>
  BY DEF Disable, Step, commit, prepare
<1>2. n \in Commits
  BY <1>1, Parts
<1>3. TypeOK'
  <2>1. NoFrame \in Frames
    BY Parts DEF NoFrame, Frames
  <2>2. lists' \in Seq(Frames) /\ Len(lists') = 0
    BY <1>1
  <2>3. input' \in [Planes -> 0 .. MaxCommit]
    BY <1>1, Parts
  <2>4. lost' \in BOOLEAN
    BY <1>1, Parts DEF TypeOK
  <2>5. pc' \in {"update", "wait"} /\ done' \subseteq Commits
    BY <1>1, <1>2, Parts DEF TypeOK
  <2>6. Len(lists') <= 2 /\ shown' \in Frames
    BY <1>1, <2>1, <2>2
  <2>7. /\ running' \in BOOLEAN /\ event' \in 0 .. MaxCommit
        /\ status' \subseteq {"complete", "writeback"}
    BY <1>1, Parts DEF TypeOK
  <2> QED  BY <1>1, <2>2, <2>3, <2>4, <2>5, <2>6, <2>7, Parts DEF TypeOK
<1>4. OwnersInv'
  <2>1. kind \in {"off", "reset"}
    BY <1>1, Parts DEF CommitInv
  <2> QED  BY <1>1, <2>1, Parts, OwnersKept
<1>5. FlipInv'
  <2>1. Unfinished' = 0
    BY <1>1 DEF Unfinished
  <2>2. done' \subseteq 1 .. n
    BY <1>1, <1>2, Parts DEF FlipInv, Commits
  <2> QED  BY <1>1, <2>1, <2>2 DEF FlipInv
<1>6. DOMAIN lists' = {} /\ shown'.job = 0 /\ VspJobs' = {}
  BY <1>1 DEF VspJobs, NoFrame
<1>7. OrderInv'
  BY <1>1, <1>6, Parts DEF OrderInv
<1>8. JobInv'
  <2>1. CASE lost'
    BY <1>1, <1>6, <2>1 DEF JobInv
  <2>2. CASE ~lost'
    <3>1. shown.job = 0 /\ \A i \in DOMAIN lists : lists[i].job = 0
      BY <1>1, <2>2 DEF Range
    <3>2. VspJobs = {}
      BY <3>1 DEF VspJobs
    <3>3. Range(jobs) = {}
      BY <1>1, <2>2, <3>2, Parts DEF JobInv
    <3>4. Range(jobs)' = {}
      BY <1>1, <3>3
    <3> QED  BY <1>1, <1>6, <2>2, <3>4, Parts DEF JobInv
  <2> QED  BY <2>1, <2>2
<1> QED  BY <1>3, <1>4, <1>5, <1>7, <1>8 DEF IInv

\* The planes are set up, which neither owners nor frames depend on.
LEMMA UpdatePlanesPreserves ==
  ASSUME IInv, UpdatePlanes
  PROVE  IInv'
<1>1. /\ pc = "update" /\ pc' = "arm"
      /\ input' = [p \in Planes |-> IF p \notin touched THEN input[p]
                                    ELSE IF <<p, n>> \in visible THEN n ELSE 0]
      /\ UNCHANGED <<n, kind, lit, touched, visible, cur, old, reset, prep, fails, leaked,
                     mapped, cleaning, event, done, running, lists, shown, status, written,
                     jobs, signalled, lost>>
  BY DEF UpdatePlanes, Step, commit, prepare, flip, wb
<1>2. TypeOK'
  <2>1. input' \in [Planes -> 0 .. MaxCommit]
    BY <1>1, Parts DEF TypeOK
  <2> QED  BY <1>1, <2>1, Parts DEF TypeOK
<1>3. OwnersInv'
  BY <1>1, Parts, OwnersKept
<1>4. FlipInv' /\ OrderInv' /\ JobInv'
  BY <1>1, Parts, OrderKept, JobsKept DEF FlipInv, Unfinished, JobInv
<1> QED  BY <1>2, <1>3, <1>4 DEF IInv

\* From here on the flip may be completed, by the frame end of an earlier frame too.
LEMMA ArmEventPreserves ==
  ASSUME IInv, ArmEvent
  PROVE  IInv'
<1>1. /\ pc = "arm" /\ pc' = "queue" /\ event' = IF n \in done THEN event ELSE n
      /\ UNCHANGED <<n, kind, lit, touched, visible, cur, old, reset, prep, fails, leaked,
                     mapped, cleaning, done, running, input, lists, shown, status, written,
                     jobs, signalled, lost>>
  BY DEF ArmEvent, Step, commit, prepare, vsp, wb
<1>2. TypeOK'
  BY <1>1, Parts DEF TypeOK
<1>3. OwnersInv'
  BY <1>1, Parts, OwnersKept
<1>4. FlipInv'
  BY <1>1, Parts DEF FlipInv, Unfinished, Commits
<1>5. OrderInv' /\ JobInv'
  BY <1>1, Parts, OrderKept, JobsKept DEF JobInv
<1> QED  BY <1>2, <1>3, <1>4, <1>5 DEF IInv

\* The job is the last of the queue, which owns it now.
LEMMA QueueJobPreserves ==
  ASSUME IInv, QueueJob
  PROVE  IInv'
<1>1. /\ pc = "queue" /\ pc' = "flush"
      /\ jobs' = IF 0 \in touched THEN Append(jobs, n) ELSE jobs
      /\ UNCHANGED <<n, kind, lit, touched, visible, cur, old, reset, prep, fails, leaked,
                     mapped, cleaning, event, done, running, input, lists, shown, status,
                     written, signalled, lost>>
  BY DEF QueueJob, Step, commit, prepare, flip, vsp
<1>2. n \in Commits /\ jobs \in Seq(Commits)
  BY <1>1, Parts DEF TypeOK
<1>3. /\ jobs' \in Seq(Commits)
      /\ Range(jobs') = Range(jobs) \cup (IF 0 \in touched THEN {n} ELSE {})
  BY <1>1, <1>2, AppendOne
<1>4. TypeOK'
  BY <1>1, <1>3, Parts DEF TypeOK
<1>5. /\ Current' = Current /\ Queued' = Queued \cup JobOwner /\ JobOwner' = {}
      /\ Settled' = Settled \cup JobOwner
      /\ \A s \in JobOwner : s = <<0, n>>
  BY <1>1, <1>3 DEF Current, Queued, JobOwner, Settled
<1>6. Owners' = Owners
  <2>1. Owners = Settled \cup PreparedOwners \cup JobOwner
    BY Parts
  <2>2. Owners' = Settled' \cup PreparedOwners' \cup JobOwner'
    BY DEF Owners, Settled, Current, Queued
  <2>3. PreparedOwners' = {} /\ PreparedOwners = {}
    BY <1>1 DEF PreparedOwners
  <2> QED  BY <1>5, <2>1, <2>2, <2>3
<1>7. OwnersInv'
  <2>1. CommitInv'
    BY <1>1, Parts DEF CommitInv
  <2>2. AgeInv'
    BY <1>1, <1>5, Parts DEF AgeInv
  <2>3. OwnerInv'
    <3>1. <<0, n>> \notin cleaning /\ <<0, n>> \notin leaked
      BY <1>1, Parts DEF AgeInv, OwnerInv
    <3> QED  BY <1>1, <1>5, <3>1, Parts DEF OwnerInv
  <2>4. mapped' = AllTables(Mapped)'
    BY <1>1, <1>6, Parts DEF Mapped, Mapping
  <2> QED  BY <2>1, <2>2, <2>3, <2>4 DEF OwnersInv
<1>8. FlipInv'
  BY <1>1, Parts DEF FlipInv, Unfinished
<1>9. \A x \in Range(jobs) : x \in Nat /\ x < n
  <2> SUFFICES ASSUME NEW x \in Range(jobs)  PROVE  x \in Nat /\ x < n
    OBVIOUS
  <2>1. <<0, x>> \in Queued
    BY DEF Queued
  <2>2. x <= n /\ x # n
    BY <1>1, <2>1, Parts DEF AgeInv, Settled
  <2> QED  BY <1>2, <2>2, Parts DEF Range, Commits
<1>10. OrderInv'
  <2>1. ASSUME NEW i \in DOMAIN jobs', NEW j \in DOMAIN jobs', i < j
        PROVE  jobs'[i] < jobs'[j]
    <3>1. CASE 0 \notin touched
      BY <1>1, <2>1, <3>1, Parts DEF OrderInv
    <3>2. CASE 0 \in touched
      <4>1. /\ i \in DOMAIN jobs /\ jobs'[i] = jobs[i]
            /\ (j \in DOMAIN jobs /\ jobs'[j] = jobs[j]) \/ jobs'[j] = n
        BY <1>1, <1>2, <2>1, <3>2, AppendOne
      <4>2. jobs[i] < n
        BY <1>9, <4>1 DEF Range
      <4> QED  BY <2>1, <4>1, <4>2, Parts DEF OrderInv
    <3> QED  BY <3>1, <3>2
  <2> QED  BY <1>1, <2>1, Parts DEF OrderInv
<1>11. JobInv'
  <2>1. VspJobs' = VspJobs
    BY <1>1 DEF VspJobs
  <2>2. "writeback" \in status => jobs' # <<>> /\ jobs'[1] = jobs[1]
    <3>1. ASSUME "writeback" \in status  PROVE  jobs' # <<>> /\ jobs'[1] = jobs[1]
      <4>1. jobs # <<>> /\ 1 \in DOMAIN jobs
        BY <1>2, <3>1, TailOne, Parts DEF JobInv
      <4> QED  BY <1>1, <1>2, <4>1, AppendOne
    <3> QED  BY <3>1
  <2>3. "writeback" \in status => jobs'[1] # n
    <3>1. ASSUME "writeback" \in status  PROVE  jobs'[1] # n
      <4>1. jobs[1] \in Range(jobs)
        BY <1>2, <3>1, TailOne, Parts DEF JobInv
      <4> QED  BY <1>9, <2>2, <3>1, <4>1, Parts
    <3> QED  BY <3>1
  <2> QED  BY <1>1, <1>3, <2>1, <2>2, <2>3, Parts DEF JobInv
<1> QED  BY <1>4, <1>7, <1>8, <1>10, <1>11 DEF IInv

\* There is room for the frame, whose job comes after all others.
LEMMA FlushPreserves ==
  ASSUME IInv, Flush
  PROVE  IInv'
<1>1. /\ pc = "flush" /\ pc' = (IF kind = "flip" THEN "wait" ELSE "start")
      /\ lists' = Append(IF Len(lists) < 2 THEN lists ELSE Front(lists), Configured)
      /\ UNCHANGED <<n, kind, lit, touched, visible, cur, old, reset, prep, fails, leaked,
                     mapped, cleaning, event, done, running, input, shown, status, written,
                     jobs, signalled, lost>>
  BY DEF Flush, Step, commit, prepare, flip, wb
<1>2. n \in Commits /\ lists \in Seq(Frames) /\ Len(lists) \in Nat /\ Len(lists) <= 1
  BY <1>1, Parts DEF TypeOK, FlipInv, Unfinished
<1>3. Configured \in Frames /\ Configured.job = IF 0 \in touched THEN n ELSE 0
  <2>1. {<<p, input[p]>> : p \in {q \in Planes : input[q] # 0}} \subseteq States
    BY Parts DEF TypeOK, States, Holders, Commits
  <2> QED  BY <1>2, <2>1, Parts DEF Configured, Frames, Commits
<1>4. /\ lists' \in Seq(Frames) /\ Len(lists') = Len(lists) + 1
      /\ DOMAIN lists = 1 .. Len(lists) /\ DOMAIN lists' = 1 .. Len(lists) + 1
      /\ \A i \in DOMAIN lists : lists'[i] = lists[i]
      /\ lists'[Len(lists) + 1] = Configured
  BY <1>1, <1>2, <1>3, AppendOne
<1>5. TypeOK'
  BY <1>1, <1>2, <1>4, Parts DEF TypeOK
<1>6. OwnersInv'
  BY <1>1, Parts, OwnersKept
<1>7. FlipInv'
  <2>1. Unfinished' = Unfinished + 1 /\ Unfinished \in Nat
    <3>1. status' = status /\ Len(lists') = Len(lists) + 1 /\ Len(lists) \in Nat
      BY <1>1, <1>2, <1>4
    <3>2. CASE "complete" \in status
      BY <3>1, <3>2 DEF Unfinished
    <3>3. CASE "complete" \notin status
      BY <3>1, <3>3 DEF Unfinished
    <3> QED  BY <3>2, <3>3
  <2> QED  BY <1>1, <2>1, Parts DEF FlipInv
<1>8. /\ \A x \in VspJobs : x \in Nat /\ x < n
      /\ shown.job \in Nat /\ \A i \in DOMAIN lists : lists[i].job \in Nat
  <2>1. shown.job \in Nat /\ \A i \in DOMAIN lists : lists[i].job \in Nat
    <3>1. shown \in Frames /\ \A i \in DOMAIN lists : lists[i] \in Frames
      BY <1>2, <1>4, Parts DEF TypeOK
    <3>2. \A f \in Frames : f.job \in Nat
      BY Parts DEF Frames
    <3> QED  BY <3>1, <3>2
  <2>2. ASSUME NEW x \in VspJobs  PROVE  x < n
    <3>1. <<0, x>> \in Settled /\ x # n /\ x \in Nat
      BY <1>1, <2>1, Parts DEF JobInv, VspJobs, Settled, Queued
    <3>2. x <= n
      BY <3>1, Parts DEF AgeInv
    <3> QED  BY <3>1, <3>2, Parts
  <2> QED  BY <2>1, <2>2 DEF VspJobs
<1>9. shown.job < n /\ \A i \in DOMAIN lists : lists[i].job < n
  BY <1>2, <1>8 DEF VspJobs, Commits
<1>10. OrderInv'
  <2>1. ASSUME NEW i \in DOMAIN lists', NEW j \in DOMAIN lists', i < j, lists'[j].job # 0
        PROVE  lists'[i].job < lists'[j].job
    <3>1. i \in DOMAIN lists
      BY <1>2, <1>4, <2>1
    <3>2. CASE j \in DOMAIN lists
      BY <1>4, <2>1, <3>1, <3>2, Parts DEF OrderInv
    <3>3. CASE j \notin DOMAIN lists
      <4>1. lists'[j] = Configured
        BY <1>2, <1>4, <3>3
      <4> QED  BY <1>3, <1>4, <1>9, <2>1, <3>1, <4>1
    <3> QED  BY <3>2, <3>3
  <2>2. ASSUME NEW i \in DOMAIN lists', lists'[i].job # 0
        PROVE  shown'.job < lists'[i].job
    <3>1. CASE i \in DOMAIN lists
      BY <1>1, <1>4, <2>2, <3>1, Parts DEF OrderInv
    <3>2. CASE i \notin DOMAIN lists
      <4>1. lists'[i] = Configured
        BY <1>2, <1>4, <3>2
      <4> QED  BY <1>1, <1>3, <1>9, <2>2, <4>1
    <3> QED  BY <3>1, <3>2
  <2> QED  BY <1>1, <2>1, <2>2, Parts DEF OrderInv
<1>11. VspJobs' = VspJobs \cup (IF 0 \in touched THEN {n} ELSE {})
  <2>1. \A i \in DOMAIN lists' : i \in DOMAIN lists \/ lists'[i] = Configured
    BY <1>2, <1>4
  <2>2. \A i \in DOMAIN lists : i \in DOMAIN lists'
    BY <1>2, <1>4
  <2>3. Len(lists) + 1 \in DOMAIN lists'
    BY <1>2, <1>4
  <2>4. ASSUME NEW x \in VspJobs'
        PROVE  x \in VspJobs \cup (IF 0 \in touched THEN {n} ELSE {})
    BY <1>1, <1>3, <1>4, <2>1, <2>4 DEF VspJobs
  <2>5. ASSUME NEW x \in VspJobs \cup (IF 0 \in touched THEN {n} ELSE {})
        PROVE  x \in VspJobs'
    BY <1>1, <1>2, <1>3, <1>4, <2>2, <2>3, <2>5 DEF VspJobs, Commits
  <2> QED  BY <2>4, <2>5
<1>12. JobInv'
  <2>1. "writeback" \in status => jobs[1] \notin VspJobs'
    <3>1. SUFFICES ASSUME "writeback" \in status  PROVE  jobs[1] \notin VspJobs'
      OBVIOUS
    <3>2. jobs[1] \notin VspJobs /\ jobs[1] # n
      BY <1>1, <3>1, Parts DEF JobInv
    <3> QED  BY <1>11, <3>2
  <2> QED  BY <1>1, <1>11, <2>1, Parts DEF JobInv
<1> QED  BY <1>5, <1>6, <1>7, <1>10, <1>12 DEF IInv

\* The display starts.
LEMMA StartPreserves ==
  ASSUME IInv, Start
  PROVE  IInv'
<1>1. /\ pc = "start" /\ pc' = "wait" /\ running' = TRUE
      /\ UNCHANGED <<n, kind, lit, touched, visible, cur, old, reset, prep, fails, leaked,
                     mapped, cleaning, event, done, input, lists, shown, status, written,
                     jobs, signalled, lost>>
  BY DEF Start, Step, commit, prepare, flip, wb
<1>2. TypeOK'
  BY <1>1, Parts DEF TypeOK
<1>3. OwnersInv'
  BY <1>1, Parts, OwnersKept
<1>4. FlipInv' /\ OrderInv' /\ JobInv'
  BY <1>1, Parts, OrderKept, JobsKept DEF FlipInv, Unfinished
<1> QED  BY <1>2, <1>3, <1>4 DEF IInv

\* The states that were replaced are left to the core, once the flip is done.
LEMMA WaitFlipDonePreserves ==
  ASSUME IInv, WaitFlipDone
  PROVE  IInv'
<1>1. /\ pc = "wait" /\ pc' = "idle" /\ n \in done
      /\ cleaning' = cleaning \cup old /\ old' = {} /\ touched' = {}
      /\ UNCHANGED <<n, kind, lit, visible, cur, reset, prep, fails, leaked, mapped, event, done,
                     running, input, lists, shown, status, written, jobs, signalled, lost>>
  BY DEF WaitFlipDone, Step, prepare, flip, vsp, wb
<1>2. TypeOK'
  BY <1>1, Parts DEF TypeOK
<1>3. Current' = Current /\ Queued' = Queued /\ Settled' = Settled
  BY <1>1 DEF Settled, Current, Queued
<1>4. Owners' = Owners
  <2>1. JobOwner = {} /\ JobOwner' = {} /\ PreparedOwners = {} /\ PreparedOwners' = {}
    BY <1>1 DEF JobOwner, PreparedOwners
  <2>2. Owners' = Settled' \cup PreparedOwners' \cup JobOwner'
    BY DEF Owners, Settled, Current, Queued
  <2> QED  BY <1>3, <2>1, <2>2, Parts
<1>5. OwnersInv'
  <2>1. CommitInv' /\ AgeInv'
    BY <1>1, <1>3, Parts DEF CommitInv, AgeInv
  <2>2. OwnerInv'
    <3>1. old \cap Queued = {}
      BY Parts DEF OwnerInv, Queued
    <3> QED  BY <1>1, <1>3, <3>1, Parts DEF OwnerInv
  <2>3. mapped' = AllTables(Mapped)'
    BY <1>1, <1>4, Parts DEF Mapped, Mapping
  <2> QED  BY <2>1, <2>2, <2>3 DEF OwnersInv
<1>6. FlipInv'
  BY <1>1, Parts DEF FlipInv, Unfinished
<1>7. OrderInv' /\ JobInv'
  BY <1>1, Parts, OrderKept, JobsKept
<1> QED  BY <1>2, <1>5, <1>6, <1>7 DEF IInv

\* A job that is cleaned up was not queued any more.
LEMMA CleanupJobPreserves ==
  ASSUME IInv, NEW s \in cleaning, CleanupJob(s)
  PROVE  IInv'
<1>1. /\ s[1] = 0 /\ mapped' = mapped \ Unmapped({s}) /\ cleaning' = cleaning \ {s}
      /\ UNCHANGED <<n, kind, lit, touched, visible, cur, old, reset, prep, fails, leaked, pc,
                     event, done, running, input, lists, shown, status, written, jobs,
                     signalled, lost>>
  BY DEF CleanupJob, commit, prepare, flip, vsp, wb
<1>2. Mapping(s) /\ Unmapped({s}) = AllTables({s})
  <2>1. Mapping(s) /\ {t \in {s} : Mapping(t)} = {s}
    BY <1>1 DEF Mapping
  <2> QED  BY <2>1 DEF Unmapped
<1>3. s \notin old \cup Current \cup Queued \cup leaked /\ s \in Settled /\ s = <<0, s[2]>>
  <2>1. s \in States
    BY Parts DEF TypeOK
  <2> QED  BY <1>1, <2>1, Parts DEF OwnerInv, Settled, States
<1>4. s \notin PreparedOwners \cup JobOwner
  <2>1. s \notin PreparedOwners
    BY <1>3, Parts DEF PreparedOwners, AgeInv
  <2>2. s \notin JobOwner
    BY <1>3, Parts DEF JobOwner, AgeInv
  <2> QED  BY <2>1, <2>2
<1>5. /\ Current' = Current /\ Queued' = Queued /\ Settled' = Settled \ {s}
      /\ PreparedOwners' = PreparedOwners /\ JobOwner' = JobOwner
  BY <1>1, <1>3 DEF Settled, Current, Queued, PreparedOwners, JobOwner
<1>6. Owners' = Owners \ {s}
  <2>1. Owners' = Settled' \cup PreparedOwners' \cup JobOwner'
    BY DEF Owners, Settled, Current, Queued
  <2> QED  BY <1>4, <1>5, <2>1, Parts
<1>7. OwnersInv'
  <2>1. CommitInv' /\ AgeInv' /\ OwnerInv'
    BY <1>1, <1>5, Parts DEF CommitInv, AgeInv, OwnerInv
  <2>2. Mapped' = Mapped \ {s}
    BY <1>1, <1>3, <1>6 DEF Mapped, Mapping
  <2>3. mapped' = AllTables(Mapped)'
    <3>1. mapped' = AllTables(Mapped) \ AllTables({s})
      BY <1>1, <1>2, Parts
    <3>2. AllTables(Mapped') = AllTables(Mapped) \ AllTables({s})
      BY <2>2, TablesRemoved
    <3>3. AllTables(Mapped)' = AllTables(Mapped')
      BY DEF AllTables, TablesOf, NumTables
    <3> QED  BY <3>1, <3>2, <3>3
  <2> QED  BY <2>1, <2>3 DEF OwnersInv
<1>8. TypeOK'
  BY <1>1, Parts DEF TypeOK
<1>9. FlipInv' /\ OrderInv' /\ JobInv'
  BY <1>1, Parts, OrderKept DEF FlipInv, Unfinished, JobInv, VspJobs
<1> QED  BY <1>7, <1>8, <1>9 DEF IInv

\* Plane states that are cleaned up are not current, nor replaced by a commit that
\* is still in progress.
LEMMA CleanupPlanesPreserves ==
  ASSUME IInv, CleanupPlanes
  PROVE  IInv'
<1> DEFINE C == cleaning \cap (Planes \X Commits)
           U == {s \in C : Mapping(s)}
<1>1. /\ mapped' = mapped \ AllTables(U)
      /\ visible' = visible \ cleaning /\ cleaning' = cleaning \ C
      /\ UNCHANGED <<n, kind, lit, touched, cur, old, reset, prep, fails, leaked, pc,
                     event, done, running, input, lists, shown, status, written, jobs,
                     signalled, lost>>
  BY DEF CleanupPlanes, Unmapped, prepare, flip, vsp, wb
<1>2. C \cap (old \cup Current \cup Queued \cup leaked) = {} /\ C \subseteq Settled
  BY Parts DEF OwnerInv, Settled
<1>3. C \cap (PreparedOwners \cup JobOwner) = {}
  <2>1. C \cap PreparedOwners = {}
    BY <1>2, Parts DEF PreparedOwners, AgeInv
  <2>2. C \cap JobOwner = {}
    BY Parts DEF JobOwner
  <2> QED  BY <2>1, <2>2
<1>4. /\ Current' = Current /\ Queued' = Queued /\ Settled' = Settled \ C
      /\ PreparedOwners' = PreparedOwners /\ JobOwner' = JobOwner
  BY <1>1, <1>2 DEF Settled, Current, Queued, PreparedOwners, JobOwner
<1>5. Owners' = Owners \ C
  <2>1. Owners' = Settled' \cup PreparedOwners' \cup JobOwner'
    BY DEF Owners, Settled, Current, Queued
  <2> QED  BY <1>3, <1>4, <2>1, Parts
<1>6. \A s \in Owners \ C : Mapping(s)' <=> Mapping(s)
  <2> SUFFICES ASSUME NEW s \in Owners, s \notin C, s \in visible, s \in cleaning  PROVE  FALSE
    BY <1>1 DEF Mapping
  <2> QED  BY Parts DEF TypeOK
<1>7. OwnersInv'
  <2>1. CommitInv' /\ OwnerInv'
    BY <1>1, <1>4, Parts DEF CommitInv, OwnerInv
  <2>2. AgeInv'
    BY <1>1, <1>4, Parts DEF AgeInv
  <2>3. Mapped' = Mapped \ U
    BY <1>1, <1>2, <1>5, <1>6 DEF Mapped
  <2>4. mapped' = AllTables(Mapped)'
    BY <1>1, <2>3, Parts, TablesRemoved
  <2> QED  BY <2>1, <2>2, <2>4 DEF OwnersInv
<1>8. TypeOK'
  BY <1>1, Parts DEF TypeOK
<1>9. FlipInv' /\ OrderInv' /\ JobInv'
  BY <1>1, Parts, OrderKept DEF FlipInv, Unfinished, JobInv, VspJobs
<1> QED  BY <1>7, <1>8, <1>9 DEF IInv

--------------------------------------------------------------------------------
(* Frame ends                                                                *)

\* The job of the frame that ends, if any, is the first that is queued, but for
\* jobs that were lost.
LEMMA FrameEndPreserves ==
  ASSUME IInv, FrameEnd
  PROVE  IInv'
<1> DEFINE x == shown.job
<1>1. /\ status = {} /\ (lists # <<>> \/ x # 0)
      /\ written' = written \cup ({x} \ {0})
      /\ lists = <<>> => /\ shown' = [shown EXCEPT !.job = 0] /\ lists' = lists
      /\ lists # <<>> => /\ shown' = Head(lists) /\ lists' = Tail(lists)
      /\ "complete" \in status' <=> lists # <<>>
      /\ "writeback" \in status' <=> x # 0
      /\ status' \subseteq {"complete", "writeback"}
      /\ UNCHANGED <<n, kind, lit, touched, visible, cur, old, reset, prep, fails, leaked, pc,
                     mapped, cleaning, event, done, running, input, jobs, signalled, lost>>
  BY DEF FrameEnd, commit, prepare, flip, wb
<1>2. /\ lists \in Seq(Frames) /\ shown \in Frames /\ x \in 0 .. MaxCommit
      /\ lists # <<>> => /\ lists[1] \in Frames /\ lists[1] = Head(lists)
                         /\ Tail(lists) \in Seq(Frames) /\ Len(Tail(lists)) = Len(lists) - 1
                         /\ DOMAIN lists = 1 .. Len(lists) /\ Len(lists) \in Nat \ {0}
                         /\ DOMAIN Tail(lists) = 1 .. Len(lists) - 1
                         /\ \A i \in 1 .. Len(lists) - 1 : Tail(lists)[i] = lists[i + 1]
  <2>1. lists \in Seq(Frames) /\ shown \in Frames /\ x \in 0 .. MaxCommit
    BY Parts DEF TypeOK, Frames
  <2> QED  BY <2>1, TailOne
<1>3. /\ \A i \in DOMAIN lists : lists[i].job \in Nat
      /\ \A i \in DOMAIN lists : lists[i].job # 0 => x < lists[i].job
      /\ \A i \in DOMAIN lists, j \in DOMAIN lists :
           i < j /\ lists[j].job # 0 => lists[i].job < lists[j].job
  <2>1. \A i \in DOMAIN lists : lists[i] \in Frames
    BY <1>2
  <2>2. \A f \in Frames : f.job \in Nat
    BY Parts DEF Frames
  <2> QED  BY <2>1, <2>2, Parts DEF OrderInv
<1>4. VspJobs' = VspJobs \ {x} /\ \A y \in VspJobs' : x < y
  <2>1. CASE lists = <<>>
    <3>1. shown'.job = 0 /\ DOMAIN lists = {} /\ DOMAIN lists' = {}
      BY <1>1, <1>2, <2>1 DEF Frames
    <3> QED  BY <3>1 DEF VspJobs
  <2>2. CASE lists # <<>>
    <3>1. VspJobs' = {lists[i].job : i \in DOMAIN lists} \ {0}
      <4>1. ASSUME NEW y \in VspJobs'  PROVE  y \in {lists[i].job : i \in DOMAIN lists} \ {0}
        <5>1. y # 0 /\ (y = lists[1].job \/ \E i \in 1 .. Len(lists) - 1 : y = lists[i + 1].job)
          BY <1>1, <1>2, <2>2, <4>1 DEF VspJobs
        <5> QED  BY <1>2, <2>2, <5>1
      <4>2. ASSUME NEW i \in DOMAIN lists, lists[i].job # 0  PROVE  lists[i].job \in VspJobs'
        <5>1. i = 1 \/ (i - 1 \in 1 .. Len(lists) - 1 /\ lists'[i - 1] = lists[i])
          BY <1>1, <1>2, <2>2
        <5> QED  BY <1>1, <1>2, <2>2, <4>2, <5>1 DEF VspJobs
      <4> QED  BY <4>1, <4>2
    <3>2. \A y \in VspJobs' : x < y
      BY <1>3, <3>1
    <3>3. x \notin VspJobs'
      BY <1>2, <3>2
    <3> QED  BY <3>1, <3>2, <3>3 DEF VspJobs
  <2> QED  BY <2>1, <2>2
<1>5. TypeOK'
  <2>1. shown' \in Frames
    BY <1>1, <1>2, VspBuffersAssumption DEF Frames
  <2>2. lists' \in Seq(Frames) /\ Len(lists') <= 2
    BY <1>1, <1>2, Parts DEF TypeOK
  <2>3. written' \subseteq Commits
    BY <1>1, <1>2, Parts DEF TypeOK, Commits
  <2> QED  BY <1>1, <2>1, <2>2, <2>3, Parts DEF TypeOK
<1>6. OwnersInv'
  BY <1>1, Parts, OwnersKept
<1>7. FlipInv'
  <2>1. Unfinished' = Unfinished
    <3>1. CASE lists = <<>>
      BY <1>1, <3>1 DEF Unfinished
    <3>2. CASE lists # <<>>
      <4>1. Unfinished = Len(lists)
        BY <1>1, <1>2, <3>2 DEF Unfinished
      <4>2. Unfinished' = Len(lists) - 1 + 1
        BY <1>1, <1>2, <3>2 DEF Unfinished
      <4> QED  BY <1>2, <3>2, <4>1, <4>2
    <3> QED  BY <3>1, <3>2
  <2> QED  BY <1>1, <2>1, Parts DEF FlipInv
<1>8. OrderInv'
  <2>1. CASE lists = <<>>
    <3>1. DOMAIN lists' = {}
      BY <1>1, <2>1
    <3> QED  BY <1>1, <3>1, Parts DEF OrderInv
  <2>2. CASE lists # <<>>
    <3>1. \A i \in DOMAIN lists' : lists'[i] = lists[i + 1] /\ i \in 1 .. Len(lists) - 1
      BY <1>1, <1>2, <2>2
    <3>2. \A i \in DOMAIN lists', j \in DOMAIN lists' :
            i < j /\ lists'[j].job # 0 => lists'[i].job < lists'[j].job
      <4> SUFFICES ASSUME NEW i \in DOMAIN lists', NEW j \in DOMAIN lists',
                          i < j, lists'[j].job # 0
                   PROVE  lists'[i].job < lists'[j].job
        OBVIOUS
      <4>1. /\ i + 1 \in DOMAIN lists /\ j + 1 \in DOMAIN lists /\ i + 1 < j + 1
            /\ lists'[i] = lists[i + 1] /\ lists'[j] = lists[j + 1]
        BY <1>2, <2>2, <3>1
      <4> QED  BY <1>3, <4>1
    <3>3. \A i \in DOMAIN lists' : lists'[i].job # 0 => shown'.job < lists'[i].job
      <4> SUFFICES ASSUME NEW i \in DOMAIN lists', lists'[i].job # 0
                   PROVE  shown'.job < lists'[i].job
        OBVIOUS
      <4>1. /\ 1 \in DOMAIN lists /\ i + 1 \in DOMAIN lists /\ 1 < i + 1
            /\ lists'[i] = lists[i + 1] /\ shown' = lists[1]
        BY <1>1, <1>2, <2>2, <3>1
      <4> QED  BY <1>3, <4>1
    <3> QED  BY <1>1, <3>2, <3>3, Parts DEF OrderInv
  <2> QED  BY <2>1, <2>2
<1>9. x # 0 => /\ jobs # <<>> /\ jobs[1] <= x /\ jobs[1] \in Nat /\ jobs[1] \in Range(jobs)
               /\ x \in VspJobs /\ x <= n
  <2> SUFFICES ASSUME x # 0
               PROVE  /\ jobs # <<>> /\ jobs[1] <= x /\ jobs[1] \in Nat /\ jobs[1] \in Range(jobs)
                      /\ x \in VspJobs /\ x <= n
    OBVIOUS
  <2>1. x \in VspJobs /\ x \in Range(jobs)
    BY Parts DEF VspJobs, JobInv
  <2>2. PICK i \in DOMAIN jobs : x = jobs[i]
    BY <2>1 DEF Range
  <2>3. jobs \in Seq(Commits) /\ jobs # <<>> /\ 1 \in DOMAIN jobs /\ i \in Nat /\ 1 <= i
    BY <2>2, Parts DEF TypeOK
  <2>4. jobs[1] \in Nat /\ jobs[1] \in Range(jobs)
    <3>1. jobs[1] \in Commits
      BY <2>3
    <3> QED  BY <2>3, <3>1 DEF Range, Commits
  <2>5. jobs[1] <= x
    <3>1. CASE i = 1
      BY <2>2, <2>4, <3>1
    <3>2. CASE 1 < i
      BY <1>2, <2>2, <2>3, <2>4, <3>2, Parts DEF OrderInv
    <3> QED  BY <2>3, <3>1, <3>2
  <2>6. <<0, x>> \in Settled
    BY <2>1 DEF Settled, Queued
  <2>7. x <= n
    BY <2>6, Parts DEF AgeInv
  <2> QED  BY <2>1, <2>3, <2>4, <2>5, <2>7
<1>10. JobInv'
  <2>1. \A y \in VspJobs' : x < y /\ y \in VspJobs
    BY <1>4
  <2>2. x # 0 => /\ jobs # <<>> /\ jobs[1] \notin VspJobs'
                 /\ pc = "flush" => jobs[1] # n
    <3> SUFFICES ASSUME x # 0
                 PROVE  jobs # <<>> /\ jobs[1] \notin VspJobs' /\ (pc = "flush" => jobs[1] # n)
      OBVIOUS
    <3>1. pc = "flush" => x # n
      BY <1>9, Parts DEF JobInv
    <3>2. jobs[1] \in VspJobs' => x < jobs[1]
      BY <2>1
    <3> QED  BY <1>2, <1>9, <3>1, <3>2, Parts
  <2>3. ASSUME ~lost
        PROVE  /\ signalled \subseteq written'
               /\ x # 0 => jobs[1] = x /\ jobs[1] \in written'
               /\ \A y \in Range(jobs) :
                    \/ y \in VspJobs'
                    \/ pc = "flush" /\ y = n /\ 0 \in touched
                    \/ x # 0 /\ y = jobs[1]
    <3>1. \A y \in Range(jobs) : y \in VspJobs \/ (pc = "flush" /\ y = n /\ 0 \in touched)
      BY <1>1, <2>3, Parts DEF JobInv
    <3>2. x # 0 => jobs[1] = x
      <4> SUFFICES ASSUME x # 0  PROVE  jobs[1] = x
        OBVIOUS
      <4>1. jobs[1] \in VspJobs
        BY <1>9, <2>2, <3>1
      <4>2. jobs[1] = x \/ x < jobs[1]
        BY <1>4, <4>1
      <4> QED  BY <1>2, <1>9, <4>2
    <3>3. 0 \notin VspJobs
      BY DEF VspJobs
    <3> QED  BY <1>1, <1>4, <2>3, <3>1, <3>2, <3>3, Parts DEF JobInv
  <2> QED  BY <1>1, <2>1, <2>2, <2>3, Parts DEF JobInv
<1> QED  BY <1>5, <1>6, <1>7, <1>8, <1>10 DEF IInv

\* The flip is done, whichever frame it is that ended.
LEMMA CompleteFlipPreserves ==
  ASSUME IInv, CompleteFlip
  PROVE  IInv'
<1>1. /\ "complete" \in status /\ event' = 0
      /\ done' = done \cup ({event} \ {0}) /\ status' = status \ {"complete"}
      /\ UNCHANGED <<n, kind, lit, touched, visible, cur, old, reset, prep, fails, leaked, pc,
                     mapped, cleaning, running, input, lists, shown, written, jobs,
                     signalled, lost>>
  BY DEF CompleteFlip, commit, prepare, wb
<1>2. TypeOK'
  <2>1. done' \subseteq Commits
    BY <1>1, Parts DEF TypeOK, Commits
  <2> QED  BY <1>1, <2>1, Parts DEF TypeOK
<1>3. OwnersInv'
  BY <1>1, Parts, OwnersKept
<1>4. FlipInv'
  <2>1. Unfinished' = Len(lists) /\ Unfinished = Len(lists) + 1 /\ Len(lists) \in Nat
    BY <1>1, Parts DEF Unfinished, TypeOK
  <2>2. done' \subseteq 1 .. n
    BY <1>1, Parts DEF FlipInv, CommitInv, TypeOK
  <2>3. event # 0 => pc \in {"queue", "flush", "start", "wait"}
    BY Parts DEF FlipInv
  <2>4. done' # done => event # 0
    BY <1>1
  <2> QED  BY <1>1, <2>1, <2>2, <2>3, <2>4, Parts DEF FlipInv
<1>5. OrderInv' /\ JobInv'
  <2>1. VspJobs' = VspJobs
    BY <1>1 DEF VspJobs
  <2> QED  BY <1>1, <2>1, Parts, OrderKept DEF JobInv
<1> QED  BY <1>2, <1>3, <1>4, <1>5 DEF IInv

\* The first job of the queue is handed to the core.
LEMMA CompleteJobPreserves ==
  ASSUME IInv, CompleteJob
  PROVE  IInv'
<1> DEFINE h == jobs[1]
<1>1. jobs \in Seq(Commits) /\ jobs # <<>> /\ status = {"writeback"}
  BY Parts DEF CompleteJob, TypeOK, JobInv
<1>2. /\ Tail(jobs) \in Seq(Commits) /\ Head(jobs) = h /\ h \in Commits
      /\ DOMAIN jobs = 1 .. Len(jobs) /\ DOMAIN Tail(jobs) = 1 .. Len(jobs) - 1
      /\ Len(jobs) \in Nat \ {0}
      /\ \A i \in 1 .. Len(jobs) - 1 : Tail(jobs)[i] = jobs[i + 1]
      /\ Range(jobs) = {h} \cup Range(Tail(jobs))
  BY <1>1, TailOne
<1>3. /\ signalled' = signalled \cup {h} /\ cleaning' = cleaning \cup {<<0, h>>}
      /\ jobs' = Tail(jobs) /\ status' = {}
      /\ UNCHANGED <<n, kind, lit, touched, visible, cur, old, reset, prep, fails, leaked, pc,
                     mapped, event, done, running, input, lists, shown, written, lost>>
  BY <1>2 DEF CompleteJob, commit, prepare, flip
<1>4. h \notin Range(jobs')
  <2> SUFFICES ASSUME NEW i \in DOMAIN jobs', jobs'[i] = h  PROVE  FALSE
    BY DEF Range
  <2>1. i + 1 \in DOMAIN jobs /\ 1 \in DOMAIN jobs /\ 1 < i + 1 /\ jobs'[i] = jobs[i + 1]
    BY <1>2, <1>3
  <2>2. h < jobs[i + 1]
    BY <2>1, Parts DEF OrderInv
  <2> QED  BY <1>2, <2>1, <2>2 DEF Commits
<1>5. /\ Current' = Current /\ Queued = Queued' \cup {<<0, h>>} /\ <<0, h>> \notin Queued'
      /\ Settled' = Settled
      /\ PreparedOwners' = PreparedOwners /\ JobOwner' = JobOwner
  BY <1>2, <1>3, <1>4 DEF Settled, Current, Queued, PreparedOwners, JobOwner
<1>6. Owners' = Owners
  <2>1. Owners' = Settled' \cup PreparedOwners' \cup JobOwner'
    BY DEF Owners, Settled, Current, Queued
  <2> QED  BY <1>5, <2>1, Parts
<1>7. OwnersInv'
  <2>1. CommitInv' /\ AgeInv'
    BY <1>3, <1>5, Parts DEF CommitInv, AgeInv
  <2>2. OwnerInv'
    <3>1. <<0, h>> \notin old /\ <<0, h>> \notin Current
      BY Parts DEF OwnerInv, Current
    <3> QED  BY <1>3, <1>5, <3>1, Parts DEF OwnerInv
  <2>3. mapped' = AllTables(Mapped)'
    BY <1>3, <1>6, Parts DEF Mapped, Mapping
  <2> QED  BY <2>1, <2>2, <2>3 DEF OwnersInv
<1>8. TypeOK'
  <2>1. <<0, h>> \in States
    BY <1>2 DEF States, Holders
  <2> QED  BY <1>2, <1>3, <2>1, Parts DEF TypeOK
<1>9. FlipInv'
  BY <1>1, <1>3, Parts DEF FlipInv, Unfinished
<1>10. OrderInv'
  <2>1. ASSUME NEW i \in DOMAIN jobs', NEW j \in DOMAIN jobs', i < j
        PROVE  jobs'[i] < jobs'[j]
    <3>1. /\ i + 1 \in DOMAIN jobs /\ j + 1 \in DOMAIN jobs /\ i + 1 < j + 1
          /\ jobs'[i] = jobs[i + 1] /\ jobs'[j] = jobs[j + 1]
      BY <1>2, <1>3, <2>1
    <3> QED  BY <3>1, Parts DEF OrderInv
  <2> QED  BY <1>3, <2>1, Parts DEF OrderInv
<1>11. JobInv'
  <2>1. VspJobs' = VspJobs /\ h \notin VspJobs
    BY <1>1, <1>3, Parts DEF VspJobs, JobInv
  <2>2. pc = "flush" => h # n
    BY <1>1, Parts DEF JobInv
  <2>3. ~lost => h \in written
    BY <1>1, Parts DEF JobInv
  <2>4. \A y \in Range(jobs') : y \in Range(jobs) /\ y # h
    BY <1>2, <1>3, <1>4
  <2>5. VspJobs \subseteq Range(jobs')
    BY <1>2, <1>3, <2>1, Parts DEF JobInv
  <2> QED  BY <1>1, <1>2, <1>3, <2>1, <2>2, <2>3, <2>4, <2>5, Parts DEF JobInv
<1> QED  BY <1>7, <1>8, <1>9, <1>10, <1>11 DEF IInv

--------------------------------------------------------------------------------
(* The theorems                                                              *)

\* Nothing is mapped at first, and the VSP has no frame.
LEMMA InitInvariant == Init => IInv
<1> SUFFICES ASSUME Init  PROVE  IInv
  OBVIOUS
<1>1. MaxCommit \in Nat /\ MaxFail \in Nat /\ 0 \notin Planes
  BY VspBuffersAssumption
<1>2. NoFrame \in Frames
  BY <1>1 DEF NoFrame, Frames
<1>3. lists = <<>> /\ DOMAIN lists = {} /\ jobs = <<>> /\ DOMAIN jobs = {} /\ Range(jobs) = {}
  BY DEF Init, Range
<1>4. TypeOK
  <2>1. cur \in [Planes -> 0 .. MaxCommit] /\ input \in [Planes -> 0 .. MaxCommit]
    BY <1>1 DEF Init
  <2>2. lists \in Seq(Frames) /\ Len(lists) <= 2 /\ jobs \in Seq(Commits)
    BY <1>3
  <2>3. n = 0 /\ fails = 0 /\ event = 0 /\ 0 \in 0 .. MaxCommit /\ 0 \in 0 .. MaxFail
    BY <1>1 DEF Init
  <2>4. shown \in Frames
    BY <1>2 DEF Init
  <2> QED  BY <2>1, <2>2, <2>3, <2>4 DEF Init, TypeOK
<1>5. \A s \in Settled : s[1] \in Planes /\ s[2] = 0
  BY <1>3 DEF Init, Settled, Current, Queued
<1>6. Mapped = {}
  <2>1. Owners = Settled
    BY DEF Init, Owners, PreparedOwners, JobOwner, Settled, Current, Queued
  <2> QED  BY <1>1, <1>5, <2>1 DEF Init, Mapped, Mapping
<1>7. OwnersInv
  <2>1. CommitInv /\ AgeInv
    BY <1>5 DEF Init, CommitInv, AgeInv
  <2>2. OwnerInv
    BY DEF Init, OwnerInv
  <2>3. mapped = AllTables(Mapped)
    BY <1>6 DEF Init, AllTables
  <2> QED  BY <2>1, <2>2, <2>3 DEF OwnersInv
<1>8. FlipInv
  BY <1>3 DEF Init, FlipInv, Unfinished
<1>9. OrderInv /\ JobInv
  <2>1. VspJobs = {}
    BY <1>3 DEF Init, VspJobs, NoFrame
  <2> QED  BY <1>3, <2>1 DEF Init, OrderInv, JobInv
<1> QED  BY <1>4, <1>7, <1>8, <1>9 DEF IInv

\* Every step keeps the invariant.
LEMMA NextPreserves == IInv /\ [Next]_vars => IInv'
<1> SUFFICES ASSUME IInv, [Next]_vars  PROVE  IInv'
  OBVIOUS
<1>1. CASE UNCHANGED vars
  <2>1. UNCHANGED <<n, kind, lit, touched, visible, cur, old, reset, prep, fails, leaked, pc,
                    mapped, cleaning, event, done, running, input, lists, shown, status,
                    written, jobs, signalled, lost>>
    BY <1>1 DEF vars, commit, prepare, flip, vsp, wb
  <2>2. TypeOK'
    BY <2>1, Parts DEF TypeOK
  <2>3. OwnersInv'
    BY <2>1, Parts, OwnersKept
  <2>4. FlipInv' /\ OrderInv' /\ JobInv'
    BY <2>1, Parts, OrderKept DEF FlipInv, Unfinished, JobInv, VspJobs
  <2> QED  BY <2>2, <2>3, <2>4 DEF IInv
<1>2. CASE StartCommit
  BY <1>2, StartCommitPreserves
<1>3. CASE CommitThread
  BY <1>3, PreparePreserves, PrepareFailedPreserves, AbortPreserves, SwapPreserves,
     DisablePreserves, UpdatePlanesPreserves, ArmEventPreserves, QueueJobPreserves,
     FlushPreserves, StartPreserves, WaitFlipDonePreserves DEF CommitThread
<1>4. CASE Vsp
  BY <1>4, FrameEndPreserves, CompleteFlipPreserves, CompleteJobPreserves DEF Vsp
<1>5. CASE Cleanup
  BY <1>5, CleanupPlanesPreserves, CleanupJobPreserves DEF Cleanup
<1> QED  BY <1>1, <1>2, <1>3, <1>4, <1>5 DEF Next

\* The invariant always holds.
THEOREM Invariant == Spec => []IInv
<1> QED  BY InitInvariant, NextPreserves, PTL DEF Spec

\* States, queues and frames are of the commits so far, and the VSP never has more
\* than two frames to take.
THEOREM TypeCorrect == Spec => []TypeOK
<1>1. IInv => TypeOK
  BY DEF IInv
<1> QED  BY <1>1, Invariant, PTL

\* Whatever is mapped in the VSP has an owner that will undo it, and whatever has
\* an owner is still mapped, through failing calls, clean-ups beside later commits
\* and frame ends at any time.
THEOREM NothingLeaked == Spec => []MappingsOwned
<1>1. IInv => MappingsOwned
  <2> SUFFICES ASSUME IInv  PROVE  mapped = Unmapped(Owners) \cup AllTables(leaked)
    BY DEF MappingsOwned
  <2>1. mapped = AllTables({s \in Owners : Mapping(s)} \cup leaked)
    BY Parts DEF Mapped
  <2> QED  BY <2>1, TablesAdded DEF Unmapped
<1> QED  BY <1>1, Invariant, PTL

\* A writeback job is signalled after the VSP has written it, unless a job that was
\* queued is lost when a CRTC is disabled.
THEOREM JobsInOrder == Spec => []JobsWritten
<1>1. IInv => JobsWritten
  BY DEF IInv, JobInv, JobsWritten
<1> QED  BY <1>1, Invariant, PTL

--------------------------------------------------------------------------------
(* What the VSP may access                                                   *)

\* The states the VSP is configured to read.
Inputs == {<<p, input[p]>> : p \in {q \in Planes : input[q] # 0}}

\* Until an active CRTC is reset, a commit has at most one frame under way, which
\* is its own.  What the VSP reads is displayed, and current or replaced by the
\* commit in progress; once the frame of a commit is taken that is what the VSP is
\* configured to read.
AccessInv ==
  ~reset =>
    /\ pc \notin {"prepare", "abort", "idle"} => kind # "reset"
    /\ pc \notin {"prepare", "abort", "idle"} => \A p \in touched \ {0} : cur[p] = n
    /\ kind = "dark" => ~lit
    /\ pc = "update" => lit
    /\ pc \in {"update", "arm"} => n \notin done
    /\ pc \in {"queue", "flush"} => event = n
    /\ Unfinished = IF event # 0 /\ pc \in {"start", "wait"} THEN 1 ELSE 0
    /\ Inputs \subseteq visible
    /\ \A p \in Planes : input[p] # 0 =>
         /\ IF p \in touched /\ pc \in {"disable", "update"} THEN <<p, input[p]>> \in old
            ELSE input[p] = cur[p]
         /\ lit \/ pc = "disable"
    /\ \A i \in DOMAIN lists : lists[i].reads = Inputs
    /\ lists = <<>> /\ pc \notin {"arm", "queue", "flush"} => shown.reads = Inputs
    /\ shown.reads \subseteq visible \cap (old \cup Current)

\* What the VSP is configured to read has an owner, the commit at the latest that
\* replaces it.
LEMMA InputsOwned ==
  ASSUME IInv, AccessInv, ~reset
  PROVE  /\ Inputs \subseteq visible \cap (old \cup Current)
         /\ pc \notin {"disable", "update"} => Inputs \subseteq Current
BY DEF AccessInv, Inputs, Current

\* Steps that concern neither frames nor states leave this alone.
LEMMA AccessKept ==
  ASSUME AccessInv,
         UNCHANGED <<n, kind, lit, touched, visible, cur, old, reset, event, done, input, lists,
                     shown>>,
         "complete" \in status' <=> "complete" \in status,
         \/ pc' = pc
         \/ pc = "prepare" /\ pc' = "abort"
         \/ pc = "queue" /\ pc' = "flush"
         \/ pc = "start" /\ pc' = "wait"
  PROVE  AccessInv'
<1>1. Inputs' = Inputs /\ Current' = Current /\ Unfinished' = Unfinished
  BY DEF Inputs, Current, Unfinished
<1> QED  BY <1>1 DEF AccessInv

\* A commit that starts changes neither what is configured nor what is current.
LEMMA StartCommitAccess ==
  ASSUME IInv, AccessInv, StartCommit
  PROVE  AccessInv'
<1>1. /\ pc = "idle" /\ pc' = "prepare" /\ visible \subseteq visible'
      /\ kind' = "dark" => ~lit
      /\ UNCHANGED <<lit, cur, old, reset, event, done, input, lists, shown, status>>
  BY DEF StartCommit, flip, vsp
<1>2. event = 0
  BY <1>1, Parts DEF FlipInv
<1>3. Inputs' = Inputs /\ Current' = Current /\ Unfinished' = Unfinished
  BY <1>1 DEF Inputs, Current, Unfinished
<1> QED  BY <1>1, <1>2, <1>3 DEF AccessInv

\* What is read is not of the commit that is given up.
LEMMA AbortAccess ==
  ASSUME IInv, AccessInv, Abort
  PROVE  AccessInv'
<1>1. /\ pc = "abort" /\ pc' = "idle" /\ visible' = visible \ (Planes \X {n})
      /\ UNCHANGED <<n, kind, lit, touched, cur, old, reset, event, done, input, lists, shown,
                     status>>
  BY DEF Abort, Step, flip, vsp
<1>2. event = 0
  BY <1>1, Parts DEF FlipInv
<1>3. Inputs' = Inputs /\ Current' = Current /\ Unfinished' = Unfinished
  BY <1>1 DEF Inputs, Current, Unfinished
<1>4. \A s \in old \cup Current : s[2] # n
  BY <1>1, Parts DEF AgeInv, Settled
<1>5. ~reset => Inputs \subseteq visible'
  BY <1>1, <1>4, InputsOwned
<1>6. ~reset => shown.reads \subseteq visible' \cap (old \cup Current)
  BY <1>1, <1>4 DEF AccessInv
<1> QED  BY <1>1, <1>2, <1>3, <1>5, <1>6 DEF AccessInv

\* What is read and replaced stays until the commit ends.
LEMMA SwapAccess ==
  ASSUME IInv, AccessInv, Swap
  PROVE  AccessInv'
<1>1. /\ pc = "prepare"
      /\ old' = {<<p, cur[p]>> : p \in {q \in touched \ {0} : cur[q] # 0}}
      /\ cur' = [p \in Planes |-> IF p \in touched THEN n ELSE cur[p]]
      /\ done' = IF kind = "dark" THEN done \cup {n} ELSE done
      /\ lit' = (kind \in {"on", "reset", "flip"}) /\ reset' = (reset \/ kind = "reset")
      /\ UNCHANGED <<n, kind, touched, visible, event, input, lists, shown, status>>
  BY DEF Swap, prepare, vsp
<1>2. \/ kind \in {"off", "reset"} /\ pc' = "disable"
      \/ kind \in {"on", "flip"} /\ pc' = "update"
      \/ kind = "dark" /\ pc' = "wait"
  BY Parts DEF Swap, TypeOK
<1>3. event = 0 /\ n \notin done /\ old = {} /\ touched \subseteq Holders /\ 0 \notin Planes
  BY <1>1, Parts DEF FlipInv, CommitInv, TypeOK
<1>4. Inputs' = Inputs /\ Unfinished' = Unfinished
  BY <1>1 DEF Inputs, Unfinished
<1> SUFFICES ASSUME ~reset'  PROVE  AccessInv'
  BY DEF AccessInv
<1>5. ~reset /\ kind # "reset"
  BY <1>1
<1>6. \A p \in Planes : cur'[p] = IF p \in touched THEN n ELSE cur[p]
  BY <1>1
<1>7. \A p \in touched \ {0} : p \in Planes
  BY <1>3 DEF Holders
<1>8. ASSUME NEW p \in Planes, input[p] # 0
      PROVE  /\ IF p \in touched /\ pc' \in {"disable", "update"} THEN <<p, input[p]>> \in old'
                ELSE input[p] = cur'[p]
             /\ lit' \/ pc' = "disable"
  <2>1. input[p] = cur[p] /\ lit
    BY <1>1, <1>5, <1>8 DEF AccessInv
  <2>2. kind # "dark"
    BY <1>5, <2>1 DEF AccessInv
  <2>3. p \in touched => <<p, input[p]>> \in old'
    BY <1>1, <1>3, <1>8, <2>1
  <2> QED  BY <1>1, <1>2, <1>6, <2>1, <2>2, <2>3
<1>9. shown.reads \subseteq visible \cap (old' \cup Current')
  <2> SUFFICES ASSUME NEW s \in shown.reads  PROVE  s \in visible /\ s \in old' \cup Current'
    OBVIOUS
  <2>1. s \in visible /\ s \in Current
    BY <1>3, <1>5 DEF AccessInv
  <2>2. PICK p \in Planes : s = <<p, cur[p]>>
    BY <2>1 DEF Current
  <2>3. cur[p] # 0
    BY <2>1, <2>2, Parts DEF TypeOK, Commits
  <2>4. CASE p \in touched
    BY <1>1, <1>3, <2>1, <2>2, <2>3, <2>4
  <2>5. CASE p \notin touched
    BY <1>6, <2>1, <2>2, <2>5 DEF Current
  <2> QED  BY <2>4, <2>5
<1>10. \A p \in touched \ {0} : cur'[p] = n
  BY <1>6, <1>7
<1>11. /\ lists = <<>> => shown.reads = Inputs
       /\ \A i \in DOMAIN lists : lists[i].reads = Inputs
       /\ Inputs \subseteq visible /\ Unfinished = 0
  BY <1>1, <1>3, <1>5 DEF AccessInv
<1> QED  BY <1>1, <1>2, <1>3, <1>4, <1>5, <1>8, <1>9, <1>10, <1>11 DEF AccessInv

\* A CRTC that is turned off reads nothing any more.
LEMMA DisableAccess ==
  ASSUME IInv, AccessInv, Disable
  PROVE  AccessInv'
<1>1. /\ pc = "disable" /\ pc' = IF kind = "reset" THEN "update" ELSE "wait"
      /\ event = 0 /\ status = {} /\ input' = [p \in Planes |-> 0]
      /\ lists' = <<>> /\ shown' = NoFrame
      /\ UNCHANGED <<n, kind, lit, touched, visible, cur, old, reset, event, status>>
  BY DEF Disable, Step, commit
<1>2. Inputs' = {} /\ Current' = Current /\ Unfinished' = 0
  BY <1>1 DEF Inputs, Current, Unfinished
<1>3. ~reset => kind # "reset" /\ pc' = "wait"
  BY <1>1 DEF AccessInv
<1> QED  BY <1>1, <1>2, <1>3 DEF AccessInv, NoFrame

\* What was configured is replaced by what is current; no frame is under way.
LEMMA UpdatePlanesAccess ==
  ASSUME IInv, AccessInv, UpdatePlanes
  PROVE  AccessInv'
<1>1. /\ pc = "update" /\ pc' = "arm"
      /\ input' = [p \in Planes |-> IF p \notin touched THEN input[p]
                                    ELSE IF <<p, n>> \in visible THEN n ELSE 0]
      /\ UNCHANGED <<n, kind, lit, touched, visible, cur, old, reset, event, done, lists, shown,
                     status>>
  BY DEF UpdatePlanes, Step, commit, flip
<1>2. Current' = Current /\ Unfinished' = Unfinished /\ 0 \notin Planes
  BY <1>1, Parts DEF Current, Unfinished
<1> SUFFICES ASSUME ~reset'  PROVE  AccessInv'
  BY DEF AccessInv
<1>3. Unfinished = 0 /\ lit /\ ~reset /\ \A p \in touched \ {0} : cur[p] = n
  BY <1>1 DEF AccessInv
<1>4. DOMAIN lists = {}
  BY <1>3, Parts DEF TypeOK, Unfinished
<1>5. Inputs' \subseteq visible
  BY <1>1, <1>3 DEF AccessInv, Inputs
<1>6. \A p \in Planes : input'[p] # 0 => input'[p] = cur[p]
  BY <1>1, <1>2, <1>3 DEF AccessInv
<1> QED  BY <1>1, <1>2, <1>3, <1>4, <1>5, <1>6 DEF AccessInv

\* The event that is armed is that of the commit in progress.
LEMMA ArmEventAccess ==
  ASSUME IInv, AccessInv, ArmEvent
  PROVE  AccessInv'
<1>1. /\ pc = "arm" /\ pc' = "queue" /\ event' = IF n \in done THEN event ELSE n
      /\ UNCHANGED <<n, kind, lit, touched, visible, cur, old, reset, done, input, lists, shown,
                     status>>
  BY DEF ArmEvent, Step, commit, vsp
<1>2. Inputs' = Inputs /\ Current' = Current /\ Unfinished' = Unfinished
  BY <1>1 DEF Inputs, Current, Unfinished
<1> QED  BY <1>1, <1>2 DEF AccessInv

\* The frame of the commit is then the only one under way.
LEMMA FlushAccess ==
  ASSUME IInv, AccessInv, Flush
  PROVE  AccessInv'
<1>1. /\ pc = "flush" /\ pc' \in {"start", "wait"}
      /\ lists' = Append(IF Len(lists) < 2 THEN lists ELSE Front(lists), Configured)
      /\ UNCHANGED <<n, kind, lit, touched, visible, cur, old, reset, event, done, input, shown,
                     status>>
  BY DEF Flush, Step, commit, flip
<1>2. Inputs' = Inputs /\ Current' = Current /\ Configured.reads = Inputs
  BY <1>1 DEF Inputs, Current, Configured
<1> SUFFICES ASSUME ~reset'  PROVE  AccessInv'
  BY DEF AccessInv
<1>3. Unfinished = 0 /\ ~reset /\ event = n /\ n # 0
  BY <1>1, Parts DEF AccessInv, CommitInv
<1>4. lists = <<>> /\ "complete" \notin status
  BY <1>3, Parts DEF TypeOK, Unfinished
<1>5. lists' = <<Configured>>
  BY <1>1, <1>4
<1>6. Unfinished' = 1 /\ lists' # <<>> /\ \A i \in DOMAIN lists' : lists'[i].reads = Inputs
  BY <1>1, <1>2, <1>4, <1>5 DEF Unfinished
<1> QED  BY <1>1, <1>2, <1>3, <1>6 DEF AccessInv

\* When the flip is done its frame has been taken, and nothing replaced is read.
LEMMA WaitFlipDoneAccess ==
  ASSUME IInv, AccessInv, WaitFlipDone
  PROVE  AccessInv'
<1>1. /\ pc = "wait" /\ pc' = "idle" /\ n \in done /\ old' = {} /\ touched' = {}
      /\ UNCHANGED <<n, kind, lit, visible, cur, reset, event, done, input, lists, shown, status>>
  BY DEF WaitFlipDone, Step, flip, vsp
<1>2. Inputs' = Inputs /\ Current' = Current /\ Unfinished' = Unfinished
  BY <1>1 DEF Inputs, Current, Unfinished
<1>3. event = 0
  BY <1>1, Parts DEF FlipInv
<1> SUFFICES ASSUME ~reset'  PROVE  AccessInv'
  BY DEF AccessInv
<1>4. Unfinished = 0
  BY <1>1, <1>3 DEF AccessInv
<1>5. lists = <<>>
  BY <1>4, Parts DEF TypeOK, Unfinished
<1>6. shown.reads = Inputs /\ Inputs \subseteq visible \cap Current
  BY <1>1, <1>5, InputsOwned DEF AccessInv
<1> QED  BY <1>1, <1>2, <1>3, <1>4, <1>5, <1>6 DEF AccessInv

\* The frame that is taken reads what the VSP is configured to read.
LEMMA FrameEndAccess ==
  ASSUME IInv, AccessInv, FrameEnd
  PROVE  AccessInv'
<1>1. /\ status = {}
      /\ shown' = IF lists = <<>> THEN [shown EXCEPT !.job = 0] ELSE Head(lists)
      /\ lists' = IF lists = <<>> THEN lists ELSE Tail(lists)
      /\ "complete" \in status' <=> lists # <<>>
      /\ UNCHANGED <<n, kind, lit, touched, visible, cur, old, reset, event, done, input, pc>>
  BY DEF FrameEnd, commit, flip
<1>2. Inputs' = Inputs /\ Current' = Current
  BY <1>1 DEF Inputs, Current
<1> SUFFICES ASSUME ~reset'  PROVE  AccessInv'
  BY DEF AccessInv
<1>3. CASE lists = <<>>
  <2>1. shown'.reads = shown.reads
    BY <1>1, <1>3, Parts DEF TypeOK, Frames
  <2>2. Unfinished' = Unfinished
    BY <1>1, <1>3 DEF Unfinished
  <2> QED  BY <1>1, <1>2, <1>3, <2>1, <2>2 DEF AccessInv
<1>4. CASE lists # <<>>
  <2>1. lists \in Seq(Frames) /\ Len(lists) \in Nat \ {0} /\ Head(lists) = lists[1]
    BY <1>4, Parts DEF TypeOK
  <2>2. Unfinished = 1 /\ Len(lists) = 1 /\ event # 0 /\ pc \in {"start", "wait"}
    BY <1>1, <2>1 DEF AccessInv, Unfinished
  <2>3. lists' = <<>> /\ Unfinished' = 1
    BY <1>1, <1>4, <2>1, <2>2 DEF Unfinished
  <2>4. shown'.reads = Inputs /\ Inputs \subseteq visible \cap (old \cup Current)
    BY <1>1, <1>4, <2>1, <2>2, InputsOwned DEF AccessInv
  <2> QED  BY <1>1, <1>2, <2>2, <2>3, <2>4 DEF AccessInv
<1> QED  BY <1>3, <1>4

\* The flip that is completed is that of the commit in progress.
LEMMA CompleteFlipAccess ==
  ASSUME IInv, AccessInv, CompleteFlip
  PROVE  AccessInv'
<1>1. /\ "complete" \in status /\ event' = 0 /\ "complete" \notin status'
      /\ UNCHANGED <<n, kind, lit, touched, visible, cur, old, reset, input, lists, shown, pc>>
  BY DEF CompleteFlip, commit
<1>2. Inputs' = Inputs /\ Current' = Current
  BY <1>1 DEF Inputs, Current
<1> SUFFICES ASSUME ~reset'  PROVE  AccessInv'
  BY DEF AccessInv
<1>3. Len(lists) \in Nat
  BY Parts DEF TypeOK
<1>4. Len(lists) = 0 /\ pc \in {"start", "wait"}
  BY <1>1, <1>3 DEF AccessInv, Unfinished
<1>5. Unfinished' = 0
  BY <1>1, <1>4 DEF Unfinished
<1> QED  BY <1>1, <1>2, <1>4, <1>5 DEF AccessInv

\* Nothing that is read is cleaned up.
LEMMA CleanupPlanesAccess ==
  ASSUME IInv, AccessInv, CleanupPlanes
  PROVE  AccessInv'
<1>1. /\ visible' = visible \ cleaning
      /\ UNCHANGED <<n, kind, lit, touched, cur, old, reset, event, done, input, lists, shown,
                     status, pc>>
  BY DEF CleanupPlanes, flip, vsp
<1>2. Inputs' = Inputs /\ Current' = Current /\ Unfinished' = Unfinished
  BY <1>1 DEF Inputs, Current, Unfinished
<1>3. cleaning \cap (old \cup Current) = {}
  BY Parts DEF OwnerInv
<1>4. ~reset => Inputs \subseteq visible' /\ shown.reads \subseteq visible' \cap (old \cup Current)
  BY <1>1, <1>3, InputsOwned DEF AccessInv
<1> QED  BY <1>1, <1>2, <1>4 DEF AccessInv

\* Every step preserves it, together with the inductive invariant.
LEMMA AccessPreserved ==
  ASSUME IInv, AccessInv, Next
  PROVE  AccessInv'
<1>1. CASE Prepare
  BY <1>1, AccessKept DEF Prepare, commit, flip, vsp
<1>2. CASE PrepareFailed
  BY <1>2, AccessKept DEF PrepareFailed, commit, flip, vsp
<1>3. CASE QueueJob
  BY <1>3, AccessKept DEF QueueJob, Step, commit, flip, vsp
<1>4. CASE Start
  BY <1>4, AccessKept DEF Start, Step, commit, flip
<1>5. CASE CompleteJob
  BY <1>5, AccessKept DEF CompleteJob, commit, flip
<1>6. CASE \E s \in cleaning : CleanupJob(s)
  BY <1>6, AccessKept DEF CleanupJob, commit, flip, vsp
<1> QED
  BY <1>1, <1>2, <1>3, <1>4, <1>5, <1>6, StartCommitAccess, AbortAccess, SwapAccess, DisableAccess,
     UpdatePlanesAccess, ArmEventAccess, FlushAccess, WaitFlipDoneAccess, FrameEndAccess,
     CompleteFlipAccess, CleanupPlanesAccess
  DEF Next, CommitThread, Vsp, Cleanup

\* States are mapped as the invariant says, and the VSP accesses only what the
\* driver still needs mapped.
UsesInv == MappedStates = Mapped /\ Accessed \subseteq Held

\* Both follow: what is read is displayed, hence mapped, and has an owner that is
\* not done with it.
LEMMA Uses ==
  ASSUME IInv, AccessInv
  PROVE  UsesInv
<1>1. MappedStates = Mapped
  <2>1. ASSUME NEW s \in Mapped  PROVE  s \in MappedStates
    <3>1. <<s, 1>> \in mapped
      BY Parts, TableOf DEF NumTables
    <3> QED  BY <3>1 DEF MappedStates
  <2>2. ASSUME NEW s \in MappedStates  PROVE  s \in Mapped
    BY <2>2, Parts DEF MappedStates, AllTables, TablesOf
  <2> QED  BY <2>1, <2>2
<1>2. \A s \in old \cup Current \cup Queued : s \in Owners \ LeftToCore
  <2>1. old \cup Current \cup Queued \subseteq Owners
    BY Parts DEF Settled
  <2>2. (old \cup Current \cup Queued) \cap cleaning = {}
    BY Parts DEF OwnerInv
  <2>3. pc = "abort" => \A s \in old \cup Current \cup Queued : s \notin PreparedOwners
    BY Parts DEF AgeInv, Settled, PreparedOwners
  <2> QED  BY <2>1, <2>2, <2>3 DEF LeftToCore
<1>3. \A s \in old \cup Current \cup Queued : Mapping(s) => s \in Held
  BY <1>1, <1>2 DEF Held, Mapped
<1>4. ASSUME ~reset, NEW f \in Range(lists) \cup {shown}
      PROVE  f.reads \cup ({0} \X ({f.job} \ {0})) \subseteq Held
  <2>1. f = shown \/ \E i \in DOMAIN lists : f = lists[i]
    BY <1>4 DEF Range
  <2>2. f.reads \subseteq visible \cap (old \cup Current)
    BY <1>4, <2>1, InputsOwned DEF AccessInv
  <2>3. f.job # 0 => f.job \in Range(jobs)
    BY <2>1, Parts DEF JobInv, VspJobs
  <2>4. \A s \in f.reads : s \in Held
    BY <1>3, <2>2 DEF Mapping
  <2>5. f.job # 0 => <<0, f.job>> \in Held
    BY <1>3, <2>3 DEF Mapping, Queued
  <2> QED  BY <2>4, <2>5
<1>5. Accessed \subseteq Held
  BY <1>4 DEF Accessed
<1> QED  BY <1>1, <1>5 DEF UsesInv

\* Steps that change neither mappings nor owners leave the uses alone.
LEMMA UsesKept ==
  ASSUME UNCHANGED <<mapped, leaked>>,
         Fresh' = Fresh, Owners' = Owners, LeftToCore' = LeftToCore
  PROVE  UNCHANGED <<Fresh, MappedStates, Held>>
<1>1. MappedStates' = MappedStates
  BY DEF MappedStates
<1> QED  BY <1>1 DEF Held

\* As do the steps of the tail of a commit.
LEMMA TailKeepsUses ==
  ASSUME CommitInv, n' = n,
         UNCHANGED <<kind, touched, cur, prep, old, mapped, leaked, cleaning, jobs>>,
         \/ pc' = pc
         \/ pc = "disable" /\ pc' = "update"
         \/ pc = "disable" /\ pc' = "wait" /\ kind = "off"
         \/ pc = "update" /\ pc' = "arm"
         \/ pc = "arm" /\ pc' = "queue"
         \/ pc = "flush" /\ pc' \in {"start", "wait"}
         \/ pc = "start" /\ pc' = "wait"
  PROVE  UNCHANGED <<Fresh, MappedStates, Held>>
<1>1. PreparedOwners' = PreparedOwners /\ JobOwner' = JobOwner
  BY DEF PreparedOwners, JobOwner, CommitInv
<1>2. Owners' = Owners /\ LeftToCore' = LeftToCore
  BY <1>1 DEF Owners, LeftToCore
<1>3. Fresh' = Fresh
  BY DEF Fresh
<1> QED  BY <1>2, <1>3, UsesKept

\* Frames that stay where they are keep what is accessed.
LEMMA AccessedKept ==
  ASSUME UNCHANGED <<reset, lists, shown>>
  PROVE  Accessed' = Accessed
<1> QED  BY DEF Accessed

--------------------------------------------------------------------------------
(* Each step is one of Mappings                                              *)

\* Nothing of the commit is mapped yet.
LEMMA StartCommitImplements ==
  ASSUME IInv, StartCommit
  PROVE  Life!Prepare
<1>0. PICK P \in SUBSET Planes, J \in SUBSET {0} : touched' = P \cup J /\ prep' = P \cup J
  BY DEF StartCommit
<1>1. /\ pc = "idle" /\ pc' = "prepare" /\ n' = n + 1 /\ n < MaxCommit /\ n \in Nat
      /\ prep' = touched' /\ prep' \subseteq Holders
      /\ UNCHANGED <<cur, old, reset, leaked, mapped, cleaning, lists, shown, jobs>>
  BY <1>0, Parts DEF StartCommit, flip, vsp, wb, Holders
<1>2. Fresh' \subseteq Fresh
  BY <1>1, VspBuffersAssumption DEF Fresh, Commits
<1>3. Owners' = Owners /\ LeftToCore' = LeftToCore
  BY <1>1 DEF Owners, LeftToCore, PreparedOwners, JobOwner
<1>4. MappedStates' = MappedStates /\ Held' = Held
  BY <1>1, <1>3 DEF MappedStates, Held
<1> QED  BY <1>1, <1>2, <1>4, AccessedKept DEF Life!Prepare

\* A holder is prepared: it is held, if it has memory.
LEMMA PrepareImplements ==
  ASSUME IInv, UsesInv, UsesInv', Prepare
  PROVE  Life!Prepare
<1> DEFINE s == Preparing
<1>1. /\ pc = "prepare" /\ prep # {} /\ pc' = pc /\ prep' = prep \ {Min(prep)}
      /\ UNCHANGED <<n, touched, visible, cur, old, reset, leaked, cleaning, lists, shown, jobs>>
  BY DEF Prepare, commit, vsp, wb
<1>2. /\ s = <<Min(prep), n>> /\ Min(prep) \in prep /\ Min(prep) \in touched
      /\ s \in States /\ s \notin Owners \cup leaked
  BY <1>1, PreparingIsNew
<1> HIDE DEF s
<1>3. PreparedOwners' = PreparedOwners \cup {s} /\ JobOwner' = JobOwner
  BY <1>1, <1>2 DEF PreparedOwners, JobOwner
<1>4. Owners' = Owners \cup {s} /\ LeftToCore' = cleaning /\ LeftToCore = cleaning
  BY <1>1, <1>3 DEF Owners, LeftToCore
<1>5. s \notin cleaning
  BY <1>2 DEF Owners
<1>6. Mapped' = Mapped \cup (IF Mapping(s) THEN {s} ELSE {}) /\ s \notin Mapped
  BY <1>1, <1>2, <1>4 DEF Mapped, Mapping
<1>7. Held' = Held \cup (Mapped' \ Mapped)
  BY <1>1, <1>2, <1>4, <1>5, <1>6 DEF UsesInv, Held
<1>8. Fresh' \subseteq Fresh /\ s \in Fresh \ Fresh'
  <2>1. s \in Fresh
    BY <1>1, <1>2 DEF Fresh
  <2>2. s \notin Fresh'
    BY <1>1, <1>2, Parts DEF Fresh
  <2>3. Fresh' \subseteq Fresh
    BY <1>1 DEF Fresh
  <2> QED  BY <2>1, <2>2, <2>3
<1>9. Accessed' = Accessed
  BY <1>1, AccessedKept
<1> QED  BY <1>6, <1>7, <1>8, <1>9 DEF Life!Prepare, UsesInv

\* A preparation fails: what was prepared is let go, but what the failing call left.
LEMMA PrepareFailedImplements ==
  ASSUME IInv, UsesInv, UsesInv', PrepareFailed
  PROVE  Life!Prepare
<1> DEFINE s == Preparing
<1>1. /\ pc = "prepare" /\ prep # {} /\ pc' = "abort"
      /\ leaked \subseteq leaked' /\ leaked' \subseteq leaked \cup {s}
      /\ UNCHANGED <<n, touched, visible, prep, cur, old, reset, cleaning, lists, shown, jobs>>
  BY DEF PrepareFailed, commit, vsp, wb
<1>2. /\ s = <<Min(prep), n>> /\ Min(prep) \in prep
      /\ s \in States /\ s \notin Owners \cup leaked
  BY <1>1, PreparingIsNew
<1> HIDE DEF s
<1>3. PreparedOwners' = PreparedOwners /\ JobOwner' = JobOwner
  BY <1>1 DEF PreparedOwners, JobOwner
<1>4. Owners' = Owners /\ LeftToCore \subseteq LeftToCore'
  BY <1>1, <1>3 DEF Owners, LeftToCore
<1>5. Mapped' = Mapped \cup (leaked' \ leaked) /\ s \notin Mapped
  BY <1>1, <1>2, <1>4 DEF Mapped, Mapping
<1>6. Held' \subseteq Held \cup (Mapped' \ Mapped) /\ Mapped' \ Mapped \subseteq Held'
  BY <1>1, <1>4, <1>5 DEF UsesInv, Held
<1>7. Fresh' \subseteq Fresh /\ s \in Fresh \ Fresh'
  <2>1. s \in Fresh
    BY <1>1, <1>2 DEF Fresh
  <2>2. s \notin Fresh'
    BY <1>1, <1>2, Parts DEF Fresh
  <2>3. Fresh' \subseteq Fresh
    BY <1>1 DEF Fresh
  <2> QED  BY <2>1, <2>2, <2>3
<1>8. Accessed' = Accessed
  BY <1>1, AccessedKept
<1> QED  BY <1>1, <1>5, <1>6, <1>7, <1>8 DEF Life!Prepare, UsesInv

\* A commit is given up: what it had let go is unmapped.
LEMMA AbortImplements ==
  ASSUME IInv, UsesInv, UsesInv', Abort
  PROVE  Life!Unmap
<1>1. /\ pc = "abort" /\ pc' = "idle" /\ prep' = {}
      /\ mapped' = mapped \ AllTables({s \in PreparedOwners : Mapping(s)})
      /\ UNCHANGED <<n, touched, cur, old, reset, leaked, cleaning, lists, shown, jobs>>
  BY DEF Abort, Step, Unmapped, PreparedOwners, vsp, wb
<1>2. PreparedOwners = (touched \ prep) \X {n} /\ PreparedOwners' = {}
  BY <1>1 DEF PreparedOwners
<1>3. Owners = Settled \cup PreparedOwners /\ Owners' = Settled
  BY <1>1, <1>2, Parts DEF Owners, JobOwner, Settled, Current, Queued
<1>4. LeftToCore = cleaning \cup PreparedOwners /\ LeftToCore' = cleaning
  BY <1>1 DEF LeftToCore
<1>5. Settled \cap PreparedOwners = {} /\ leaked \cap PreparedOwners = {}
  BY <1>1, <1>2, Parts DEF AgeInv
<1>6. Fresh' = Fresh
  BY <1>1 DEF Fresh
<1>7. /\ MappedStates' \subseteq MappedStates
      /\ MappedStates \ MappedStates' \subseteq PreparedOwners
  BY <1>1, TableOf DEF MappedStates, AllTables, TablesOf
<1>8. Held' = Held /\ Held \cap PreparedOwners = {}
  BY <1>1, <1>3, <1>4, <1>5, <1>7 DEF Held
<1>9. Accessed' = Accessed
  BY <1>1, AccessedKept
<1> QED  BY <1>6, <1>7, <1>8, <1>9 DEF Life!Unmap, UsesInv

\* The new states are held in place of those they replace, which still are held.
LEMMA SwapImplements ==
  ASSUME IInv, UsesInv, UsesInv', Swap
  PROVE  Life!Access
<1>1. /\ pc = "prepare" /\ prep = {} /\ prep' = {}
      /\ old' = {<<p, cur[p]>> : p \in {q \in touched \ {0} : cur[q] # 0}}
      /\ cur' = [p \in Planes |-> IF p \in touched THEN n ELSE cur[p]]
      /\ UNCHANGED <<n, kind, touched, visible, leaked, mapped, cleaning, jobs>>
  BY DEF Swap, prepare, vsp, wb
<1>2. \/ kind \in {"off", "reset"} /\ pc' = "disable"
      \/ kind \in {"on", "flip"} /\ pc' = "update"
      \/ kind = "dark" /\ pc' = "wait"
  BY Parts DEF Swap, TypeOK
<1>3. /\ touched \subseteq Holders /\ 0 \notin Planes /\ old = {}
      /\ mapped \subseteq AllTables(States)
      /\ kind \in {"off", "dark"} => 0 \notin touched
  BY <1>1, Parts DEF TypeOK, CommitInv
<1>4. MappedStates' = MappedStates /\ MappedStates \subseteq States
  <2>1. ASSUME NEW t \in mapped  PROVE  t[1] \in States
    <3>1. PICK s \in States : t \in TablesOf(s)
      BY <1>3 DEF AllTables
    <3>2. t[1] = s
      BY <3>1 DEF TablesOf
    <3> QED  BY <3>2
  <2> QED  BY <1>1, <2>1 DEF MappedStates
<1>5. Fresh' = Fresh
  BY <1>1, <1>2 DEF Fresh
<1>6. LeftToCore = cleaning /\ LeftToCore' = cleaning
  BY <1>1, <1>2 DEF LeftToCore
<1>7. ASSUME NEW s \in States  PROVE  s \in Owners <=> s \in Owners'
  <2>1. s = <<s[1], s[2]>> /\ s[1] \in Holders /\ s[2] \in Commits /\ s[2] # 0
    BY <1>7 DEF States, Commits
  <2>2. CASE s[1] = 0
    <3>1. s \notin old /\ s \notin old' /\ s \notin Current /\ s \notin Current'
      BY <1>1, <1>3, <2>1, <2>2 DEF Current
    <3>2. s \in PreparedOwners <=> s \in JobOwner'
      <4>1. s \in PreparedOwners <=> 0 \in touched /\ s[2] = n
        BY <1>1, <2>1, <2>2 DEF PreparedOwners
      <4>2. s \in JobOwner' <=> 0 \in touched /\ s[2] = n /\ pc' # "wait"
        BY <1>1, <1>2, <2>1, <2>2 DEF JobOwner
      <4>3. 0 \in touched => pc' # "wait"
        BY <1>2, <1>3
      <4> QED  BY <4>1, <4>2, <4>3
    <3>3. s \notin JobOwner /\ s \notin PreparedOwners'
      BY <1>1, <1>2 DEF PreparedOwners, JobOwner
    <3>4. Queued' = Queued /\ cleaning' = cleaning
      BY <1>1 DEF Queued
    <3> QED  BY <3>1, <3>2, <3>3, <3>4 DEF Owners, Current, Queued
  <2>3. CASE s[1] \in Planes
    <3> DEFINE p == s[1]
    <3>1. s \in Current <=> s[2] = cur[p]
      BY <2>1, <2>3 DEF Current
    <3>2. s \in Current' <=> s[2] = IF p \in touched THEN n ELSE cur[p]
      BY <1>1, <2>1, <2>3 DEF Current
    <3>3. s \in old' <=> p \in touched /\ s[2] = cur[p]
      BY <1>1, <1>3, <2>1, <2>3
    <3>4. s \in PreparedOwners <=> p \in touched /\ s[2] = n
      BY <1>1, <2>1 DEF PreparedOwners
    <3>5. s \notin JobOwner /\ s \notin JobOwner' /\ s \notin PreparedOwners' /\ s \notin Queued
      BY <1>1, <1>2, <1>3, <2>1, <2>3 DEF PreparedOwners, JobOwner, Queued
    <3>6. Queued' = Queued /\ cleaning' = cleaning /\ s \notin old
      BY <1>1, <1>3 DEF Queued
    <3> QED  BY <3>1, <3>2, <3>3, <3>4, <3>5, <3>6 DEF Owners, Current, Queued
  <2> QED  BY <2>1, <2>2, <2>3 DEF Holders
<1>8. Held' = Held
  BY <1>1, <1>4, <1>6, <1>7 DEF Held
<1> QED  BY <1>4, <1>5, <1>8 DEF Life!Access, UsesInv, Held

\* A finished commit lets go of what it replaced.
LEMMA WaitFlipDoneImplements ==
  ASSUME IInv, WaitFlipDone
  PROVE  Life!LetGo
<1>1. /\ pc = "wait" /\ pc' = "idle" /\ cleaning' = cleaning \cup old /\ old' = {}
      /\ UNCHANGED <<n, cur, prep, reset, leaked, mapped, lists, shown, jobs>>
  BY DEF WaitFlipDone, Step, prepare, vsp, wb
<1>2. Owners' = Owners /\ LeftToCore \subseteq LeftToCore'
  BY <1>1 DEF Owners, PreparedOwners, JobOwner, LeftToCore
<1>3. Fresh' = Fresh /\ MappedStates' = MappedStates /\ Held' \subseteq Held
  BY <1>1, <1>2 DEF Fresh, MappedStates, Held
<1> QED  BY <1>1, <1>3, AccessedKept DEF Life!LetGo

\* So does the connector, of the job that is signalled.
LEMMA CompleteJobImplements ==
  ASSUME IInv, CompleteJob
  PROVE  Life!LetGo
<1>1. /\ jobs # <<>> /\ jobs \in Seq(Commits)
      /\ cleaning' = cleaning \cup {<<0, Head(jobs)>>} /\ jobs' = Tail(jobs)
      /\ UNCHANGED <<n, touched, cur, old, prep, pc, reset, leaked, mapped, lists, shown>>
  BY Parts DEF CompleteJob, commit, prepare, JobInv, TypeOK
<1>2. Range(jobs) = {Head(jobs)} \cup Range(jobs')
  BY <1>1, TailOne
<1>3. PreparedOwners' = PreparedOwners /\ JobOwner' = JobOwner
  BY <1>1 DEF PreparedOwners, JobOwner
<1>4. Owners' = Owners
  BY <1>1, <1>2, <1>3 DEF Owners
<1>5. LeftToCore \subseteq LeftToCore'
  BY <1>1, <1>3 DEF LeftToCore
<1>6. Fresh' = Fresh /\ MappedStates' = MappedStates /\ Held' \subseteq Held
  BY <1>1, <1>4, <1>5 DEF Fresh, MappedStates, Held
<1> QED  BY <1>1, <1>6, AccessedKept DEF Life!LetGo

\* A queued job has the connector for its owner.
LEMMA QueueJobImplements ==
  ASSUME IInv, QueueJob
  PROVE  UNCHANGED Life!vars
<1>1. /\ pc = "queue" /\ pc' = "flush"
      /\ jobs' = IF 0 \in touched THEN Append(jobs, n) ELSE jobs
      /\ UNCHANGED <<n, touched, cur, old, prep, reset, leaked, mapped, cleaning, lists, shown>>
  BY DEF QueueJob, Step, commit, prepare, vsp
<1>2. Range(jobs') = Range(jobs) \cup (IF 0 \in touched THEN {n} ELSE {})
  BY <1>1, Parts, AppendOne DEF TypeOK
<1>3. Owners' = Owners /\ LeftToCore' = LeftToCore
  BY <1>1, <1>2 DEF Owners, LeftToCore, PreparedOwners, JobOwner
<1>4. Fresh' = Fresh
  BY <1>1 DEF Fresh
<1> QED  BY <1>1, <1>3, <1>4, UsesKept, AccessedKept DEF Life!vars

\* The core unmaps what nobody else has: a state or job cleaned up has no other owner.
LEMMA CleanupImplements ==
  ASSUME IInv, NEW C \in SUBSET cleaning,
         mapped' = mapped \ Unmapped(C), cleaning' = cleaning \ C,
         UNCHANGED <<n, touched, cur, old, prep, pc, reset, leaked, lists, shown, jobs>>,
         Accessed \subseteq Held
  PROVE  Life!Unmap
<1>1. PreparedOwners' = PreparedOwners /\ JobOwner' = JobOwner
  BY DEF PreparedOwners, JobOwner
<1>2. /\ MappedStates' \subseteq MappedStates
      /\ MappedStates \ MappedStates' \subseteq C
  BY TableOf DEF MappedStates, Unmapped, AllTables, TablesOf
<1>3. leaked \cap C = {}
  BY Parts DEF OwnerInv, Settled
<1>4. Owners \ LeftToCore = Owners' \ LeftToCore'
  <2>1. Owners = Settled \cup PreparedOwners \cup JobOwner
    BY Parts
  <2>2. C \cap (old \cup Current \cup Queued \cup JobOwner) = {}
    <3>1. C \cap (old \cup Current \cup Queued) = {}
      BY Parts DEF OwnerInv
    <3>2. C \cap JobOwner = {}
      BY Parts DEF AgeInv, JobOwner
    <3> QED  BY <3>1, <3>2
  <2>3. C \cap PreparedOwners = {}
    BY Parts DEF AgeInv, PreparedOwners, Settled
  <2>4. Current' = Current /\ Queued' = Queued
    BY DEF Current, Queued
  <2>5. Owners = old \cup cleaning \cup Current \cup Queued \cup PreparedOwners \cup JobOwner
    BY <2>1 DEF Settled
  <2>6. Owners' = old \cup (cleaning \ C) \cup Current \cup Queued \cup PreparedOwners \cup JobOwner
    BY <1>1, <2>4 DEF Owners, Current, Queued
  <2>7. LeftToCore' = LeftToCore \ C
    BY <1>1, <2>3 DEF LeftToCore
  <2>8. Owners' = Owners \ C
    BY <2>2, <2>3, <2>5, <2>6
  <2>9. C \subseteq LeftToCore
    BY DEF LeftToCore
  <2> QED  BY <2>7, <2>8, <2>9
<1>5. (Owners \ LeftToCore) \cap C = {}
  BY DEF LeftToCore
<1>6. Held' = Held /\ Held \cap C = {}
  BY <1>2, <1>3, <1>4, <1>5 DEF Held
<1>7. Fresh' = Fresh /\ Accessed' = Accessed
  BY AccessedKept DEF Fresh
<1> QED  BY <1>2, <1>6, <1>7 DEF Life!Unmap

\* The other steps of the tail and of the VSP change what is accessed, or nothing.
LEMMA StepImplements ==
  ASSUME IInv, UsesInv, UsesInv', [Next]_vars
  PROVE  [Life!Next]_(Life!vars)
<1> USE DEF Life!Next
<1>1. CASE UNCHANGED vars
  <2>1. UNCHANGED <<n, kind, touched, cur, prep, old, mapped, leaked, cleaning, jobs, pc, reset,
                    lists, shown>>
    BY <1>1 DEF vars, commit, prepare, flip, vsp, wb
  <2> QED  BY <2>1, Parts, TailKeepsUses, AccessedKept DEF Life!vars
<1>2. CASE UpdatePlanes \/ ArmEvent \/ Start
  <2>1. UNCHANGED <<n, kind, touched, cur, prep, old, mapped, leaked, cleaning, jobs, reset,
                    lists, shown>>
    BY <1>2 DEF UpdatePlanes, ArmEvent, Start, commit, prepare, vsp, wb
  <2>2. \/ pc = "update" /\ pc' = "arm"
        \/ pc = "arm" /\ pc' = "queue"
        \/ pc = "start" /\ pc' = "wait"
    BY <1>2 DEF UpdatePlanes, ArmEvent, Start, Step
  <2> QED  BY <2>1, <2>2, Parts, TailKeepsUses, AccessedKept DEF Life!vars
<1>3. CASE CompleteFlip
  <2>1. UNCHANGED <<n, kind, touched, cur, prep, old, mapped, leaked, cleaning, jobs, pc, reset,
                    lists, shown>>
    BY <1>3 DEF CompleteFlip, commit, prepare, wb
  <2> QED  BY <2>1, Parts, TailKeepsUses, AccessedKept DEF Life!vars
<1>4. CASE Disable \/ Flush \/ FrameEnd
  <2>1. UNCHANGED <<n, kind, touched, cur, prep, old, mapped, leaked, cleaning, jobs>>
    BY <1>4 DEF Disable, Flush, FrameEnd, commit, prepare, wb
  <2>2. \/ pc' = pc
        \/ pc = "disable" /\ pc' = "update"
        \/ pc = "disable" /\ pc' = "wait" /\ kind = "off"
        \/ pc = "flush" /\ pc' \in {"start", "wait"}
    BY <1>4, Parts DEF Disable, Flush, FrameEnd, Step, CommitInv
  <2>3. UNCHANGED <<Fresh, MappedStates, Held>>
    BY <2>1, <2>2, Parts, TailKeepsUses
  <2> QED  BY <2>3 DEF UsesInv, Held, Life!Access
<1>5. CASE CleanupPlanes
  <2>1. /\ mapped' = mapped \ Unmapped(cleaning \cap (Planes \X Commits))
        /\ cleaning' = cleaning \ (cleaning \cap (Planes \X Commits))
        /\ UNCHANGED <<n, touched, cur, old, prep, pc, reset, leaked, lists, shown, jobs>>
    BY <1>5 DEF CleanupPlanes, prepare, vsp, wb
  <2>2. cleaning \cap (Planes \X Commits) \in SUBSET cleaning
    OBVIOUS
  <2> QED  BY <2>1, <2>2, CleanupImplements DEF UsesInv
<1>6. CASE \E s \in cleaning : CleanupJob(s)
  <2>1. PICK s \in cleaning : CleanupJob(s)
    BY <1>6
  <2>2. /\ mapped' = mapped \ Unmapped({s}) /\ cleaning' = cleaning \ {s}
        /\ UNCHANGED <<n, touched, cur, old, prep, pc, reset, leaked, lists, shown, jobs>>
    BY <2>1 DEF CleanupJob, commit, prepare, vsp, wb
  <2>3. {s} \in SUBSET cleaning
    OBVIOUS
  <2> QED  BY <2>2, <2>3, CleanupImplements DEF UsesInv
<1> QED
  BY <1>1, <1>2, <1>3, <1>4, <1>5, <1>6, StartCommitImplements, PrepareImplements,
     PrepareFailedImplements, AbortImplements, SwapImplements, QueueJobImplements,
     WaitFlipDoneImplements, CompleteJobImplements
  DEF Next, CommitThread, Vsp, Cleanup

\* Safety of the refinement: the driver's mappings start as Mappings says, and each
\* step of any commit, clean-up or frame end prepares, lets go, unmaps or accesses as
\* Mappings allows, or leaves what it speaks of alone.
THEOREM ImplementsMappings == Spec => Life!Init /\ [][Life!Next]_(Life!vars)
<1>1. Init => AccessInv
  BY DEF Init, AccessInv, Inputs, Unfinished, NoFrame
<1>2. Spec => []AccessInv
  <2>1. IInv /\ AccessInv /\ [Next]_vars => AccessInv'
    <3>1. ASSUME IInv, AccessInv, UNCHANGED vars  PROVE  AccessInv'
      BY <3>1, AccessKept DEF vars, commit, flip, vsp
    <3> QED  BY <3>1, AccessPreserved
  <2> QED  BY <1>1, <2>1, Invariant, PTL DEF Spec
<1>3. IInv /\ AccessInv => UsesInv
  BY Uses
<1>4. Init => Life!Init
  <2> SUFFICES ASSUME Init  PROVE  Life!Init
    OBVIOUS
  <2>1. Fresh = States
    BY VspBuffersAssumption DEF Init, Fresh, States, Commits
  <2>2. MappedStates = {} /\ Held = {} /\ Accessed = {}
    <3>1. Range(lists) = {}
      BY DEF Init, Range
    <3> QED  BY <3>1 DEF Init, MappedStates, Held, Accessed, NoFrame
  <2> QED  BY <2>1, <2>2 DEF Life!Init
<1>5. IInv /\ UsesInv /\ UsesInv' /\ [Next]_vars => [Life!Next]_(Life!vars)
  BY StepImplements
<1> QED  BY <1>2, <1>3, <1>4, <1>5, Invariant, PTL DEF Spec

--------------------------------------------------------------------------------
(* FrameBuffers: the pitch of a framebuffer                                  *)

\* What the proofs need of a format: how many memory planes it has, and which
\* formats have several.
FormatOK(f) ==
  /\ f.bpp \in {8, 12, 16, 24, 32} /\ f.planes \in {1, 2, 3} /\ f.hsub \in {0, 1, 2}
  /\ f.planes = 1 => f.bpp # 12
  /\ f.planes = 2 => f.hsub = 2 /\ f.bpp # 32
  /\ f.planes = 3 => f.hsub # 0

\* The formats of the Display Unit and those of the VSP are like that.
LEMMA FormatsKnown ==
  /\ \A f \in VspFormats : FormatOK(f)
  /\ \A f \in DuFormats : FormatOK(f) /\ f.planes # 3 /\ (f.planes = 1 => f.bpp \in {16, 32})
BY DEF VspFormats, DuFormats, Format, FormatOK

\* The widths of dumb buffers.
DumbWidth(w) == w \in 1..8190

\* What pitches and bits are rounded up to.
Steps == {8, 16, 32, 48, 64, 128}

\* A pitch rounded up is a multiple, less than one step above.
LEMMA RoundUpKnown ==
  ASSUME NEW a \in Nat, NEW b \in Steps
  PROVE  /\ RoundUp(a, b) \in Nat /\ RoundUp(a, b) % b = 0
         /\ a <= RoundUp(a, b) /\ RoundUp(a, b) < a + b
BY DEF RoundUp, Steps

\* The pitch of a dumb buffer is aligned as rcar_du_fb_create() asks, and within
\* its limit on Gen3.
LEMMA DumbPitchAligned ==
  ASSUME NEW d \in {"gen2", "r8a7790", "gen3"}, NEW w, DumbWidth(w), NEW f \in FormatsOf(d)
  PROVE  /\ DumbPitch(d, w, FirstBpp(f)) \in Nat
         /\ Aligned(d, f, DumbPitch(d, w, FirstBpp(f)))
         /\ d = "gen3" => DumbPitch(d, w, FirstBpp(f)) <= MaxPitch(d, f)
<1> DEFINE bpp == FirstBpp(f)
           align == IF d = "r8a7790" THEN 128 ELSE (16 * bpp) \div 8
           bytes == RoundUp(w * bpp, 8) \div 8
           pitch == DumbPitch(d, w, bpp)
<1>1. FormatOK(f)
  BY FormatsKnown DEF FormatsOf, VspFormats
<1>2. bpp \in {8, 16, 24, 32}
  BY <1>1 DEF FormatOK, FirstBpp
<1>3. align \in {16, 32, 48, 64, 128} /\ (d # "r8a7790" => align = 2 * bpp)
  BY <1>2
<1>4. pitch = RoundUp(bytes, align)
  BY DEF DumbPitch
<1> HIDE DEF pitch, bytes
<1>5. bytes \in Nat /\ bytes <= 32760
  <2> DEFINE bits == w * bpp
             up == RoundUp(bits, 8)
  <2>1. bits \in Nat /\ bits <= 262080
    <3>1. w \in Nat /\ w <= 8190
      BY SMT DEF DumbWidth
    <3> HIDE DEF bpp
    <3> QED  BY <1>2, <3>1, SMT
  <2> HIDE DEF bits
  <2>2. up \in Nat /\ up < bits + 8 /\ up % 8 = 0
    <3>1. 8 \in Steps
      BY DEF Steps
    <3>2. bits \in Nat
      BY <2>1
    <3> QED  BY <3>1, <3>2, RoundUpKnown
  <2> HIDE DEF up
  <2>3. up \div 8 \in Nat /\ up \div 8 <= 32760
    BY <2>1, <2>2, SMT
  <2> QED  BY <2>3, SMT DEF up, bits, bytes
<1>6. pitch \in Nat /\ pitch % align = 0 /\ pitch < bytes + align
  <2>1. align \in Steps
    BY <1>3 DEF Steps
  <2> HIDE DEF align
  <2>2. /\ RoundUp(bytes, align) \in Nat /\ RoundUp(bytes, align) % align = 0
        /\ RoundUp(bytes, align) < bytes + align
    <3>1. bytes \in Nat
      BY <1>5
    <3> QED  BY <2>1, <3>1, RoundUpKnown
  <2> QED  BY <1>4, <2>2, Zenon
<1>7. d = "gen2" => pitch % (IF f.planes = 1 THEN 2 * f.bpp ELSE 16) = 0
  <2>1. ASSUME d = "gen2" PROVE align = IF f.planes = 1 THEN 2 * f.bpp ELSE 16
    <3>1. align = 2 * bpp
      BY <1>3, <2>1
    <3> QED  BY <3>1 DEF FirstBpp
  <2> HIDE DEF align
  <2> QED  BY <1>6, <2>1
<1>8. d = "r8a7790" => pitch % 128 = 0
  <2>1. d = "r8a7790" => align = 128
    OBVIOUS
  <2> HIDE DEF align
  <2> QED  BY <1>6, <2>1
<1>9. Aligned(d, f, pitch)
  <2>1. CASE d = "gen2"
    <3>1. Aligned(d, f, pitch) = (pitch % (IF f.planes = 1 THEN 2 * f.bpp ELSE 16) = 0)
      BY <2>1, SMT DEF Aligned
    <3> QED  BY <1>7, <2>1, <3>1, Zenon
  <2>2. CASE d = "r8a7790"
    <3>1. Aligned(d, f, pitch) = (pitch % 128 = 0)
      BY <2>2, SMT DEF Aligned
    <3> QED  BY <1>8, <2>2, <3>1, Zenon
  <2>3. CASE d = "gen3"
    BY <2>3, SMT DEF Aligned
  <2> QED  BY <2>1, <2>2, <2>3
<1>10. d = "gen3" => pitch <= MaxPitch(d, f)
  BY <1>3, <1>5, <1>6, SMT DEF MaxPitch
<1> QED  BY <1>6, <1>9, <1>10 DEF pitch, bpp

\* The inductive invariant: where the pitches come from, what the checks of
\* rcar_du_fb_create() leave, and what is written from them.
FbInv ==
  /\ device \in {"gen2", "r8a7790", "gen3"} /\ format \in FormatsOf(device)
  /\ stage # "none" =>
       /\ pitches[1] \in Nat /\ \A i \in 2..format.planes : pitches[i] = ChromaPitch(format, pitches[1])
       /\ width > 0 => /\ DumbWidth(width)
                       /\ pitches[1] = DumbPitch(device, width, FirstBpp(format))
  /\ stage = "rejected" =>
       ~(Aligned(device, format, pitches[1]) /\ pitches[1] <= MaxPitch(device, format))
  /\ stage \in {"created", "shown"} =>
       Aligned(device, format, pitches[1]) /\ pitches[1] <= MaxPitch(device, format)
  /\ stage = "shown" =>
       mwr = IF device = "gen3" \/ format.planes = 2 THEN pitches[1]
             ELSE ((pitches[1] * 8) \div format.bpp) * (IF Doubled(interlaced) THEN 2 ELSE 1)

\* The checks leave a pitch that the registers describe: a Display Unit reads one
\* plane of it, in pixels, or two, in bytes.
LEMMA DuPitchExact ==
  ASSUME FbInv, stage = "shown", device # "gen3"
  PROVE  /\ \A i \in 1..format.planes : HardwarePitch(i) = pitches[i]
         /\ mwr <= 4095 \/ Doubled(interlaced)
         /\ mwr % 16 = 0
         /\ device = "r8a7790" => pitches[1] % 128 = 0
<1> DEFINE p == pitches[1]
           q == (p * 8) \div format.bpp
<1>1. /\ FormatOK(format) /\ format.planes # 3
      /\ format.planes = 1 => format.bpp \in {16, 32}
  BY FormatsKnown DEF FbInv, FormatsOf
<1>2. /\ p \in Nat
      /\ \A i \in 2..format.planes : pitches[i] = ChromaPitch(format, p)
      /\ Aligned(device, format, p) /\ p <= MaxPitch(device, format)
      /\ mwr = IF format.planes = 2 THEN p ELSE q * (IF Doubled(interlaced) THEN 2 ELSE 1)
  BY DEF FbInv
<1>3. device = "r8a7790" => p % 128 = 0
  BY <1>2 DEF Aligned
<1>4. device = "gen2" => p % (IF format.planes = 1 THEN 2 * format.bpp ELSE 16) = 0
  BY <1>2 DEF Aligned
<1>5. device = "gen2" \/ device = "r8a7790"
  BY DEF FbInv
<1>6. p <= 4095 * (IF format.planes = 1 THEN format.bpp \div 8 ELSE 1)
  BY <1>2 DEF MaxPitch
<1>7. \A i : HardwarePitch(i)
               = ((mwr \div (IF Doubled(interlaced) THEN 2 ELSE 1)) * FirstBpp(format)) \div 8
  BY DEF HardwarePitch
<1>8. pitches[1] = p
  OBVIOUS
<1> HIDE DEF p
<1>9. CASE format.planes = 1
  <2>1. q \in Nat /\ q <= 4095 /\ q % 16 = 0 /\ (q * format.bpp) \div 8 = p
    <3>1. CASE format.bpp = 16
      <4>1. p % 32 = 0 /\ p <= 4095 * 2
        BY <1>2, <1>3, <1>4, <1>5, <1>6, <1>9, <3>1
      <4> QED  BY <1>2, <3>1, <4>1
    <3>2. CASE format.bpp = 32
      <4>1. p % 64 = 0 /\ p <= 4095 * 4
        BY <1>2, <1>3, <1>4, <1>5, <1>6, <1>9, <3>2
      <4> QED  BY <1>2, <3>2, <4>1
    <3> QED  BY <1>1, <1>9, <3>1, <3>2
  <2>2. FirstBpp(format) = format.bpp
    BY <1>9 DEF FirstBpp
  <2> HIDE DEF q
  <2>3. CASE Doubled(interlaced)
    <3>1. mwr = q * 2
      BY <1>2, <1>9, <2>3
    <3>2. mwr \div 2 = q /\ mwr % 16 = 0
      BY <2>1, <3>1
    <3>3. HardwarePitch(1) = p
      BY <1>7, <2>1, <2>2, <2>3, <3>2
    <3> QED  BY <1>3, <1>8, <1>9, <2>3, <3>2, <3>3
  <2>4. CASE ~Doubled(interlaced)
    <3>1. mwr = q
      BY <1>2, <1>9, <2>1, <2>4
    <3>2. mwr \div 1 = q
      BY <2>1, <3>1
    <3>3. HardwarePitch(1) = p
      BY <1>7, <2>1, <2>2, <2>4, <3>2
    <3> QED  BY <1>3, <1>8, <1>9, <2>1, <3>1, <3>3
  <2> QED  BY <2>3, <2>4
<1>10. CASE format.planes = 2
  <2>1. mwr = p /\ ~Doubled(interlaced) /\ FirstBpp(format) = 8 /\ format.hsub = 2
    BY <1>1, <1>2, <1>10 DEF Doubled, FormatOK, FirstBpp
  <2>2. p % 16 = 0 /\ p <= 4095
    BY <1>2, <1>3, <1>4, <1>5, <1>6, <1>10
  <2>3. \A i : HardwarePitch(i) = p
    <3>1. \A i : HardwarePitch(i) = ((p \div 1) * 8) \div 8
      BY <1>7, <2>1
    <3>2. ((p \div 1) * 8) \div 8 = p
      BY <1>2
    <3> QED  BY <3>1, <3>2
  <2>4. pitches[2] = p
    <3>1. pitches[2] = (p \div 2) * 2
      BY <1>2, <1>10, <2>1 DEF ChromaPitch
    <3> QED  BY <1>2, <2>2, <3>1
  <2> QED  BY <1>3, <1>8, <1>10, <2>1, <2>2, <2>3, <2>4
<1> QED  BY <1>1, <1>9, <1>10 DEF FormatOK

\* The VSP is given the pitch of the first plane, and divides it for three.
LEMMA VspPitchExact ==
  ASSUME FbInv, stage = "shown", device = "gen3",
         ~(format.planes = 2 /\ pitches[1] % 2 = 1)
  PROVE  \A i \in 1..format.planes : HardwarePitch(i) = pitches[i]
<1> DEFINE p == pitches[1]
<1>1. FormatOK(format)
  BY FormatsKnown DEF FbInv, FormatsOf
<1>2. /\ p \in Nat /\ mwr = p
      /\ \A i \in 2..format.planes : pitches[i] = ChromaPitch(format, p)
  BY DEF FbInv
<1>3. \A i : HardwarePitch(i) = IF i > 1 /\ format.planes = 3 THEN p \div format.hsub ELSE p
  BY <1>2 DEF HardwarePitch
<1>4. format.planes = 2 => p % 2 = 0
  <2>1. p % 2 \in 0..1
    BY <1>2
  <2> QED  BY <2>1
<1>5. pitches[1] = p
  OBVIOUS
<1> HIDE DEF p
<1> SUFFICES ASSUME NEW i \in 1..format.planes PROVE HardwarePitch(i) = pitches[i]
  OBVIOUS
<1>6. CASE i = 1
  BY <1>3, <1>5, <1>6
<1>7. CASE i > 1 /\ format.planes = 2
  <2>1. pitches[i] = (p \div 2) * 2
    BY <1>1, <1>2, <1>7 DEF ChromaPitch, FormatOK
  <2> QED  BY <1>2, <1>3, <1>4, <1>7, <2>1
<1>8. CASE i > 1 /\ format.planes = 3
  <2>1. pitches[i] = (p \div format.hsub) * 1 /\ format.hsub \in {1, 2}
    BY <1>1, <1>2, <1>8 DEF ChromaPitch, FormatOK
  <2>2. (p \div format.hsub) * 1 = p \div format.hsub
    BY <1>2, <2>1
  <2> QED  BY <1>3, <1>8, <2>1, <2>2
<1> QED  BY <1>1, <1>6, <1>7, <1>8 DEF FormatOK

\* The invariant holds of every framebuffer.
LEMMA FbInvariant == FbSpec => []FbInv
<1>1. FbInit => FbInv
  <2> SUFFICES ASSUME FbInit PROVE FbInv
    OBVIOUS
  <2>1. device \in {"gen2", "r8a7790", "gen3"}
    <3>1. PICK d : d \in Devices
      BY FrameBuffersAssumption
    <3>2. device \in Devices
      BY <3>1 DEF FbInit
    <3> QED  BY <3>2, FrameBuffersAssumption, SMT
  <2>2. format \in FormatsOf(device)
    BY DEF FbInit, FormatsOf, VspFormats, DuFormats
  <2> QED  BY <2>1, <2>2 DEF FbInit, FbInv
<1>2. FbInv /\ [FbNext]_fbVars => FbInv'
  <2> SUFFICES ASSUME FbInv, [FbNext]_fbVars PROVE FbInv'
    OBVIOUS
  <2>1. CASE Allocate
    <3>1. PICK d \in Devices, w \in Widths \cup {0} : \E f \in FormatsOf(d) :
            \E pitch \in (IF w > 0 THEN {DumbPitch(d, w, FirstBpp(f))} ELSE Pitches) :
              /\ stage' = "allocated" /\ device' = d /\ format' = f /\ width' = w
              /\ pitches' = [i \in 1..f.planes |-> IF i = 1 THEN pitch ELSE ChromaPitch(f, pitch)]
      BY <2>1 DEF Allocate
    <3>2. PICK f \in FormatsOf(d) :
            \E pitch \in (IF w > 0 THEN {DumbPitch(d, w, FirstBpp(f))} ELSE Pitches) :
              /\ stage' = "allocated" /\ device' = d /\ format' = f /\ width' = w
              /\ pitches' = [i \in 1..f.planes |-> IF i = 1 THEN pitch ELSE ChromaPitch(f, pitch)]
      BY <3>1
    <3>3. PICK pitch \in (IF w > 0 THEN {DumbPitch(d, w, FirstBpp(f))} ELSE Pitches) :
              /\ stage' = "allocated" /\ device' = d /\ format' = f /\ width' = w
              /\ pitches' = [i \in 1..f.planes |-> IF i = 1 THEN pitch ELSE ChromaPitch(f, pitch)]
      BY <3>2
    <3>4. d \in {"gen2", "r8a7790", "gen3"} /\ (w > 0 => DumbWidth(w))
      BY FrameBuffersAssumption, SMT DEF DumbWidth
    <3>5. pitch \in Nat /\ (w > 0 => pitch = DumbPitch(d, w, FirstBpp(f)))
      <4>1. CASE w > 0
        <5>1. pitch = DumbPitch(d, w, FirstBpp(f))
          BY <4>1
        <5> QED  BY <3>4, <4>1, <5>1, DumbPitchAligned, Zenon
      <4>2. CASE ~(w > 0)
        <5>1. pitch \in Pitches
          BY <4>2
        <5> QED  BY <4>2, <5>1, FrameBuffersAssumption, SMT
      <4> QED  BY <4>1, <4>2
    <3>6. f.planes \in {1, 2, 3}
      BY <3>4, FormatsKnown DEF FormatsOf, FormatOK
    <3>7. pitches'[1] = pitch /\ \A i \in 2..f.planes : pitches'[i] = ChromaPitch(f, pitch)
      BY <3>3, <3>6
    <3>8. /\ stage' = "allocated" /\ device' = d /\ format' = f /\ width' = w
          /\ pitches'[1] = pitch /\ \A i \in 2..f.planes : pitches'[i] = ChromaPitch(f, pitches'[1])
      BY <3>3, <3>7
    <3>9. f \in FormatsOf(d)
      OBVIOUS
    <3> QED  BY <3>4, <3>5, <3>8, <3>9, Zenon DEF FbInv
  <2>2. CASE FbCreate
    BY <2>2 DEF FbInv, FbCreate
  <2>3. CASE Scanout
    <3>1. /\ stage = "created" /\ stage' = "shown"
          /\ device' = device /\ format' = format /\ width' = width /\ pitches' = pitches
          /\ mwr' = IF device = "gen3" \/ format.planes = 2 THEN pitches[1]
                    ELSE ((pitches[1] * 8) \div format.bpp) * (IF Doubled(interlaced') THEN 2 ELSE 1)
      BY <2>3 DEF Scanout
    <3>2. Doubled(interlaced)' = Doubled(interlaced')
      BY <3>1 DEF Doubled
    <3>3. stage' # "rejected" /\ stage # "none" /\ stage \in {"created", "shown"}
      BY <3>1
    <3> QED  BY <3>1, <3>2, <3>3, Zenon DEF FbInv
  <2>4. CASE UNCHANGED fbVars
    BY <2>4 DEF FbInv, fbVars, scan, Doubled
  <2> QED  BY <2>1, <2>2, <2>3, <2>4 DEF FbNext
<1> QED  BY <1>1, <1>2, PTL DEF FbSpec

\* Every framebuffer rcar_du_fb_create() accepts is read at the pitch it has, in every
\* memory plane and within the limits of the Display Unit, and it accepts what
\* rcar_du_dumb_create() makes, unless too wide: for every pitch and every width.
THEOREM PitchesMatch == FbSpec => []LinesMatch
<1>1. ASSUME FbInv PROVE LinesMatch
  <2>1. ASSUME stage = "shown", ~(format.planes = 2 /\ pitches[1] % 2 = 1)
        PROVE  /\ \A i \in 1..format.planes : HardwarePitch(i) = pitches[i]
               /\ device # "gen3" => (mwr <= 4095 \/ Doubled(interlaced)) /\ mwr % 16 = 0
               /\ device = "r8a7790" => pitches[1] % 128 = 0
    BY <1>1, <2>1, DuPitchExact, VspPitchExact
  <2>2. ASSUME stage = "rejected", width > 0
        PROVE  device # "gen3" /\ pitches[1] > MaxPitch(device, format)
    <3>1. /\ device \in {"gen2", "r8a7790", "gen3"} /\ format \in FormatsOf(device)
          /\ DumbWidth(width) /\ pitches[1] = DumbPitch(device, width, FirstBpp(format))
          /\ ~(Aligned(device, format, pitches[1]) /\ pitches[1] <= MaxPitch(device, format))
      BY <1>1, <2>2 DEF FbInv
    <3>2. /\ pitches[1] \in Nat /\ Aligned(device, format, pitches[1])
          /\ device = "gen3" => pitches[1] <= MaxPitch(device, format)
      BY <3>1, DumbPitchAligned, Zenon
    <3>3. MaxPitch(device, format) \in Nat
      BY <3>1, FormatsKnown, SMT DEF MaxPitch, FormatOK, FormatsOf
    <3> QED  BY <3>1, <3>2, <3>3
  <2> QED  BY <2>1, <2>2 DEF LinesMatch
<1> QED  BY <1>1, FbInvariant, PTL

================================================================================
