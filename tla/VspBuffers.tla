------------------------------- MODULE VspBuffers -------------------------------
(***************************************************************************)
(* Framebuffers mapped for the VSP: those of its planes and those its      *)
(* writeback connector writes to (rcar_du_vsp.c, rcar_du_writeback.c).     *)
(*                                                                         *)
(* A mapping belongs to one plane state or one writeback job, here a pair  *)
(* <<h, k>> of a holder h (a plane, or 0 for the writeback connector) and  *)
(* the number k of the commit that brought it.  It is made before the      *)
(* commit is swapped in, and undone when the DRM core cleans the state or  *)
(* the job up, in a thread of its own.                                     *)
(*                                                                         *)
(* One CRTC, with commits one after the other; the clean-up of a commit    *)
(* runs beside the next one, frame ends and their callbacks beside both.   *)
(* The VSP and the DRM core are modelled from how the driver uses them.    *)
(***************************************************************************)
EXTENDS Naturals, Sequences, SequencesExt, FiniteSets

CONSTANTS
  Planes,           \* planes of the VSP, from 1
  SemiPlanar,       \* those whose framebuffers have two memory planes, not one
  MaxCommit,        \* bound: commits in a behaviour
  MaxFail           \* bound: failing calls in a behaviour

ASSUME VspBuffersAssumption ==
  /\ Planes \subseteq Nat \ {0}
  /\ SemiPlanar \subseteq Planes
  /\ MaxCommit \in Nat
  /\ MaxFail \in Nat

VARIABLES
  n, kind,          \* the last commit and what it does
  lit,              \* crtc->state->active
  touched,          \* holders in its state
  visible,          \* plane states to be displayed
  cur,              \* current state of each plane, by its commit
  prep,             \* holders still to prepare
  old,              \* plane states the commit replaces
  pc,               \* next step of the commit thread
  fails,            \* calls that failed
  mapped,           \* tables mapped in the VSP, as <<state, index>>
  leaked,           \* states a failing prepare left mapped
  cleaning,         \* plane states and jobs the core may clean up
  event, done,      \* rcrtc->event; commits whose flip is done
  running,          \* the VSP is enabled and the display runs
  input,            \* state the VSP is configured to read for each plane, 0 for none
  lists,            \* frames handed to the VSP that it has not taken
  shown,            \* frame the VSP reads and writes back
  status,           \* status bits rcar_du_vsp_complete() has still to handle
  jobs,             \* job queue of the writeback connector
  signalled,        \* jobs whose completion was signalled
  written,          \* jobs the VSP has finished writing
  reset, lost       \* an active CRTC was reset; a queued job was dropped

commit == <<n, kind, lit, touched, visible, cur, old, reset>>
prepare == <<prep, fails, leaked>>
flip == <<event, done>>
vsp == <<running, input, lists, shown, status, written>>
wb == <<jobs, signalled, lost>>
vars == <<commit, prepare, pc, mapped, cleaning, flip, vsp, wb>>

Holders == {0} \cup Planes
Commits == 1..MaxCommit
States == Holders \X Commits

\* A writeback format has one memory plane.
NumTables(h) == IF h \in SemiPlanar THEN 2 ELSE 1
TablesOf(s) == {s} \X (1..NumTables(s[1]))
AllTables(S) == UNION {TablesOf(s) : s \in S}

\* A frame: the plane states it reads, the job it writes back or 0.
NoFrame == [reads |-> {}, job |-> 0]
Frames == [reads : SUBSET States, job : 0..MaxCommit]

TypeOK ==
  /\ n \in 0..MaxCommit /\ kind \in {"on", "off", "reset", "flip", "dark"} /\ lit \in BOOLEAN
  /\ touched \subseteq Holders
  /\ visible \subseteq Planes \X Commits
  /\ cur \in [Planes -> 0..MaxCommit]
  /\ prep \subseteq Holders
  /\ old \subseteq States /\ cleaning \subseteq States /\ leaked \subseteq States
  /\ pc \in {"idle", "prepare", "abort", "disable", "update", "arm",
             "queue", "flush", "start", "wait"}
  /\ fails \in 0..MaxFail
  /\ mapped \subseteq AllTables(States)
  /\ event \in 0..MaxCommit /\ done \subseteq Commits
  /\ running \in BOOLEAN /\ reset \in BOOLEAN /\ lost \in BOOLEAN
  /\ input \in [Planes -> 0..MaxCommit]
  /\ lists \in Seq(Frames) /\ Len(lists) <= 2 /\ shown \in Frames
  /\ status \subseteq {"complete", "writeback"}
  /\ jobs \in Seq(Commits)
  /\ signalled \subseteq Commits /\ written \subseteq Commits

Init ==
  /\ n = 0 /\ kind = "off" /\ lit = FALSE /\ touched = {} /\ visible = {}
  /\ cur = [p \in Planes |-> 0]
  /\ prep = {} /\ old = {} /\ pc = "idle" /\ fails = 0
  /\ mapped = {} /\ leaked = {} /\ cleaning = {}
  /\ event = 0 /\ done = {}
  /\ running = FALSE /\ input = [p \in Planes |-> 0]
  /\ lists = <<>> /\ shown = NoFrame /\ status = {}
  /\ jobs = <<>> /\ signalled = {} /\ written = {}
  /\ reset = FALSE /\ lost = FALSE

Step(from, to) == pc = from /\ pc' = to

--------------------------------------------------------------------------------
(* A commit is prepared and swapped in                                       *)

\* The core starts a commit that passed its checks: a mode set of the CRTC (on,
\* off, reset), which takes all its planes, or an update of some planes, of a
\* CRTC that is lit or dark.  A writeback job needs an active CRTC.
StartCommit ==
  /\ pc = "idle" /\ n < MaxCommit
  /\ n' = n + 1
  /\ kind' \in IF lit THEN {"off", "reset", "flip"} ELSE {"on", "dark"}
  /\ \E P \in SUBSET Planes, V \in SUBSET Planes, J \in SUBSET {0} :
       /\ V \subseteq P
       /\ kind' \in {"on", "off", "reset"} => P = Planes
       /\ kind' \in {"off", "dark"} => J = {}
       /\ touched' = P \cup J
       /\ prep' = P \cup J
       /\ visible' = visible \cup (V \X {n + 1})
  /\ pc' = "prepare"
  /\ UNCHANGED <<lit, cur, old, reset, fails, leaked, mapped, cleaning, flip, vsp, wb>>

\* What the core prepares now, and whether it has a framebuffer to map: a job
\* has, a plane state if it is visible.
Preparing == <<Min(prep), n>>
Mapping(s) == s[1] = 0 \/ s \in visible

\* Mutant of MapFb: when a table fails those before it are kept.
MapFbKept(s, m) == mapped \cup ({s} \X (1..m))

\* rcar_du_vsp_map_fb() maps the tables one by one, up to the m-th; if it is not
\* the last it undoes them.
MapFb(s, m) ==
  LET upto == mapped \cup ({s} \X (1..m))
  IN IF m = NumTables(s[1]) THEN upto ELSE upto \ ({s} \X (1..m))

\* rcar_du_vsp_plane_prepare_fb(), or rcar_du_wb_prepare_job(), succeeds.
Prepare ==
  /\ pc = "prepare" /\ prep # {}
  /\ prep' = prep \ {Min(prep)}
  /\ mapped' = IF Mapping(Preparing) THEN MapFb(Preparing, NumTables(Min(prep))) ELSE mapped
  /\ UNCHANGED <<commit, fails, leaked, pc, cleaning, flip, vsp, wb>>

\* It fails: at one of the tables, or, for a plane, at its last call,
\* drm_gem_fb_prepare_fb(), which leaves the framebuffer mapped.
PrepareFailed ==
  /\ pc = "prepare" /\ prep # {} /\ fails < MaxFail
  /\ Mapping(Preparing)
  /\ \E m \in 0..NumTables(Min(prep)) :
       /\ m = NumTables(Min(prep)) => Min(prep) # 0
       /\ mapped' = MapFb(Preparing, m)
       /\ leaked' = IF m = NumTables(Min(prep)) THEN leaked \cup {Preparing} ELSE leaked
  /\ fails' = fails + 1
  /\ pc' = "abort"
  /\ UNCHANGED <<commit, prep, cleaning, flip, vsp, wb>>

\* rcar_du_vsp_plane_cleanup_fb() and rcar_du_wb_cleanup_job(): what is undone
\* when the core cleans the states or jobs S up.
Unmapped(S) == AllTables({s \in S : Mapping(s)})

\* The core gives a failed commit up: it cleans what was prepared before.
Abort ==
  /\ Step("abort", "idle")
  /\ mapped' = mapped \ Unmapped((touched \ prep) \X {n})
  /\ visible' = visible \ (Planes \X {n})
  /\ prep' = {}
  /\ UNCHANGED <<n, kind, lit, touched, cur, old, reset, fails, leaked,
                 cleaning, flip, vsp, wb>>

\* The new states become current, the old ones are cleaned after the commit.
Swap ==
  /\ pc = "prepare" /\ prep = {}
  /\ pc' = CASE kind \in {"off", "reset"} -> "disable"
             [] kind \in {"on", "flip"} -> "update"
             [] kind = "dark" -> "wait"
  /\ lit' = (kind \in {"on", "reset", "flip"})
  /\ old' = {<<p, cur[p]>> : p \in {q \in touched \ {0} : cur[q] # 0}}
  /\ cur' = [p \in Planes |-> IF p \in touched THEN n ELSE cur[p]]
  /\ reset' = (reset \/ kind = "reset")
  /\ done' = IF kind = "dark" THEN done \cup {n} ELSE done
  /\ UNCHANGED <<n, kind, touched, visible, prepare, mapped, cleaning, event, vsp, wb>>

--------------------------------------------------------------------------------
(* The handlers of the CRTC                                                  *)

\* rcar_du_crtc_atomic_disable(): after the pending flip, if any, the VSP is
\* stopped, which takes until no callback of its is in progress, and the event of
\* the new state is sent.  A job it has not written stays in the queue.
Disable ==
  /\ Step("disable", IF kind = "reset" THEN "update" ELSE "wait")
  /\ event = 0 /\ status = {}
  /\ running' = FALSE
  /\ input' = [p \in Planes |-> 0]
  /\ lists' = <<>>
  /\ shown' = NoFrame
  /\ lost' = (lost \/ {l.job : l \in Range(lists) \cup {shown}} # {0})
  /\ done' = done \cup {n}
  /\ UNCHANGED <<commit, prepare, mapped, cleaning, event, status, written, jobs, signalled>>

\* rcar_du_vsp_plane_atomic_update() of each plane of the commit.
UpdatePlanes ==
  /\ Step("update", "arm")
  /\ input' = [p \in Planes |-> IF p \notin touched THEN input[p]
                                ELSE IF <<p, n>> \in visible THEN n ELSE 0]
  /\ UNCHANGED <<commit, prepare, mapped, cleaning, flip, running, lists, shown,
                 status, written, wb>>

\* rcar_du_crtc_atomic_flush() arms the event, unless the disable handler has
\* sent it, ...
ArmEvent ==
  /\ Step("arm", "queue")
  /\ event' = IF n \in done THEN event ELSE n
  /\ UNCHANGED <<commit, prepare, mapped, cleaning, done, vsp, wb>>

\* ... rcar_du_writeback_setup() queues the job of the commit, ...
QueueJob ==
  /\ Step("queue", "flush")
  /\ jobs' = IF 0 \in touched THEN Append(jobs, n) ELSE jobs
  /\ UNCHANGED <<commit, prepare, mapped, cleaning, flip, vsp, signalled, lost>>

\* ... and the frame is handed to the VSP, which keeps one frame queued and the
\* last one that came while it was.
Configured == [reads |-> {<<p, input[p]>> : p \in {q \in Planes : input[q] # 0}},
               job |-> IF 0 \in touched THEN n ELSE 0]

Flush ==
  /\ Step("flush", IF kind = "flip" THEN "wait" ELSE "start")
  /\ lists' = Append(IF Len(lists) < 2 THEN lists ELSE Front(lists), Configured)
  /\ UNCHANGED <<commit, prepare, mapped, cleaning, flip, running, input, shown,
                 status, written, wb>>

Start ==
  /\ Step("start", "wait")
  /\ running' = TRUE
  /\ UNCHANGED <<commit, prepare, mapped, cleaning, flip, input, lists, shown,
                 status, written, wb>>

\* Mutant of WaitFlipDone: the old states are cleaned up without waiting.
WaitFlipDoneSkipped ==
  /\ Step("wait", "idle")
  /\ cleaning' = cleaning \cup old
  /\ old' = {} /\ touched' = {}
  /\ UNCHANGED <<n, kind, lit, visible, cur, reset, prepare, mapped, flip, vsp, wb>>

\* The end of rcar_du_atomic_commit_tail(): when the flip is done the old states
\* are left to drm_atomic_helper_cleanup_planes().
WaitFlipDone ==
  /\ Step("wait", "idle")
  /\ n \in done
  /\ cleaning' = cleaning \cup old
  /\ old' = {} /\ touched' = {}
  /\ UNCHANGED <<n, kind, lit, visible, cur, reset, prepare, mapped, flip, vsp, wb>>

\* The core cleans a finished job up, ...
CleanupJob(s) ==
  /\ s \in cleaning /\ s[1] = 0
  /\ mapped' = mapped \ Unmapped({s})
  /\ cleaning' = cleaning \ {s}
  /\ UNCHANGED <<commit, prepare, pc, flip, vsp, wb>>

\* ... or the plane states of a finished commit.
CleanupPlanes ==
  /\ cleaning \cap (Planes \X Commits) # {}
  /\ mapped' = mapped \ Unmapped(cleaning \cap (Planes \X Commits))
  /\ visible' = visible \ cleaning
  /\ cleaning' = cleaning \ (Planes \X Commits)
  /\ UNCHANGED <<n, kind, lit, touched, cur, old, reset, prepare, pc, flip, vsp, wb>>

--------------------------------------------------------------------------------
(* Frame ends                                                                *)

\* The VSP reaches the end of a frame: it has written the job of the frame it
\* showed, if any, and takes the next frame, if any.
FrameEnd ==
  /\ running /\ status = {}
  /\ lists # <<>> \/ shown.job # 0
  /\ written' = written \cup ({shown.job} \ {0})
  /\ shown' = IF lists = <<>> THEN [shown EXCEPT !.job = 0] ELSE Head(lists)
  /\ lists' = IF lists = <<>> THEN lists ELSE Tail(lists)
  /\ status' = (IF lists = <<>> THEN {} ELSE {"complete"})
                 \cup (IF shown.job = 0 THEN {} ELSE {"writeback"})
  /\ UNCHANGED <<commit, prepare, pc, mapped, cleaning, flip, running, input, wb>>

\* Mutant of CompleteFlip: the writeback bit is looked at only without the other.
CompleteFlipElse ==
  /\ "complete" \in status
  /\ event' = 0
  /\ done' = done \cup ({event} \ {0})
  /\ status' = {}
  /\ UNCHANGED <<commit, prepare, pc, mapped, cleaning, running, input, lists,
                 shown, written, wb>>

\* rcar_du_vsp_complete() finishes the page flip, ...
CompleteFlip ==
  /\ "complete" \in status
  /\ event' = 0
  /\ done' = done \cup ({event} \ {0})
  /\ status' = status \ {"complete"}
  /\ UNCHANGED <<commit, prepare, pc, mapped, cleaning, running, input, lists,
                 shown, written, wb>>

\* Mutant of CompleteJob: any frame end completes the job.
CompleteJobAnyStatus ==
  /\ jobs # <<>>
  /\ signalled' = signalled \cup {Head(jobs)}
  /\ cleaning' = cleaning \cup {<<0, Head(jobs)>>}
  /\ jobs' = Tail(jobs)
  /\ status' = status \ {"writeback"}
  /\ UNCHANGED <<commit, prepare, pc, mapped, flip, running, input, lists, shown,
                 written, lost>>

\* ... and signals the first job of the queue, which is then cleaned up.
CompleteJob ==
  /\ status = {"writeback"}
  /\ signalled' = signalled \cup {Head(jobs)}
  /\ cleaning' = cleaning \cup {<<0, Head(jobs)>>}
  /\ jobs' = Tail(jobs)
  /\ status' = {}
  /\ UNCHANGED <<commit, prepare, pc, mapped, flip, running, input, lists, shown,
                 written, lost>>

--------------------------------------------------------------------------------
CommitThread ==
  \/ Prepare \/ PrepareFailed \/ Abort \/ Swap
  \/ Disable \/ UpdatePlanes \/ ArmEvent \/ QueueJob \/ Flush \/ Start \/ WaitFlipDone
Vsp == FrameEnd \/ CompleteFlip \/ CompleteJob

Cleanup == CleanupPlanes \/ \E s \in cleaning : CleanupJob(s)

Next == StartCommit \/ CommitThread \/ Vsp \/ Cleanup

\* A commit in progress goes on, a running VSP reaches the end of its frames, and
\* the core comes to the states and jobs it may clean up.
Fairness == WF_vars(CommitThread) /\ WF_vars(Vsp) /\ WF_vars(Cleanup)

Spec == Init /\ [][Next]_vars /\ Fairness

--------------------------------------------------------------------------------
(* Properties *)

\* Who will undo a mapping: the commit being prepared, the current state of a
\* plane, a commit that replaces it, the core, or the writeback connector until
\* the job is signalled.
PreparedOwners == IF pc \in {"prepare", "abort"} THEN ((touched \ prep) \X {n}) ELSE {}
JobOwner == IF pc \in {"disable", "update", "arm", "queue"} THEN (touched \cap {0}) \X {n} ELSE {}
Owners ==
  PreparedOwners \cup JobOwner \cup old \cup cleaning
    \cup {<<p, cur[p]>> : p \in Planes} \cup ({0} \X Range(jobs))

\* Every table mapped in the VSP has an owner that will undo it, and every state
\* or job to be cleaned up still has its tables: whatever fails, nothing is leaked
\* (but by PrepareFailed) and nothing is undone twice.
MappingsOwned ==
  mapped = Unmapped(Owners) \cup AllTables(leaked)

\* The life of a mapping as Mappings tells it.  What no commit brought yet is
\* fresh; a mapping is held by its owners until it is left to the core, and the VSP
\* reads and writes what its frames say.  It takes a reset of an active CRTC, whose
\* frame end completes the next flip, to clean up what the VSP still reads.
Fresh ==
  (Holders \X (n + 1 .. MaxCommit)) \cup (IF pc = "prepare" THEN prep \X {n} ELSE {})
MappedStates == {t[1] : t \in mapped}
LeftToCore == cleaning \cup (IF pc = "abort" THEN PreparedOwners ELSE {})
Held == MappedStates \cap (leaked \cup (Owners \ LeftToCore))
Accessed ==
  IF reset THEN {}
  ELSE UNION {f.reads \cup ({0} \X ({f.job} \ {0})) : f \in Range(lists) \cup {shown}}

Life == INSTANCE Mappings
        WITH Uses <- States, fresh <- Fresh, mapped <- MappedStates, held <- Held,
             accessed <- Accessed

\* A framebuffer is mapped once, accessed by the VSP only while it is mapped, and
\* unmapped once, after its last use, in the end.
MappingsFollowLife == Life!Spec

\* The completion of a job is signalled after the VSP has written it, unless a
\* CRTC was disabled before the VSP wrote a queued job.
JobsWritten == ~lost => signalled \subseteq written

\* Again and again no job is queued: as jobs leave the queue only to be signalled,
\* each is, with the same exception.
JobsSignalled == []<>(jobs = <<>> \/ lost)
===============================================================================
