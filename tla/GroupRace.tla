------------------------------- MODULE GroupRace -------------------------------
(***************************************************************************)
(* The words a group of two CRTCs shares, under commits whose tails run at *)
(* the same time, one thread per CRTC.  A step is one load, store or       *)
(* register access of rcar_du_crtc.c and rcar_du_group.c, on a VSP system. *)
(* Only rcar_du_crtc_update_planes() takes the group lock; the counters,   *)
(* need_restart and the cached DSYSR words are plain memory.               *)
(*                                                                         *)
(* The even CRTC's DSYSR word also holds the DEN/DRES bits of the group.   *)
(* With Blocking, two mode sets exclude each other, as they do when the    *)
(* caller of the commit holds the connection lock to the end of its tail;  *)
(* page flips of the other CRTC run beside them all the same.              *)
(***************************************************************************)
EXTENDS Integers, FiniteSets

CONSTANT Blocking

ASSUME BlockingAssumption == Blocking \in BOOLEAN

Crtcs == {0, 1}
Owner == 0                 \* the CRTC whose DSYSR starts and stops the group
NoOne == 2                 \* the value of `lock' when it is free

VARIABLES
  active,                  \* CRTCs active once the commits in progress are done
  kind,                    \* kind[c]: what the thread of c commits
  pc, tmp, job,            \* its next step, loaded word, and DSYSR update
  use_count, used_crtcs, need_restart,
  lock,                    \* who holds rgrp->lock
  dsysr,                   \* rcrtc->dsysr of each CRTC
  reg,                     \* the DSYSR registers
  unlatched                \* CRTCs with a plane source written but not in effect

thread == <<active, kind>>
counts == <<use_count, used_crtcs>>
display == <<dsysr, reg, unlatched>>
vars == <<thread, pc, tmp, job, counts, need_restart, lock, display>>

Word == [master : BOOLEAN, den : BOOLEAN]
Jobs == [word : Crtcs, field : {"master", "den"}, value : BOOLEAN,
         next : {"unuse_load", "put_load", "restart", "unlock", "use_load", "start", "idle"}]
NoJob == [word |-> Owner, field |-> "den", value |-> FALSE, next |-> "idle"]

TypeOK ==
  /\ active \subseteq Crtcs
  /\ kind \in [Crtcs -> {"flip", "modeset"}]
  /\ job \in [Crtcs -> Jobs]
  /\ use_count \in Int /\ used_crtcs \in Int
  /\ Blocking => {use_count, used_crtcs} \subseteq 0 .. Cardinality(Crtcs)
  /\ need_restart \in BOOLEAN
  /\ lock \in Crtcs \cup {NoOne}
  /\ dsysr \in [Crtcs -> Word]
  /\ reg \in [Crtcs -> Word]
  /\ unlatched \subseteq Crtcs

Init ==
  /\ active = {}
  /\ kind = [c \in Crtcs |-> "flip"]
  /\ pc = [c \in Crtcs |-> "idle"]
  /\ tmp = [c \in Crtcs |-> 0]
  /\ job = [c \in Crtcs |-> NoJob]
  /\ use_count = 0 /\ used_crtcs = 0
  /\ need_restart = FALSE
  /\ lock = NoOne
  /\ dsysr = [c \in Crtcs |-> [master |-> FALSE, den |-> FALSE]]
  /\ reg = dsysr
  /\ unlatched = {}

Goto(c, label) == pc' = [pc EXCEPT ![c] = label]
From(c, label) == pc[c] = label

--------------------------------------------------------------------------------
(* rcar_du_crtc_dsysr_clr_set(): load the cached word, store it with one     *)
(* field changed, write the register.                                        *)

\* The thread goes on with this update of a DSYSR word, then to label next.
Update(c, word, field, value, next) ==
  /\ Goto(c, "load")
  /\ job' = [job EXCEPT ![c] =
               [word |-> word, field |-> field, value |-> value, next |-> next]]

\* __rcar_du_group_start_stop()
StartStop(c, start, next) == Update(c, Owner, "den", start, next)

LoadCache(c) ==
  /\ From(c, "load") /\ Goto(c, "store")
  /\ tmp' = [tmp EXCEPT ![c] = [dsysr[job[c].word] EXCEPT ![job[c].field] = job[c].value]]
  /\ UNCHANGED <<thread, job, counts, need_restart, lock, display>>

StoreCache(c) ==
  /\ From(c, "store") /\ Goto(c, "write")
  /\ dsysr' = [dsysr EXCEPT ![job[c].word] = tmp[c]]
  /\ UNCHANGED <<thread, tmp, job, counts, need_restart, lock, reg, unlatched>>

\* Whatever was written is in effect once the group is held in reset.
WriteDsysr(c) ==
  /\ From(c, "write") /\ Goto(c, job[c].next)
  /\ reg' = [reg EXCEPT ![job[c].word] = tmp[c]]
  /\ unlatched' = IF job[c].word = Owner /\ ~tmp[c].den THEN {} ELSE unlatched
  /\ tmp' = [tmp EXCEPT ![c] = 0]
  /\ job' = [job EXCEPT ![c] = NoJob]
  /\ UNCHANGED <<thread, counts, need_restart, lock, dsysr>>

--------------------------------------------------------------------------------
(* The commit of the thread: which CRTC, and which handlers it goes through.   *)

Modesetting(c) == pc[c] # "idle" /\ kind[c] = "modeset"

\* A page flip runs the flush of an active CRTC alone.
PageFlip(c) ==
  /\ From(c, "idle") /\ Goto(c, "lock")
  /\ c \in active
  /\ kind' = [kind EXCEPT ![c] = "flip"]
  /\ UNCHANGED <<active, tmp, job, counts, need_restart, lock, display>>

\* A mode set, of which two may run at the same time (mutant of ModeSet, which
\* makes a blocking one wait for the other), disables a CRTC that was active, and begins, flushes and enables
\* one that will be.
StartModeSet(c) ==
  /\ From(c, "idle")
  /\ kind' = [kind EXCEPT ![c] = "modeset"]
  /\ \/ c \in active /\ Goto(c, "slave") /\ active' \in {active, active \ {c}}
     \/ c \notin active /\ Goto(c, "get_load") /\ active' = active \cup {c}
  /\ UNCHANGED <<tmp, job, counts, need_restart, lock, display>>

ModeSet(c) ==
  /\ Blocking => \A d \in Crtcs : ~Modesetting(d)
  /\ StartModeSet(c)

--------------------------------------------------------------------------------
(* .atomic_disable: rcar_du_crtc_stop(), then rcar_du_crtc_put()             *)

LeaveMaster(c) ==
  /\ From(c, "slave")
  /\ Update(c, c, "master", FALSE, "unuse_load")
  /\ UNCHANGED <<thread, tmp, counts, need_restart, lock, display>>

LoadForUnuse(c) ==
  /\ From(c, "unuse_load") /\ Goto(c, "unuse_store")
  /\ tmp' = [tmp EXCEPT ![c] = used_crtcs - 1]
  /\ UNCHANGED <<thread, job, counts, need_restart, lock, display>>

\* Mutant of StoreUnuse: post-decrement, the count is compared too early.
StoreUnusePostDecrement(c) ==
  /\ From(c, "unuse_store")
  /\ used_crtcs' = tmp[c]
  /\ tmp' = [tmp EXCEPT ![c] = 0]
  /\ \/ used_crtcs = 0 /\ StartStop(c, FALSE, "put_load")
     \/ used_crtcs # 0 /\ Goto(c, "put_load") /\ UNCHANGED job
  /\ UNCHANGED <<thread, use_count, need_restart, lock, display>>

\* rcar_du_group_start_stop(false): the last user stops the group.
StoreUnuse(c) ==
  /\ From(c, "unuse_store")
  /\ used_crtcs' = tmp[c]
  /\ tmp' = [tmp EXCEPT ![c] = 0]
  /\ \/ tmp[c] = 0 /\ StartStop(c, FALSE, "put_load")
     \/ tmp[c] # 0 /\ Goto(c, "put_load") /\ UNCHANGED job
  /\ UNCHANGED <<thread, use_count, need_restart, lock, display>>

LoadForPut(c) ==
  /\ From(c, "put_load") /\ Goto(c, "put_store")
  /\ tmp' = [tmp EXCEPT ![c] = use_count - 1]
  /\ UNCHANGED <<thread, job, counts, need_restart, lock, display>>

StorePut(c) ==
  /\ From(c, "put_store")
  /\ use_count' = tmp[c]
  /\ tmp' = [tmp EXCEPT ![c] = 0]
  /\ Goto(c, IF c \in active THEN "get_load" ELSE "idle")
  /\ UNCHANGED <<thread, job, used_crtcs, need_restart, lock, display>>

--------------------------------------------------------------------------------
(* .atomic_begin: rcar_du_crtc_get() of a CRTC that is not initialized       *)

LoadForGet(c) ==
  /\ From(c, "get_load") /\ Goto(c, "get_store")
  /\ tmp' = [tmp EXCEPT ![c] = use_count + 1]
  /\ UNCHANGED <<thread, job, counts, need_restart, lock, display>>

StoreGet(c) ==
  /\ From(c, "get_store") /\ Goto(c, "source")
  /\ use_count' = tmp[c]
  /\ tmp' = [tmp EXCEPT ![c] = 0]
  /\ UNCHANGED <<thread, job, used_crtcs, need_restart, lock, display>>

\* rcar_du_vsp_enable(): the plane source, in effect at once under reset, ...
WriteSource(c) ==
  /\ From(c, "source") /\ Goto(c, "request")
  /\ unlatched' = IF reg[Owner].den THEN unlatched \cup {c} ELSE unlatched
  /\ UNCHANGED <<thread, tmp, job, counts, need_restart, lock, dsysr, reg>>

\* ... and the request to restart the group.
RequestRestart(c) ==
  /\ From(c, "request") /\ Goto(c, "lock")
  /\ need_restart' = TRUE
  /\ UNCHANGED <<thread, tmp, job, counts, lock, display>>

--------------------------------------------------------------------------------
(* .atomic_flush: the end of rcar_du_crtc_update_planes()                    *)

\* Mutant of TakeLock: the group lock is not taken.
TakeLockUnlocked(c) ==
  /\ From(c, "lock") /\ Goto(c, "test")
  /\ UNCHANGED <<thread, tmp, job, counts, need_restart, lock, display>>

TakeLock(c) ==
  /\ From(c, "lock") /\ Goto(c, "test")
  /\ lock = NoOne /\ lock' = c
  /\ UNCHANGED <<thread, tmp, job, counts, need_restart, display>>

TestRestart(c) ==
  /\ From(c, "test")
  /\ Goto(c, IF need_restart THEN "clear" ELSE "unlock")
  /\ UNCHANGED <<thread, tmp, job, counts, need_restart, lock, display>>

\* rcar_du_group_restart(): the request is cleared first; stop; start.
ClearRequest(c) ==
  /\ From(c, "clear")
  /\ need_restart' = FALSE
  /\ StartStop(c, FALSE, "restart")
  /\ UNCHANGED <<thread, tmp, counts, lock, display>>

Restart(c) ==
  /\ From(c, "restart")
  /\ StartStop(c, TRUE, "unlock")
  /\ UNCHANGED <<thread, tmp, counts, need_restart, lock, display>>

DropLock(c) ==
  /\ From(c, "unlock")
  /\ lock' = NoOne
  /\ Goto(c, IF kind[c] = "modeset" THEN "master" ELSE "idle")
  /\ UNCHANGED <<thread, tmp, job, counts, need_restart, display>>

--------------------------------------------------------------------------------
(* .atomic_enable: rcar_du_crtc_start()                                      *)

EnterMaster(c) ==
  /\ From(c, "master")
  /\ Update(c, c, "master", TRUE, "use_load")
  /\ UNCHANGED <<thread, tmp, counts, need_restart, lock, display>>

LoadForUse(c) ==
  /\ From(c, "use_load") /\ Goto(c, "use_store")
  /\ tmp' = [tmp EXCEPT ![c] = used_crtcs]
  /\ UNCHANGED <<thread, job, counts, need_restart, lock, display>>

\* rcar_du_group_start_stop(true): a group in use is stopped first.
StoreUse(c) ==
  /\ From(c, "use_store")
  /\ used_crtcs' = tmp[c] + 1
  /\ tmp' = [tmp EXCEPT ![c] = 0]
  /\ \/ tmp[c] # 0 /\ StartStop(c, FALSE, "start")
     \/ tmp[c] = 0 /\ Goto(c, "start") /\ UNCHANGED job
  /\ UNCHANGED <<thread, use_count, need_restart, lock, display>>

StartGroup(c) ==
  /\ From(c, "start")
  /\ StartStop(c, TRUE, "idle")
  /\ UNCHANGED <<thread, tmp, counts, need_restart, lock, display>>

--------------------------------------------------------------------------------
Disable(c) ==
  LeaveMaster(c) \/ LoadForUnuse(c) \/ StoreUnuse(c) \/ LoadForPut(c) \/ StorePut(c)

Begin(c) == LoadForGet(c) \/ StoreGet(c) \/ WriteSource(c) \/ RequestRestart(c)

Flush(c) ==
  TakeLock(c) \/ TestRestart(c) \/ ClearRequest(c) \/ Restart(c) \/ DropLock(c)

Enable(c) == EnterMaster(c) \/ LoadForUse(c) \/ StoreUse(c) \/ StartGroup(c)

Next ==
  \E c \in Crtcs :
    \/ PageFlip(c) \/ ModeSet(c)
    \/ Disable(c) \/ Begin(c) \/ Flush(c) \/ Enable(c)
    \/ LoadCache(c) \/ StoreCache(c) \/ WriteDsysr(c)

Spec == Init /\ [][Next]_vars

--------------------------------------------------------------------------------
(* Properties *)

Quiet == \A c \in Crtcs : pc[c] = "idle"

\* "@use_count: number of users of the group", "@used_crtcs: number of CRTCs
\* currently in use" (struct rcar_du_group): no increment or decrement is lost.
CountsExact ==
  Quiet => use_count = Cardinality(active) /\ used_crtcs = Cardinality(active)

\* When no commit is in progress the group runs exactly if a CRTC is active, and
\* the cached words are what the registers hold.  A CRTC whose commit is over is
\* in master sync mode if it is active, whatever the commit of the other CRTC is
\* writing to the DSYSR word they share.
RunningExact ==
  /\ Quiet => /\ reg[Owner].den <=> active # {}
              /\ dsysr = reg
  /\ \A c \in active : pc[c] = "idle" => reg[c].master

\* Once a thread has left the locked section of its flush, the plane source it
\* wrote is in effect, even when the other thread consumed its restart request.
SourceInEffect ==
  \A c \in Crtcs : pc[c] \in {"master", "use_load", "use_store", "start", "idle"}
                     => c \notin unlatched
===============================================================================
