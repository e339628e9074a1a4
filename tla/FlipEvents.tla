------------------------------ MODULE FlipEvents ------------------------------
(***************************************************************************)
(* What a CRTC promises its clients about completion events: every commit  *)
(* asks for one, and each is delivered once, in the order of the commits,  *)
(* eventually.  Only when the core gave up waiting for an event, because   *)
(* the hardware stalled, may events be skipped or overtaken; none is sent  *)
(* twice and the last one requested arrives even then.  How interrupts,    *)
(* callbacks, timeouts and the commit thread share the work is the         *)
(* business of PageFlip, which implements this.                            *)
(***************************************************************************)
EXTENDS Naturals, Sequences, Functions

VARIABLES
  requested,        \* number of commits that asked for an event
  stalled,          \* the core gave up waiting for one
  delivered         \* the events delivered so far, in order

vars == <<requested, stalled, delivered>>

Init == requested = 0 /\ stalled = FALSE /\ delivered = <<>>

Request == requested' = requested + 1 /\ UNCHANGED <<stalled, delivered>>

GiveUp == stalled' = TRUE /\ UNCHANGED <<requested, delivered>>

Deliver(n) ==
  /\ n \in 1..requested /\ n \notin Range(delivered)
  /\ stalled \/ n = Len(delivered) + 1
  /\ delivered' = Append(delivered, n)
  /\ UNCHANGED <<requested, stalled>>

Next == Request \/ GiveUp \/ \E n \in 1..requested : Deliver(n)

Spec ==
  /\ Init /\ [][Next]_vars
  /\ WF_vars(~stalled /\ Deliver(Len(delivered) + 1))
  /\ WF_vars(Deliver(requested))
===============================================================================
