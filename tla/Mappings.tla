------------------------------- MODULE Mappings -------------------------------
(***************************************************************************)
(* What the driver promises about the memory it maps for a device: a       *)
(* framebuffer is mapped once for each use it is prepared for, the device  *)
(* accesses mapped memory only, and what nobody holds any more is unmapped *)
(* once, after the last access, eventually.  Which commit, queue, thread   *)
(* or callback holds a mapping is the business of VspBuffers, which        *)
(* implements this.                                                        *)
(***************************************************************************)

CONSTANT Uses       \* a framebuffer is used once by each commit that brings it

VARIABLES
  fresh,            \* uses not prepared yet
  mapped,           \* uses whose memory is mapped
  held,             \* those somebody still needs mapped
  accessed          \* those the device was told to read or write

vars == <<fresh, mapped, held, accessed>>

Init == fresh = Uses /\ mapped = {} /\ held = {} /\ accessed = {}

\* Some uses are prepared, others turn out to need no memory.  When a preparation
\* fails, what was prepared with it is let go, but for the mapping made by the very
\* call that fails, which may be stranded.
Prepare ==
  LET gained == mapped' \ mapped
  IN
  /\ fresh' \subseteq fresh
  /\ mapped \subseteq mapped' /\ gained \subseteq fresh \ fresh'
  /\ gained \subseteq held' /\ held' \subseteq held \cup gained
  /\ UNCHANGED accessed

LetGo ==
  /\ held' \subseteq held
  /\ UNCHANGED <<fresh, mapped, accessed>>

Unmap ==
  /\ mapped' \subseteq mapped
  /\ (mapped \ mapped') \cap (held \cup accessed) = {}
  /\ UNCHANGED <<fresh, held, accessed>>

Access ==
  /\ accessed' \subseteq mapped
  /\ UNCHANGED <<fresh, mapped, held>>

Next == Prepare \/ LetGo \/ Unmap \/ Access

\* Again and again, nothing is mapped that nobody holds; as no use is held again,
\* each that is let go is unmapped in the end.
Returned == []<>(mapped = held)

Spec == Init /\ [][Next]_vars /\ Returned
===============================================================================
