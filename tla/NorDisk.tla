------------------------------ MODULE NorDisk ------------------------------
(***************************************************************************)
(* What the NOR FAT drive promises to the file system above it: a device   *)
(* with a volatile view and a non-volatile image.                          *)
(*                                                                         *)
(* A read returns `content`.  A write changes `content` only.  At any time *)
(* the device may bring sectors of `stable` up to date with the current    *)
(* content, or open (erase) them on the way there; it never moves a sector *)
(* to an older version and never to another sector's data.  Losing the     *)
(* volatile state leaves exactly `stable`.                                 *)
(***************************************************************************)
CONSTANTS
  Sectors,   \* the sectors of the partition
  Data,      \* the data a sector can be asked to hold
  Torn       \* what an erased or half programmed sector holds

VARIABLES
  content,   \* what a read of each sector returns
  stable,    \* what each sector holds when the power goes
  giveUp     \* the volatile state may be lost: no power, unmounted, discarded

vars == <<content, stable, giveUp>>

Cell == Data \union {Torn}

Init ==
  /\ content \in [Sectors -> Cell]
  /\ stable = content
  /\ giveUp = TRUE

\* A write of some sectors is accepted.
Write ==
  /\ content' \in [Sectors -> Cell]
  /\ \E d \in Data : \A s \in Sectors : content'[s] \in {content[s], d}
  /\ ~giveUp
  /\ UNCHANGED <<stable, giveUp>>

\* Sectors are opened on the medium, or brought up to date with the content.
Destage ==
  /\ stable' \in [Sectors -> Cell]
  /\ \A s \in Sectors : stable'[s] \in {stable[s], content[s], Torn}
  /\ UNCHANGED <<content, giveUp>>

\* The volatile state is lost (power cut) or given up (invalidate, release).
Drop ==
  /\ giveUp \/ giveUp'
  /\ content' = stable
  /\ giveUp' \in BOOLEAN
  /\ UNCHANGED stable

\* The drive is mounted, or told that its volatile state may go.
Turn ==
  /\ giveUp' = ~giveUp
  /\ UNCHANGED <<content, stable>>

Next == Write \/ Destage \/ Drop \/ Turn

Spec == Init /\ [][Next]_vars
=============================================================================
