----------------------------- MODULE MCXdLayer -----------------------------
(***************************************************************************)
(* XdLayer on cards of one or two zones of four blocks (block 0 is the CIS *)
(* block) and two logical blocks of two pages.                             *)
(***************************************************************************)
EXTENDS XdLayer

Timeouts    == {"read", "program", "erase"}
AllFaults   == FaultKinds
NoFaults    == {}

\* The power goes, but never while a write is programming the card.
NotInAWrite == {"idle", "map", "scan", "go"}
InAWrite    == {"program"}
Anywhere    == Points
Never       == {}
=============================================================================
