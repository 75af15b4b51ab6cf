---------------------------- MODULE MCAsyncFile ----------------------------
(* Values for the constants of AsyncFile. *)
EXTENDS AsyncFile

AllKinds == {"open", "openwriteclose", "other"}
NoRaces == {}
InitRace == {"init"}
TerminateRace == {"terminate"}
=============================================================================
