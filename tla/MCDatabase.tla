---- MODULE MCDatabase ----
(***************************************************************************)
(* DatabaseHistory with the requests of MCCommands.                        *)
(***************************************************************************)
EXTENDS MCCommands, DatabaseHistory

ASSUME RequestsUndisturbed == UpdatesUndisturbed

ASSUME SecondKeyTimeless == GivesNoTime({k2})

====
