---------------------------- MODULE MCOfficeRecords ----------------------------
(***************************************************************************)
(* A new office and an upgraded one, with two requests at a time.          *)
(***************************************************************************)
EXTENDS OfficeRecords
=============================================================================
