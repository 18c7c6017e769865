---------------------------- MODULE MCDriverLink ----------------------------
(* Small instances of DriverLink. *)
EXTENDS DriverLink

CONSTANTS status, load, OL

MCVar == {status, load}
OneValue == {OL}
=============================================================================
