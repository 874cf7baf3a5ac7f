----------------------------- MODULE MCDevices -----------------------------
(***************************************************************************)
(* Devices for TLC: two threads, and a disk of two tracks of four sectors, *)
(* so that a request can find the track buffer half full.  The times have  *)
(* no common divisor: requests come in the middle of a sector, and         *)
(* interrupts are late by a tick.                                          *)
(***************************************************************************)
EXTENDS Devices

CONSTANTS t1, t2
=============================================================================
