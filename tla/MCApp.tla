------------------------------- MODULE MCApp -------------------------------
(* App with an output of each kind, and a simulator next to a played log and *)
(* an interface without parsers.                                             *)
EXTENDS App

CONSTANTS mf4, influx, prometheus, sim, playback, raw
=============================================================================
