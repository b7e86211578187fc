---------------------------- MODULE MCSPSCQueue ----------------------------
(* Instances of SPSCQueue for TLC: the values carry no meaning, so two of   *)
(* them are enough to tell any reordering, loss or duplication.             *)
EXTENDS SPSCQueue

CONSTANTS a, b, callback, stopper

MCValues == {a, b}
OneProducer == {callback}
TwoProducers == {callback, stopper}
=============================================================================
