------------------------- MODULE MCNotifyEligibility -------------------------
(* NotifyEligibility on small instances: a day of six instants, of which a *)
(* column of type time can hold three.                                     *)
EXTENDS NotifyEligibility

ToneAlert == [channel |-> "CH1A", detector |-> "tone", list |-> "t", confidence |-> 50]
WordAlert == [channel |-> "CH2B", detector |-> "keyword", list |-> "k", confidence |-> NoTime]

\* Everything on, and rows that differ from it in one respect or two.
AllOn ==
  [enabled |-> TRUE, channels |-> {"CH1A", "CH2B"}, tones |-> {"t"}, keywords |-> {"k"},
   minConfidence |-> NoTime, from |-> NoTime, to |-> NoTime, zone |-> "none"]

SomeAlerts == {ToneAlert, WordAlert}

SomeCandidates ==
  {AllOn,
   [AllOn EXCEPT !.enabled = FALSE],
   [AllOn EXCEPT !.channels = {"CH1A"}, !.keywords = {}, !.minConfidence = 60],
   [AllOn EXCEPT !.tones = {}, !.minConfidence = 50],
   [AllOn EXCEPT !.from = 5, !.to = 2, !.zone = "iana"],
   [AllOn EXCEPT !.from = 2, !.to = 5, !.zone = "iana"],
   [AllOn EXCEPT !.from = 2, !.to = 3, !.zone = "iana"],
   [AllOn EXCEPT !.from = 2, !.to = 4],
   [AllOn EXCEPT !.from = 1, !.zone = "Local"]}
=============================================================================
