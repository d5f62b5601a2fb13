----------------------------- MODULE MC_MqttTask -----------------------------
(* The pipeline on small instances; the .cfg files choose the bounds. *)
EXTENDS MqttTask

CONSTANTS task, m1, m2, m3, m4, f1, f2

MCMessages == {m1, m2, m3, m4}
OnePart    == <<m1>>
TwoParts   == <<m1, m2>>
ThreeParts == <<m1, m2, m3>>
OneStored  == <<m4>>
TwoStored  == <<m3, m4>>
NoneStored == <<>>
MCTopics   == <<f1, f2>>
=============================================================================
