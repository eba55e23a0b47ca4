--------------------------- MODULE MCOndcMessaging ---------------------------
(* OndcMessaging for TLC: workers are interchangeable.                     *)
EXTENDS OndcMessaging, TLC

CONSTANTS q, a, o, A

MCAnswerTo == [p \in Requests |-> a]
MCOrderOf == [x \in Logistics |-> o]
MCProviderOf == [x \in Logistics |-> A]
Symmetry == Permutations(Workers)
=============================================================================
