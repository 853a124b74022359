--------------------------- MODULE MCLegacyRunner ---------------------------
(* Small instances of LegacyRunner for TLC. *)
EXTENDS LegacyRunner

\* A phase that may commit two reports, a custom one, and one that may commit one.
MCBatchLimit == [p \in 1..3 |-> IF p = 1 THEN 2 ELSE IF p = 2 THEN 0 ELSE 1]

\* As many outcomes as the three phases can commit.
ASSUME RoomAssumption == RoomForOutcomes

=============================================================================
