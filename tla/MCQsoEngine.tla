----------------------------- MODULE MCQsoEngine -----------------------------
(* Small instances of the QSO engine for TLC. *)
EXTENDS QsoEngine

CONSTANTS A, B, Loud, Weak

TwoStations == {A, B}
OneStation  == {A}
TwoReports  == {Loud, Weak}
OneReport   == {Weak}

=============================================================================
