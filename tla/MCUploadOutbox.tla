--------------------------- MODULE MCUploadOutbox ---------------------------
(* Instances of UploadOutbox for TLC.                                      *)
EXTENDS UploadOutbox

\* No service ever takes the uploads of the first QSO.
FirstIsPoison ==
    [u \in Upload |-> IF u[1] = 1 THEN {"transient", "login", "record"}
                                  ELSE {"accepted", "transient"}]
=============================================================================
