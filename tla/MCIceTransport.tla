--------------------------- MODULE MCIceTransport ---------------------------
(* A native node and a browser, either of which offers; two candidates at    *)
(* one end and one at the other; a dialler and a sender at the offerer,      *)
(* messages of two chunks, one break.                                        *)
EXTENDS IceTransport

CONSTANTS t1, t2

MCBuilds == {b \in [End -> {"native", "browser"}] : b["offerer"] # b["answerer"]}
MCCandidate == [e \in End |-> IF e = "offerer" THEN {1, 2} ELSE {1}]
MCTask == {t1, t2}
MCDialler == {t1}
MCEndOf == [t \in MCTask |-> "offerer"]
=============================================================================
