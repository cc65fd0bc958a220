--------------------------- MODULE MCFlowAssessment ----------------------------
(* Flows of one device: a regular contact with a public destination, a     *)
(* name that looks generated, an upload, logins on two hosts of the local  *)
(* net, and a beacon with many failures.                                   *)
EXTENDS FlowAssessment

Base == [src |-> "s", dest |-> "d1", net |-> "public", port |-> 443, name |-> "", entropy |-> 0,
         long |-> FALSE, digits |-> FALSE, interval |-> 0, duration |-> 10, packets |-> 20,
         out |-> 8, sent |-> 500, recv |-> 500, failed |-> 0, flags |-> {"S", "A"}]

Contact == Base
Dga     == [Base EXCEPT !.port = 53, !.name = "n1", !.entropy = 43, !.long = TRUE]
Upload  == [Base EXCEPT !.sent = 40000, !.recv = 0, !.duration = 3600, !.flags = {"S"}]
Ssh     == [Base EXCEPT !.dest = "d2", !.net = "10.", !.port = 22]
Smb     == [Base EXCEPT !.dest = "d3", !.net = "10.", !.port = 445]
Beacon  == [Base EXCEPT !.port = 8443, !.interval = 5, !.failed = 15, !.flags = {"S", "R"}]

MCNoAnswer == [xgb |-> -1, anomaly |-> FALSE]

MCFlow    == {Contact, Dga, Upload, Ssh, Smb, Beacon}
MCBatches == {<<Contact>>, <<Dga>>, <<Ssh, Smb>>, <<Ssh, Ssh>>, <<Dga, Beacon, Upload>>}
MCModels  == {[f \in MCFlow |-> MCNoAnswer],
              [f \in MCFlow |-> IF f.interval > 0 THEN [xgb |-> 100, anomaly |-> FALSE]
                                ELSE IF f.net = "public" THEN [xgb |-> 55, anomaly |-> TRUE]
                                ELSE [xgb |-> 0, anomaly |-> FALSE]]}

================================================================================
