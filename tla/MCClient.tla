------------------------------ MODULE MCClient ------------------------------
(* Client on a small instance: two files of which one strands its receiver.*)
EXTENDS Client

(* A device with an empty sync_dir, and any files on the server.           *)
NewDeviceInit == Init /\ local = {}
NewDevice == NewDeviceInit /\ [][Next]_vars /\ Fairness

=============================================================================
