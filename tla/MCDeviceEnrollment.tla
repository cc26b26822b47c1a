------------------------ MODULE MCDeviceEnrollment ------------------------
(***************************************************************************)
(* Instances of DeviceEnrollment for TLC: how many loops run and which     *)
(* faults may happen.                                                      *)
(***************************************************************************)
EXTENDS DeviceEnrollment, TLC

Faults(revoke, lost, crash, torn, io, undecryptable, reinstall, stale) ==
    [k \in FaultKinds |->
        CASE k = "revoke" -> revoke [] k = "lost" -> lost [] k = "crash" -> crash
          [] k = "torn" -> torn [] k = "io" -> io
          [] k = "undecryptable" -> undecryptable [] k = "reinstall" -> reinstall
          [] k = "stale" -> stale]

\* Every kind of fault of one loop, one of each, two crashes so that the file outlives a boot.
EveryFault == Faults(1, 1, 2, 1, 1, 1, 1, 0)

\* Of racing recoveries: one revocation, lost answer, I/O error and stale copy of Options.
RecoveryFaults == Faults(1, 1, 0, 0, 1, 0, 0, 1)
===========================================================================
