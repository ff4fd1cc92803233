--------------------------- MODULE MCNotifyDevices ---------------------------
(* NotifyDevices on small instances: two sessions, two users.              *)
EXTENDS NotifyDevices, TLC

CONSTANTS c1, c2, u1, u2, e1, e2, k1, k2

DeviceSymmetry ==
  Permutations({c1, c2}) \cup Permutations({u1, u2}) \cup Permutations({e1, e2})
=============================================================================
