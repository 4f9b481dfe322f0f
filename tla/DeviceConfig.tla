---------------------------- MODULE DeviceConfig ----------------------------
(***************************************************************************)
(* What the configuration store promises its users, with slots, heads,     *)
(* tombstones and power cuts abstracted away: the device has at most one   *)
(* stored configuration; a Wi-Fi update replaces it in one step by its     *)
(* immediate successor revision; a factory reset removes it in one step,   *)
(* and nothing that was removed or replaced ever comes back.               *)
(***************************************************************************)
EXTENDS Naturals

CONSTANTS Configs,       \* the configurations (settings and secrets) a device may hold
          NoConfig,      \* "no configuration"
          MaxRevision    \* the largest revision number (UINT32_MAX in the code)

VARIABLE stored

Missing == [rev |-> 0, cfg |-> NoConfig]

Init == stored \in {Missing} \cup [rev : 1..MaxRevision, cfg : Configs]

\* A committed Wi-Fi update.
Update(c) ==
  /\ stored # Missing
  /\ stored.rev < MaxRevision
  /\ stored' = [rev |-> stored.rev + 1, cfg |-> c]

\* The durable decision to factory-reset the device.
Wipe == stored' = Missing

Next == Wipe \/ \E c \in Configs : Update(c)

Spec == Init /\ [][Next]_stored
=============================================================================
