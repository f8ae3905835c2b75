------------------------------- MODULE Pairing -------------------------------
(***************************************************************************)
(* How the device joins a mesh network and leaves it, and what of that     *)
(* survives a power cut: App_Init and driver_init, the key that unpairs,   *)
(* the provisioning callbacks (device_app.c), the two timers that end the  *)
(* pairing mode, the blink after success and the reset timer               *)
(* (app_skyiot_server.c:1068-1348, 1362-1407, 2161-2216).                  *)
(*                                                                         *)
(* Flash holds two records: the node of the mesh stack and the config of   *)
(* the application, whose process_state is 0x55 in pairing mode and 0xFF   *)
(* otherwise.  A config that does not verify makes the next boot clear the *)
(* node.                                                                   *)
(***************************************************************************)
EXTENDS Integers, Sequences

CONSTANTS
  MaxCuts,   \* bound: power cuts
  MaxPresses \* bound: long presses

ASSUME PairingAssumption == MaxCuts \in Nat /\ MaxPresses \in Nat

VARIABLES
  node,       \* flash, mesh stack: "prov" or "unprov"
  cfg,        \* flash, config: its process_state, or "bad"
  state,      \* mIotManager.process_state
  pc,         \* off, booting, in the main loop, or saving the config
  prov,       \* SkyBleMesh_IsProvision_Sate
  beacon,     \* an unprovisioned device can be found
  link,       \* a provisioner is at work
  unprov,     \* skyble_unprov_timer runs
  changescan, \* skyble_changescan_timer runs
  blink,      \* the blink after success: "none", "blink", "lit"
  resetting,  \* skyblereset_timer runs
  queue,      \* messages of the two timers to the app task
  held,       \* the unprov bit of DlpsCtrlStatu_t keeps the chip awake
  cuts, presses,
  asked       \* history: a long press asked for pairing mode, and nothing
              \* has ended that mode since

radio == <<prov, beacon, link>>
oneshots == <<unprov, changescan, queue>>
vars == <<node, cfg, state, pc, radio, oneshots, blink, resetting, held, cuts,
          presses, asked>>

(* While saving: what follows the save.                                    *)
Saving == {"save", "save, reset", "save, release"}
Running == {"run"} \cup Saving

TypeOK ==
  /\ node \in {"prov", "unprov"}
  /\ cfg \in {"55", "FF", "bad"}
  /\ state \in {"55", "FF"}
  /\ pc \in {"off", "boot save"} \cup Running
  /\ prov \in BOOLEAN /\ beacon \in BOOLEAN /\ link \in BOOLEAN
  /\ unprov \in BOOLEAN /\ changescan \in BOOLEAN
  /\ blink \in {"none", "blink", "lit"}
  /\ resetting \in BOOLEAN /\ held \in BOOLEAN
  /\ queue \in Seq({"unprov", "prov"}) /\ Len(queue) <= 2
  /\ cuts \in 0 .. MaxCuts /\ presses \in 0 .. MaxPresses
  /\ asked \in BOOLEAN

(* Flashing a new program keeps what the mesh stack stored, so that the    *)
(* first boot may find a node without a config of its own.                 *)
Init ==
  /\ node \in {"prov", "unprov"}
  /\ cfg = "bad"
  /\ state = "FF" /\ pc = "off"
  /\ prov = FALSE /\ beacon = FALSE /\ link = FALSE
  /\ unprov = FALSE /\ changescan = FALSE /\ queue = <<>>
  /\ blink = "none" /\ resetting = FALSE /\ held = FALSE
  /\ cuts = 0 /\ presses = 0
  /\ asked = FALSE

-----------------------------------------------------------------------------
(* Booting.                                                                *)

(* driver_init                                                             *)
StartDrivers(n) ==
  /\ pc' = "run"
  /\ unprov' = (n = "unprov") /\ held' = (n = "unprov")
  /\ changescan' = (n = "prov")
  /\ beacon' = (n = "unprov")
  /\ UNCHANGED <<prov, link, queue, blink, resetting, cuts, presses>>

(* App_Init with a config that verifies                                    *)
Boot ==
  /\ pc = "off" /\ cfg # "bad"
  /\ state' = cfg
  /\ StartDrivers(node)
  /\ asked' = FALSE
  /\ UNCHANGED <<node, cfg>>

(* ... and with one that does not: mesh_node_clear, then a new config.     *)
BootBad ==
  /\ pc = "off" /\ cfg = "bad"
  /\ node' = "unprov"
  /\ state' = "FF" /\ pc' = "boot save"
  /\ UNCHANGED <<cfg, radio, oneshots, blink, resetting, held, cuts, presses,
                 asked>>

BootSaved ==
  /\ pc = "boot save"
  /\ cfg' = state
  /\ StartDrivers(node)
  /\ asked' = FALSE
  /\ UNCHANGED <<node, state>>

(* The stack reports that it is up: PROV_CB_TYPE_PROV.                     *)
StackReady ==
  /\ pc = "run" /\ node = "prov" /\ ~prov
  /\ prov' = TRUE
  /\ UNCHANGED <<node, cfg, state, pc, beacon, link, oneshots, blink,
                 resetting, held, cuts, presses, asked>>

-----------------------------------------------------------------------------
(* Provisioning.                                                           *)

LinkOpen ==
  /\ pc = "run" /\ node = "unprov" /\ beacon /\ ~link
  /\ link' = TRUE
  /\ UNCHANGED <<node, cfg, state, pc, prov, beacon, oneshots, blink,
                 resetting, held, cuts, presses, asked>>

LinkFails ==
  /\ pc = "run" /\ link
  /\ link' = FALSE
  /\ UNCHANGED <<node, cfg, state, pc, prov, beacon, oneshots, blink,
                 resetting, held, cuts, presses, asked>>

(* PROV_CB_TYPE_COMPLETE: the timer is deleted, its message, if it has     *)
(* sent one, is not; the other timer ends pairing mode in its place.       *)
LeavesItRunning == changescan                                   \* mutant
Started == TRUE

Complete ==
  /\ pc = "run" /\ link
  /\ node' = "prov"
  /\ link' = FALSE /\ prov' = TRUE
  /\ unprov' = FALSE /\ changescan' = Started
  /\ blink' = IF blink = "none" THEN "blink" ELSE blink
  /\ UNCHANGED <<cfg, state, pc, beacon, queue, resetting, held, cuts,
                 presses, asked>>

-----------------------------------------------------------------------------
(* The timer task, also while the app task is saving.                      *)

Periodic == TRUE                                                \* mutant
OneShot == FALSE

UnprovTimeout ==
  /\ pc \in Running /\ unprov
  /\ unprov' = OneShot
  /\ queue' = Append(queue, "unprov")
  /\ UNCHANGED <<node, cfg, state, pc, radio, changescan, blink, resetting,
                 held, cuts, presses, asked>>

ChangeScanTimeout ==
  /\ pc \in Running /\ changescan
  /\ changescan' = FALSE
  /\ queue' = Append(queue, "prov")
  /\ UNCHANGED <<node, cfg, state, pc, radio, unprov, blink, resetting, held,
                 cuts, presses, asked>>

(* SkyBleMesh_Prov_Success_Timeout_cb: 16 times on, then lit, then the     *)
(* provisioned event, upon which the device reports.                       *)
BlinkTick ==
  /\ pc \in Running /\ blink # "none"
  /\ IF blink = "blink" THEN blink' = "lit" /\ UNCHANGED held
                        ELSE blink' = "none" /\ held' = FALSE
  /\ UNCHANGED <<node, cfg, state, pc, radio, oneshots, resetting, cuts,
                 presses, asked>>

-----------------------------------------------------------------------------
(* The app task.                                                           *)

Received(m) == pc = "run" /\ queue # <<>> /\ Head(queue) = m

(* 0x55 becomes 0xFF and is saved, or the app task goes on at once.        *)
ForgetsToSave(next) == pc' = "run"                              \* mutant
SaveThen(next) == pc' = next

EndPairing(next) ==
  /\ IF state = "55"
     THEN state' = "FF" /\ SaveThen(next) /\ asked' = FALSE
     ELSE UNCHANGED <<state, pc, asked>>
  /\ UNCHANGED <<node, cfg, unprov, changescan, prov, link, blink, resetting,
                 cuts, presses>>

StaysHeld == held                                               \* mutant
Released == FALSE

HandleUnprov ==
  /\ Received("unprov") /\ queue' = Tail(queue)
  /\ beacon' = FALSE
  /\ held' = Released
  /\ EndPairing("save")

(* Here the chip is released after the save.                               *)
HandleProv ==
  /\ Received("prov") /\ queue' = Tail(queue)
  /\ EndPairing("save, release")
  /\ held' = IF state = "55" THEN held ELSE FALSE
  /\ UNCHANGED beacon

(* A short press in pairing mode ends it and restarts the device.          *)
ShortPress ==
  /\ pc = "run" /\ state = "55"
  /\ EndPairing("save, reset")
  /\ UNCHANGED <<beacon, queue, held>>

(* A long press: mesh_node_clear first, which is taken to drop a           *)
(* provisioner's link too, then the config.  It takes longer than the      *)
(* 1.65 s that a pending reset needs.                                      *)
NeverPairs == state                                             \* mutant
AskedState == "55"

LongPress ==
  /\ pc = "run" /\ ~resetting
  /\ presses < MaxPresses /\ presses' = presses + 1
  /\ node' = "unprov" /\ beacon' = FALSE /\ link' = FALSE
  /\ IF state = "55"
     THEN pc' = "run" /\ resetting' = TRUE /\ UNCHANGED state
     ELSE pc' = "save, reset" /\ state' = AskedState /\ UNCHANGED resetting
  /\ asked' = TRUE
  /\ UNCHANGED <<cfg, prov, oneshots, blink, held, cuts>>

(* SkyBleMesh_WriteConfig returns.                                         *)
Saved ==
  /\ pc \in Saving /\ pc' = "run"
  /\ cfg' = state
  /\ resetting' = (resetting \/ pc = "save, reset")
  /\ held' = (held /\ pc # "save, release")
  /\ UNCHANGED <<node, state, radio, oneshots, blink, cuts, presses, asked>>

-----------------------------------------------------------------------------
(* A save that is cut leaves the old config, the new one, or neither.      *)
Flashed ==
  IF pc \in Saving \cup {"boot save"} THEN {cfg, state, "bad"} ELSE {cfg}

TurnOff ==
  /\ cfg' \in Flashed
  /\ state' = "FF" /\ pc' = "off"
  /\ prov' = FALSE /\ beacon' = FALSE /\ link' = FALSE
  /\ unprov' = FALSE /\ changescan' = FALSE /\ queue' = <<>>
  /\ blink' = "none" /\ resetting' = FALSE /\ held' = FALSE
  /\ UNCHANGED <<node, presses>>

PowerCut ==
  /\ pc # "off" /\ cuts < MaxCuts /\ cuts' = cuts + 1
  /\ TurnOff
  /\ asked' = FALSE

(* The reset timer ends in WDG_SystemReset, in the timer task.             *)
Reset ==
  /\ pc \in Running /\ resetting
  /\ TurnOff
  /\ UNCHANGED <<cuts, asked>>

BootStep == Boot \/ BootBad \/ BootSaved \/ StackReady
AppStep == HandleUnprov \/ HandleProv \/ Saved
Next ==
  \/ BootStep \/ AppStep
  \/ LinkOpen \/ LinkFails \/ Complete
  \/ UnprovTimeout \/ ChangeScanTimeout \/ BlinkTick
  \/ ShortPress \/ LongPress
  \/ PowerCut \/ Reset

Spec == Init /\ [][Next]_vars

(* The device boots, its timers run out and the app task handles their     *)
(* messages; keys, provisioners and power cuts owe nothing.                *)
FairSpec ==
  /\ Spec
  /\ WF_vars(BootStep) /\ WF_vars(AppStep)
  /\ WF_vars(UnprovTimeout) /\ WF_vars(ChangeScanTimeout)
  /\ WF_vars(BlinkTick) /\ WF_vars(Reset)

-----------------------------------------------------------------------------
(* Between two saves the flash holds the state the program is in, so that  *)
(* a power cut there does not make the next boot clear the node.           *)
ConfigIsSaved == pc = "run" => cfg = state

(* A long press unpairs: the reset it ends in comes up in pairing mode and *)
(* with an empty node, unless the mode was ended before the reset.         *)
LongPressPairs == pc = "off" /\ asked => cfg = "55" /\ node = "unprov"

(* Pairing mode, which keeps the chip awake, ends by itself.               *)
PairingEnds == cfg = "55" ~> cfg = "FF"

(* The hold of the unprovisioned device ends, however provisioning goes.   *)
HoldEnds == held ~> ~held
=============================================================================
