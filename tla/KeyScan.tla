------------------------------- MODULE KeyScan -------------------------------
(***************************************************************************)
(* The key scanner (skyswitch.c:605-701): one scan of the key pins every   *)
(* 50 ms turns presses into messages for the main loop, a short press when *)
(* the keys are let go, a long press while they are still held.            *)
(***************************************************************************)
EXTENDS Integers

CONSTANTS
  Keys,      \* the keys, bits of keyval
  MaxPress   \* MAXPRESSTIME_5S, in scans

ASSUME KeyAssumption == MaxPress \in Nat \ {0}

VARIABLES
  keystatus,   \* state of the scanner
  presstime,   \* scans for which a press has been confirmed
  oldkeypress, \* the keys the press began with
  keymsg,      \* mSwitchManager.keyval and .keymode, or NoMsg
  run          \* history: the latest run of scans that saw the same keys

keyVars == <<keystatus, presstime, oldkeypress, keymsg, run>>

NoMsg == [mode |-> "none"]
Short(keys) == [mode |-> "short", val |-> keys]
Long(keys) == [mode |-> "long", val |-> keys]
Messages == {Short(k) : k \in SUBSET Keys} \cup {Long(k) : k \in SUBSET Keys}

LongRun == MaxPress + 2       \* the scans of a long press
RunBound == LongRun + 1       \* bound: scans of a run are counted up to here

KeyTypeOK ==
  /\ keystatus \in {"init", "press", "confirm", "release"}
  /\ presstime \in 0 .. MaxPress
  /\ oldkeypress \in SUBSET Keys
  /\ keymsg \in Messages \cup {NoMsg}
  /\ run \in [keys : SUBSET Keys, n : 0 .. RunBound, on : BOOLEAN]

KeyInit ==
  /\ keystatus = "init" /\ presstime = 0
  /\ oldkeypress = {}
  /\ keymsg = NoMsg
  /\ run = [keys |-> {}, n |-> 0, on |-> FALSE]

-----------------------------------------------------------------------------
(* One scan that reads the keys p, state by state.  It comes right after a *)
(* pass of the main loop, which takes the message of an earlier scan away. *)

ScanInit(p) ==
  /\ keystatus = "init"
  /\ IF p # {}
     THEN presstime' = 0 /\ keystatus' = "press" /\ oldkeypress' = p
     ELSE UNCHANGED <<presstime, keystatus, oldkeypress>>
  /\ keymsg' = NoMsg

BlindPress(p) == keystatus = "press" \/ p # {}                  \* mutant
SamePress(p) == p # {} /\ p = oldkeypress

ScanPress(p) ==
  /\ keystatus = "press"
  /\ keystatus' = IF SamePress(p) THEN "confirm" ELSE "init"
  /\ keymsg' = NoMsg
  /\ UNCHANGED <<presstime, oldkeypress>>

(* The count stops at MaxPress, where the long press is reported.          *)
CountsOn == presstime + 1                                       \* mutant
NeverCounts == presstime                                        \* mutant
Counted == IF presstime < MaxPress THEN presstime + 1 ELSE presstime

ScanConfirm(p) ==
  /\ keystatus = "confirm"
  /\ IF SamePress(p)
     THEN /\ presstime' = Counted
          /\ keymsg' = IF presstime < MaxPress /\ Counted = MaxPress
                       THEN Long(oldkeypress) ELSE NoMsg
          /\ UNCHANGED keystatus
     ELSE /\ keystatus' = IF p = {} THEN "release" ELSE "init"
          /\ keymsg' = NoMsg
          /\ UNCHANGED presstime
  /\ UNCHANGED oldkeypress

(* The scan after the keys were let go does not look at the pins.          *)
EveryRelease == TRUE                                            \* mutant
WasShort == presstime < MaxPress

ScanRelease ==
  /\ keystatus = "release" /\ keystatus' = "init"
  /\ IF WasShort THEN keymsg' = Short(oldkeypress) /\ UNCHANGED presstime
                 ELSE keymsg' = NoMsg /\ presstime' = 0
  /\ UNCHANGED oldkeypress

RunWith(p) ==
  IF p = {} THEN [run EXCEPT !.on = FALSE]
  ELSE IF run.on /\ run.keys = p
  THEN [run EXCEPT !.n = IF @ = RunBound THEN @ ELSE @ + 1]
  ELSE [keys |-> p, n |-> 1, on |-> TRUE]

Scan(p) ==
  /\ ScanInit(p) \/ ScanPress(p) \/ ScanConfirm(p) \/ ScanRelease
  /\ run' = RunWith(p)

(* HAL_Switch_Is_Relese: no message waits and no key is down or being      *)
(* scanned.                                                                *)
Is_Relese(p) == keymsg = NoMsg /\ keystatus = "init" /\ p = {}

-----------------------------------------------------------------------------
(* A message names keys that were really held: a short press for two scans *)
(* in a row and then let go, a long press for the whole time of it.        *)
MessageIsPress ==
  [][ keymsg' # keymsg /\ keymsg' # NoMsg =>
        \/ keymsg' = Short(run.keys) /\ run.n >= 2 /\ ~run.on
        \/ keymsg' = Long(run'.keys) /\ run'.n >= LongRun /\ run'.on ]_keyVars

(* A press is either short or long: letting go after a long press (which   *)
(* clears the mesh node) does not also toggle the switch.  The scan that   *)
(* ends the press before is blind, which may cost a press one scan.        *)
ShortXorLong ==
  [][ keymsg' # keymsg /\ keymsg'.mode = "short" => run.n <= LongRun ]_keyVars
=============================================================================
