---------------------------- MODULE LabKillSwitch ----------------------------
(***************************************************************************)
(* The lab's kill switch, scripts/lab/kill-switch.mjs: under an exclusive  *)
(* lock file it closes the reverse proxy's gate, publishes the global      *)
(* control document and sets the delivery hold; and in reverse order to    *)
(* switch off.  A detached daemon re-stamps the document before it expires *)
(* (runtime-control-refresh-daemon.mjs), without the lock.                 *)
(***************************************************************************)
EXTENDS ControlPlane

CONSTANTS
  Lab,          \* lab:kill-switch commands that can run at the same time
  NoOne         \* the lock file does not exist

ASSUME NoOneAssumption == NoOne \notin Lab

VARIABLES
  lab,      \* the running kill-switch commands
  lock,     \* who created the lock file
  proxy,    \* the gate of the running reverse proxy: "open" or "closed"
  daemon,   \* the document the daemon is about to write
  wanted,   \* history: the switch as the last command meant to leave it
  decided   \* history: who decided what the global document says: a command
            \* of the "lab", an "operator", or a refresh of the "daemon" that
            \* wrote back what a command had replaced

labVars == <<lab, lock, proxy, daemon, wanted, decided>>

IdleLab == [step |-> "idle", active |-> FALSE, document |-> NoDocument]

(* buildRuntimeControlDocument counts on from the global document alone.   *)
NextLabDocument(active) == NewDocument(files[Global].revision + 1, active)

LabGoes(l, step) == lab' = [lab EXCEPT ![l].step = step]

(* killSwitchOn or killSwitchOff is called and tries to create the lock.   *)
LabBegin(l, active) ==
  /\ lab[l].step = "idle"
  /\ Spend
  /\ lab' = [lab EXCEPT ![l] = [IdleLab EXCEPT !.step = "lock", !.active = active]]
  /\ UNCHANGED <<files, hold, op, now, deaths>>
  /\ UNCHANGED <<lock, proxy, daemon, wanted, decided>>

(* A plausible bug: the lock is not exclusive.                             *)
LabLockShared(l) ==
  /\ lab[l].step = "lock"
  /\ lock' = l
  /\ LabGoes(l, IF lab[l].active THEN "gate" ELSE "build")
  /\ wanted' = IF lab[l].active THEN wanted ELSE "off"
  /\ UNCHANGED <<controlVars, proxy, daemon, decided>>

(* On closes the gate first; off publishes first.                          *)
LabLock(l) ==
  /\ lab[l].step = "lock"
  /\ lock = NoOne
  /\ lock' = l
  /\ LabGoes(l, IF lab[l].active THEN "gate" ELSE "build")
  /\ wanted' = IF lab[l].active THEN wanted ELSE "off"
  /\ UNCHANGED <<controlVars, proxy, daemon, decided>>

(* After fifty attempts the command gives up.                              *)
LabGivesUp(l) ==
  /\ lab[l].step = "lock"
  /\ lock # NoOne
  /\ lab' = [lab EXCEPT ![l] = IdleLab]
  /\ UNCHANGED <<controlVars, lock, proxy, daemon, wanted, decided>>

LabReturns(l) ==
  /\ lab' = [lab EXCEPT ![l] = IdleLab]
  /\ lock' = NoOne

(* writeProxyGate and reloadReverseProxy; a failed reload throws, and the  *)
(* proxy keeps running as it was.                                          *)
SetProxyGate(l) ==
  /\ lab[l].step = "gate"
  /\ \/ /\ proxy' = IF lab[l].active THEN "closed" ELSE "open"
        /\ IF lab[l].active THEN LabGoes(l, "build") /\ UNCHANGED lock
                            ELSE LabReturns(l)
     \/ UNCHANGED proxy /\ LabReturns(l)
  /\ UNCHANGED <<controlVars, daemon, wanted, decided>>

BuildLabDocument(l) ==
  /\ lab[l].step = "build"
  /\ lab' = [lab EXCEPT ![l].step = "publish",
                        ![l].document = NextLabDocument(lab[l].active)]
  /\ UNCHANGED <<controlVars, lock, proxy, daemon, wanted, decided>>

PublishLabDocument(l) ==
  /\ lab[l].step = "publish"
  /\ files' = [files EXCEPT ![Global] = lab[l].document]
  /\ decided' = "lab"
  /\ LabGoes(l, "deliver")
  /\ UNCHANGED <<hold, op, now, commands, deaths>>
  /\ UNCHANGED <<lock, proxy, daemon, wanted>>

(* writeDeliveryControl; on is complete now, off still opens the gate.     *)
WriteDeliveryControl(l) ==
  /\ lab[l].step = "deliver"
  /\ hold' = lab[l].active
  /\ IF lab[l].active THEN LabReturns(l) /\ wanted' = "on"
                      ELSE LabGoes(l, "gate") /\ UNCHANGED <<lock, wanted>>
  /\ UNCHANGED <<files, op, now, commands, deaths>>
  /\ UNCHANGED <<proxy, daemon, decided>>

(* The command is killed; its lock file stays.                             *)
LabDies(l) ==
  /\ lab[l].step \notin {"idle", "lock"}
  /\ Dies
  /\ lab' = [lab EXCEPT ![l] = IdleLab]
  /\ UNCHANGED <<files, hold, op, now, commands>>
  /\ UNCHANGED <<lock, proxy, daemon, wanted, decided>>

(* refreshRuntimeControl reads the document on file ...                    *)
DaemonReads ==
  /\ daemon = NoDocument
  /\ Spend
  /\ daemon' = NextLabDocument(files[Global].active)
  /\ UNCHANGED <<files, hold, op, now, deaths>>
  /\ UNCHANGED <<lab, lock, proxy, wanted, decided>>

(* ... and writes it again, re-stamped.                                    *)
DaemonWrites ==
  /\ daemon # NoDocument
  /\ files' = [files EXCEPT ![Global] = daemon]
  /\ daemon' = NoDocument
  /\ decided' = IF daemon.active = files[Global].active THEN decided ELSE "daemon"
  /\ UNCHANGED <<hold, op, now, commands, deaths>>
  /\ UNCHANGED <<lab, lock, proxy, wanted>>

LabStep ==
  \/ \E l \in Lab :
       \/ \E active \in BOOLEAN : LabBegin(l, active)
       \/ LabLock(l)
       \/ LabGivesUp(l)
       \/ SetProxyGate(l)
       \/ BuildLabDocument(l)
       \/ PublishLabDocument(l)
       \/ WriteDeliveryControl(l)
       \/ LabDies(l)
  \/ DaemonReads
  \/ DaemonWrites

LabInit ==
  /\ lab = [l \in Lab |-> IdleLab]
  /\ lock = NoOne
  /\ proxy = "open"
  /\ daemon = NoDocument
  /\ wanted = "off"
  /\ decided = "lab"

LabTypeOK ==
  /\ lab \in [Lab -> [step : {"idle", "lock", "gate", "build", "publish", "deliver"},
                      active : BOOLEAN,
                      document : Document \cup {NoDocument}]]
  /\ lock \in Lab \cup {NoOne}
  /\ proxy \in {"open", "closed"}
  /\ daemon \in Document \cup {NoDocument}
  /\ wanted \in {"on", "off"}
  /\ decided \in {"lab", "operator", "daemon"}
=============================================================================
