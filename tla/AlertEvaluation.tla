--------------------------- MODULE AlertEvaluation ---------------------------
(***************************************************************************)
(* The evaluation of one alert policy, sample by sample: pending, firing,  *)
(* resolved, with a number of consecutive breaches, a cooldown between     *)
(* notifications and a deduplication key.  A sample may be an error, empty *)
(* or too small; none of these may look healthy.                           *)
(***************************************************************************)
EXTENDS Integers, Sequences

CONSTANTS
  Policies,    \* policies: threshold, recovery value, breaches, healthy, cooldown
  Values,      \* what can be measured
  Keys,        \* the deduplication keys that samples of one policy carry
  NoKey,       \* no incident is open
  Unstated,    \* what a policy need not say and does not
  MaxMinute,   \* bound: the time
  MaxNotes     \* bound: notifications

(* What validateAlertPolicy asks for: breaches is an integer, zero and     *)
(* less included, the cooldown a minute at least; the threshold, the       *)
(* recovery value and the number of healthy samples are not looked at.     *)
ASSUME PolicyAssumption ==
  /\ \A p \in Policies : /\ {p.threshold, p.recovery, p.healthy} \subseteq Int \cup {Unstated}
                         /\ p.breaches \in Int /\ p.cooldown \in Nat \ {0}
  /\ Unstated \notin Int
  /\ Values \subseteq Int /\ NoKey \notin Keys
  /\ MaxMinute \in Nat /\ MaxNotes \in Nat

NotYet == -1   \* no notification has been sent

VARIABLES
  policy,
  minute,      \* the time of the last sample
  alert,       \* createAlertState: status, counters, last notification, open key
  notes,       \* the notifications, newest last, with their minutes
  streak,      \* history: breaches in a row among the samples that could be judged
  healed       \* history: samples within the recovery value since the last breach

alertVars == <<policy, minute, alert, notes, streak, healed>>

NewAlert ==
  [status |-> "HEALTHY", breaches |-> 0, healthy |-> 0, last |-> NotYet, open |-> NoKey]

Note(type, key, now) == [type |-> type, key |-> key, at |-> now]

(* Nothing is above a threshold that is not there.  A policy may leave it  *)
(* to the sample to say that it is recovered.                              *)
Breaches(value) == policy.threshold # Unstated /\ value > policy.threshold
Recovers(value, observed) ==
  IF policy.recovery = Unstated THEN observed ELSE value <= policy.recovery

Later == minute' \in minute..MaxMinute

(* A failed query or an empty answer leaves the counters as they are.      *)
Unusable ==
  /\ \E status \in {"QUERY_ERROR", "NO_DATA"} : alert' = [alert EXCEPT !.status = status]
  /\ Later
  /\ UNCHANGED <<policy, notes, streak, healed>>

TooSmall ==
  /\ alert' = [alert EXCEPT !.status = "INSUFFICIENT_SAMPLE", !.breaches = 0]
  /\ streak' = 0
  /\ Later
  /\ UNCHANGED <<policy, notes, healed>>

CooledDown(now) == alert.last = NotYet \/ now - alert.last >= policy.cooldown

Enough == alert.breaches + 1 >= policy.breaches

Fires(key, now) == Enough /\ alert.open # key /\ CooledDown(now)

(* A plausible bug: the time of the notification is not kept.              *)
BreachForgetsTime(key) ==
  /\ Later
  /\ streak' = streak + 1 /\ healed' = 0
  /\ IF Fires(key, minute')
       THEN /\ Len(notes) < MaxNotes
            /\ alert' = [alert EXCEPT !.status = "FIRING", !.breaches = @ + 1, !.healthy = 0,
                                      !.open = key]
            /\ notes' = Append(notes, Note("firing", key, minute'))
       ELSE /\ alert' = [alert EXCEPT !.breaches = @ + 1, !.healthy = 0]
            /\ UNCHANGED notes
  /\ UNCHANGED policy

Breach(key) ==
  /\ Later
  /\ streak' = streak + 1 /\ healed' = 0
  /\ IF Fires(key, minute')
       THEN /\ Len(notes) < MaxNotes
            /\ alert' = [alert EXCEPT !.status = "FIRING", !.breaches = @ + 1, !.healthy = 0,
                                      !.open = key, !.last = minute']
            /\ notes' = Append(notes, Note("firing", key, minute'))
       ELSE /\ alert' = [alert EXCEPT !.status = IF Enough THEN "FIRING" ELSE "PENDING",
                                      !.breaches = @ + 1, !.healthy = 0]
            /\ UNCHANGED notes
  /\ UNCHANGED policy

(* Anything else: a step towards recovery when an incident is open and the *)
(* value within the recovery value, and healthy in every case.             *)
NoBreach(recovers) ==
  /\ Later
  /\ streak' = 0
  /\ healed' = IF recovers THEN healed + 1 ELSE healed
  /\ LET steps == alert.open # NoKey /\ recovers
         healthy == IF steps THEN alert.healthy + 1 ELSE alert.healthy
     IN  IF steps /\ policy.healthy # Unstated /\ healthy >= policy.healthy
           THEN /\ Len(notes) < MaxNotes
                /\ alert' = [alert EXCEPT !.status = "RESOLVED", !.breaches = 0,
                                          !.healthy = healthy, !.open = NoKey]
                /\ notes' = Append(notes, Note("resolved", alert.open, minute'))
           ELSE /\ alert' = [alert EXCEPT !.status = "HEALTHY", !.breaches = 0, !.healthy = healthy]
                /\ UNCHANGED notes
  /\ UNCHANGED policy

Measured ==
  \E value \in Values, key \in Keys, observed \in BOOLEAN :
    IF Breaches(value) THEN Breach(key) ELSE NoBreach(Recovers(value, observed))

AlertInit ==
  /\ policy \in Policies
  /\ minute = 0 /\ alert = NewAlert /\ notes = <<>> /\ streak = 0 /\ healed = 0

AlertNext == Unusable \/ TooSmall \/ Measured

AlertSpec == AlertInit /\ [][AlertNext]_alertVars

(***************************************************************************)
(* Properties                                                              *)
(***************************************************************************)

(* Two notifications of a breach are at least the cooldown apart, whatever *)
(* keys they carry and whether the incident was resolved in between.       *)
CooldownBetweenFirings ==
  \A m, n \in DOMAIN notes :
    m < n /\ notes[m].type = "firing" /\ notes[n].type = "firing"
      => notes[n].at - notes[m].at >= policy.cooldown

(* An incident is opened, notified and closed once: what is resolved is    *)
(* the incident of the notification just before, and it is not notified    *)
(* twice in a row.                                                         *)
IncidentsAlternate ==
  \A n \in DOMAIN notes :
    IF notes[n].type = "resolved"
      THEN n > 1 /\ notes[n - 1] = [notes[n - 1] EXCEPT !.type = "firing", !.key = notes[n].key]
      ELSE n > 1 /\ notes[n - 1].type = "firing" => notes[n - 1].key # notes[n].key

(* A breach is only notified after so many in a row that could be judged:  *)
(* a sample that is too small interrupts them, one that failed does not.   *)
FiringIsEarned ==
  [][Len(notes') > Len(notes) /\ notes'[Len(notes')].type = "firing"
       => streak' >= policy.breaches]_alertVars

(* An incident is only resolved after so many samples within the recovery  *)
(* value since its last breach.                                            *)
ResolutionIsEarned ==
  [][Len(notes') > Len(notes) /\ notes'[Len(notes')].type = "resolved"
       => policy.healthy # Unstated /\ healed' >= policy.healthy]_alertVars

AlertTypeOK ==
  /\ alert.status \in {"HEALTHY", "PENDING", "FIRING", "RESOLVED", "NO_DATA", "QUERY_ERROR",
                       "INSUFFICIENT_SAMPLE"}
  /\ alert.open \in Keys \cup {NoKey}
  /\ alert.breaches \in Nat /\ alert.healthy \in Nat
  /\ alert.last \in {NotYet} \cup 0..minute
  /\ alert.open # NoKey => alert.last # NotYet

(***************************************************************************)
(* The inductive invariant behind AlertingSound.                           *)
(***************************************************************************)
Notes == [type : {"firing", "resolved"}, key : Keys, at : Nat]

Alerts ==
  [status : {"HEALTHY", "PENDING", "FIRING", "RESOLVED", "NO_DATA", "QUERY_ERROR",
             "INSUFFICIENT_SAMPLE"},
   breaches : Nat, healthy : Nat, last : Int, open : Keys \cup {NoKey}]

AlertShape ==
  /\ policy \in Policies /\ minute \in Nat /\ streak \in Nat /\ healed \in Nat
  /\ alert \in Alerts /\ notes \in Seq(Notes)

(* The counters of the state never run ahead of what was measured.         *)
CountersOK == alert.breaches <= streak /\ alert.healthy <= healed

(* The open incident is the one the last notification opened.              *)
OpenOK ==
  IF alert.open = NoKey
    THEN notes # <<>> => notes[Len(notes)].type = "resolved"
    ELSE notes # <<>> /\ notes[Len(notes)].type = "firing" /\ notes[Len(notes)].key = alert.open

(* The cooldown counts from the newest notification of a breach.           *)
LastOK ==
  /\ alert.last <= minute
  /\ alert.last = NotYet \/ alert.last >= 0
  /\ \A n \in DOMAIN notes :
       notes[n].type = "firing" => alert.last # NotYet /\ notes[n].at <= alert.last

AlertInv ==
  /\ AlertShape /\ CountersOK /\ OpenOK /\ LastOK
  /\ CooldownBetweenFirings /\ IncidentsAlternate
=============================================================================
