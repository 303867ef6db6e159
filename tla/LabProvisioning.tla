--------------------------- MODULE LabProvisioning ---------------------------
(***************************************************************************)
(* lab:purge and lab:up: the secrets, certificates, controls, tokens and   *)
(* pipelines they establish, in files, in OpenObserve and in the           *)
(* containers that read the files when they start.  A command may throw or *)
(* be killed at every step, and is then run again from its beginning.      *)
(***************************************************************************)
EXTENDS Integers, Sequences, FiniteSets

CONSTANTS
  Crashes,   \* commands that throw or are killed, in a behaviour
  Upsets     \* rotations, certificates that near their end, pipelines edited
             \* by others, uses of the kill switch

ASSUME ProvisioningAssumption == Crashes \in Nat /\ Upsets \in Nat

VARIABLES
  stage,       \* the step of the command that is next
  file,        \* the token in each secret file
  issued,      \* the tokens OpenObserve knows
  used,        \* the token each container started with
  changed,     \* tokens whose file this lab:up has replaced
  certs,       \* the CA's key and certificate, the leaf's, the leaf's signer
  served,      \* the leaf the proxy has loaded
  lists,       \* the pipelines on each stream
  posted,      \* the kill switch in each file that carries it
  loaded,      \* the gate the running proxy has loaded
  up,          \* the last lab:up came to its end
  owing,       \* history: what a lab:up left that no later one makes up for
  crashes, upsets

provisioningVars == <<stage, file, issued, used, changed, certs, served, lists, posted,
                      loaded, up, owing, crashes, upsets>>

Token == {"rum", "ops", "read", "write"}
Accounts == {"read", "write"}
Reader(t) == IF t \in Accounts THEN "sync" ELSE "worker"
Container == {"worker", "sync"}
Unset == "unset"      \* no file, or no such container
Piped == {"_rumdata", "_rumlog"}
Control == {"document", "gate", "hold"}
Switch == {"none", "off", "on"}   \* "none": no file, or no proxy that runs

(* What can be owing: a container the token it was to be recreated for, a  *)
(* file the token of an account, a stream its pipeline alone, the leaf its *)
(* key and CA, the proxy a reload of the gate.                             *)
LeafDebt == <<"certs", "leaf">>
GateDebt == <<"proxy", "gate">>
ReaderDebt(c) == {<<"reader", t>> : t \in {u \in Token : Reader(u) = c}}
Debt == ({"reader"} \X Token) \cup ({"account"} \X Accounts) \cup ({"list"} \X Piped)
          \cup {LeafDebt, GateDebt}

(* Serial numbers; 0 is a file that is not there.                          *)
NoCerts == [caKey |-> 0, ca |-> 0, key |-> 0, leaf |-> 0, signer |-> 0, due |-> {}]
NoContainer == [t \in Token |-> Unset]

ProvisioningInit ==
  /\ stage = "idle"
  /\ file = NoContainer /\ issued = {}
  /\ used = [c \in Container |-> NoContainer]
  /\ changed = {} /\ certs = NoCerts /\ served = 0
  /\ lists = [s \in Piped |-> {}]
  /\ posted = [f \in Control |-> "none"] /\ loaded = "none"
  /\ up = FALSE /\ owing = {}
  /\ crashes = Crashes /\ upsets = Upsets

AtStage(step) == stage = step
Between == stage \in {"idle", "refused"}
Proceed(step) == stage' = step
Budgets == UNCHANGED <<crashes, upsets>>

(***************************************************************************)
(* lab:purge: containers and volumes, then the files.                      *)
(***************************************************************************)
PurgeVolumes ==
  /\ Between /\ file # NoContainer
  /\ Proceed("purge files")
  /\ issued' = {} /\ lists' = [s \in Piped |-> {}] /\ served' = 0
  /\ used' = [c \in Container |-> NoContainer]
  /\ file' = [t \in Token |-> IF file[t] = "real" THEN "old" ELSE file[t]]
  /\ up' = FALSE /\ loaded' = "none" /\ owing' = owing \cap {LeafDebt}
  /\ UNCHANGED <<changed, certs, posted>> /\ Budgets

PurgeFiles ==
  /\ AtStage("purge files")
  /\ Proceed("idle")
  /\ file' = NoContainer /\ certs' = NoCerts
  /\ posted' = [f \in Control |-> "none"] /\ owing' = {}
  /\ UNCHANGED <<issued, used, changed, served, lists, loaded, up>> /\ Budgets

(* lab:down: the containers go, the volumes and the files stay.            *)
Down ==
  /\ Between /\ served > 0
  /\ Proceed("idle")
  /\ used' = [c \in Container |-> NoContainer] /\ served' = 0 /\ up' = FALSE
  /\ loaded' = "none" /\ owing' = owing \ (({"reader"} \X Token) \cup {GateDebt})
  /\ UNCHANGED <<file, issued, changed, certs, lists, posted>> /\ Budgets

(***************************************************************************)
(* lab:init, the beginning of lab:up.                                      *)
(***************************************************************************)
EnsureSecrets ==
  /\ Between
  /\ Proceed("ca")
  /\ file' = [t \in Token |-> IF file[t] = Unset THEN "placeholder" ELSE file[t]]
  /\ up' = FALSE /\ changed' = {}
  /\ UNCHANGED <<issued, used, certs, served, lists, posted, loaded, owing>> /\ Budgets

CaValid == certs.caKey > 0 /\ certs.ca > 0 /\ "ca" \notin certs.due
LeafValid == certs.key > 0 /\ certs.leaf > 0 /\ "leaf" \notin certs.due
Serial == 1 + certs.ca + certs.leaf + certs.caKey + certs.key

(* The leaf's certificate comes last, and makes up for a pair that did not *)
(* fit.                                                                    *)
LeafIssued ==
  /\ certs' = [certs EXCEPT !.leaf = certs.key, !.signer = certs.ca, !.due = @ \ {"leaf"}]
  /\ owing' = owing \ {LeafDebt}

(* Each file is moved into place by itself, the key before its             *)
(* certificate; a new CA always signs a new leaf.                          *)
EnsureCertificates ==
  /\ \/ /\ AtStage("ca")
        /\ IF CaValid
           THEN Proceed(IF LeafValid THEN "open" ELSE "leaf key") /\ UNCHANGED certs
           ELSE Proceed("ca certificate") /\ certs' = [certs EXCEPT !.caKey = Serial]
        /\ UNCHANGED owing
     \/ /\ AtStage("ca certificate") /\ Proceed("leaf key")
        /\ certs' = [certs EXCEPT !.ca = certs.caKey, !.due = @ \ {"ca"}]
        /\ UNCHANGED owing
     \/ /\ AtStage("leaf key") /\ Proceed("leaf certificate")
        /\ certs' = [certs EXCEPT !.key = Serial] /\ UNCHANGED owing
     \/ /\ AtStage("leaf certificate") /\ Proceed("open") /\ LeafIssued
  /\ UNCHANGED <<file, issued, used, changed, served, lists, posted, loaded, up>> /\ Budgets

(* A document that is off, an open gate, nothing held: in the files.  A    *)
(* proxy that runs is not told, neither here nor by the rest of lab:up.    *)
Opens(step, f, next) ==
  /\ AtStage(step) /\ Proceed(next)
  /\ posted' = [posted EXCEPT ![f] = "off"]
  /\ owing' = IF f = "gate" /\ loaded = "on" THEN owing \cup {GateDebt} ELSE owing
  /\ UNCHANGED <<file, issued, used, changed, certs, served, lists, loaded, up>> /\ Budgets

OpenControls ==
  \/ Opens("open", "document", "open gate") \/ Opens("open gate", "gate", "open hold")
  \/ Opens("open hold", "hold", "compose up")

(***************************************************************************)
(* lab:up.                                                                 *)
(***************************************************************************)
Started(c) == [t \in Token |-> IF Reader(t) = c THEN file[t] ELSE Unset]

PairFits == certs.key = certs.leaf

(* These containers start, and read the files.                             *)
StartAgain(set) ==
  /\ used' = [c \in Container |-> IF c \in set THEN Started(c) ELSE used[c]]
  /\ owing' = owing \ UNION {ReaderDebt(c) : c \in set}

(* Compose starts the containers that do not run; the others keep what     *)
(* they read when they started.  A proxy with a key that is not its        *)
(* certificate's never becomes healthy.                                    *)
ComposeUp ==
  /\ AtStage("compose up")
  /\ served > 0 \/ PairFits
  /\ Proceed("rum")
  /\ issued' = issued \cup {"rum"}
  /\ StartAgain({c \in Container : used[c] = NoContainer})
  /\ served' = IF served = 0 THEN certs.leaf ELSE served
  /\ loaded' = IF served = 0 THEN posted["gate"] ELSE loaded
  /\ UNCHANGED <<file, changed, certs, lists, posted, up>> /\ Budgets

Persist(t) ==
  /\ file' = [file EXCEPT ![t] = "real"]
  /\ changed' = IF file[t] = "real" THEN changed ELSE changed \cup {t}

FetchRumToken ==
  /\ AtStage("rum") /\ Persist("rum") /\ Proceed("rum containers")
  /\ UNCHANGED <<issued, used, certs, served, lists, posted, loaded, up, owing>> /\ Budgets

CreateOpsToken ==
  /\ AtStage("ops") /\ issued' = issued \cup {"ops"} /\ Proceed("ops file")
  /\ UNCHANGED <<file, used, changed, certs, served, lists, posted, loaded, up, owing>> /\ Budgets

PersistOpsToken ==
  /\ AtStage("ops file") /\ Persist("ops") /\ Proceed("ops containers")
  /\ UNCHANGED <<issued, used, certs, served, lists, posted, loaded, up, owing>> /\ Budgets

CanSearch(t) == t \in issued /\ file[t] = "real"

(* An account whose token the file has is kept.  OpenObserve tells a token *)
(* only when it creates the account: one that exists and whose token is    *)
(* not in the file makes lab:up throw.                                     *)
EnsureServiceAccount(t, created, next) ==
  /\ \/ /\ AtStage(t) /\ CanSearch(t) /\ Proceed(next) /\ UNCHANGED <<issued, file, changed>>
     \/ /\ AtStage(t) /\ t \notin issued
        /\ issued' = issued \cup {t} /\ Proceed(created) /\ UNCHANGED <<file, changed>>
     \/ /\ AtStage(created) /\ Persist(t) /\ Proceed(next) /\ UNCHANGED issued
  /\ UNCHANGED <<used, certs, served, lists, posted, loaded, up, owing>> /\ Budgets

(* A plausible bug: compose up without --force-recreate leaves a container *)
(* that runs as it is.                                                     *)
RecreateReadersUnforced(step, tokens, next) ==
  /\ AtStage(step) /\ Proceed(next)
  /\ UNCHANGED <<file, issued, used, changed, certs, served, lists, posted, loaded, up, owing>>
  /\ Budgets

(* The containers that read the token are recreated when this lab:up       *)
(* replaced it.                                                            *)
RecreateReaders(step, tokens, next) ==
  /\ AtStage(step) /\ Proceed(next)
  /\ IF changed \cap tokens # {} THEN StartAgain({Reader(t) : t \in tokens})
                                 ELSE UNCHANGED <<used, owing>>
  /\ UNCHANGED <<file, issued, changed, certs, served, lists, posted, loaded, up>> /\ Budgets

(* The desired pipeline stays, and every other one on the stream goes;     *)
(* without it all of them go, and it is created.  A list that cannot be    *)
(* read is an empty one.                                                   *)
EnsurePipeline(s, next) ==
  /\ stage = s
  /\ \/ /\ lists' = [lists EXCEPT ![s] = {"desired"}]
        /\ owing' = owing \ {<<"list", s>>} /\ UNCHANGED crashes
     \/ /\ crashes > 0 /\ crashes' = crashes - 1
        /\ owing' = owing \cup {<<"list", s>>}
        /\ lists' = [lists EXCEPT ![s] = @ \cup {IF "desired" \in @ THEN "twin" ELSE "desired"}]
  /\ Proceed(next)
  /\ UNCHANGED <<file, issued, used, changed, certs, served, posted, loaded, up, upsets>>

(* Interrupted, it has removed some of those that go.                      *)
PipelineInterrupted(s) ==
  /\ stage = s
  /\ crashes > 0 /\ crashes' = crashes - 1
  /\ Proceed("idle")
  /\ \E left \in SUBSET lists[s] :
       /\ "desired" \in lists[s] => "desired" \in left
       /\ lists' = [lists EXCEPT ![s] = left]
  /\ UNCHANGED <<file, issued, used, changed, certs, served, posted, loaded, up, owing, upsets>>

Provisioned == \A s \in Piped : lists[s] = {"desired"}

VerifyProvisioned ==
  /\ AtStage("read back") /\ Provisioned /\ Proceed("restamp")
  /\ UNCHANGED <<file, issued, used, changed, certs, served, lists, posted, loaded, up, owing>>
  /\ Budgets

Restamp ==
  /\ AtStage("restamp") /\ Proceed("idle")
  /\ posted' = [posted EXCEPT !["document"] = "off"] /\ up' = TRUE
  /\ UNCHANGED <<file, issued, used, changed, certs, served, lists, loaded, owing>> /\ Budgets

(***************************************************************************)
(* The leaf's rotation, and what happens around the commands.              *)
(***************************************************************************)
(* nginx -t must pass before the reload; then the proxy has the leaf and   *)
(* the gate of the files.                                                  *)
Reloads ==
  IF PairFits
  THEN served' = certs.leaf /\ loaded' = posted["gate"] /\ owing' = owing \ {GateDebt}
  ELSE UNCHANGED <<served, loaded, owing>>

RotateLeaf ==
  /\ \/ /\ Between /\ up /\ upsets > 0 /\ upsets' = upsets - 1
        /\ Proceed("new key") /\ certs' = [certs EXCEPT !.key = Serial]
        /\ UNCHANGED <<served, loaded, owing>>
     \/ /\ AtStage("new key") /\ Proceed("reload") /\ LeafIssued
        /\ UNCHANGED <<served, loaded, upsets>>
     \/ /\ AtStage("reload") /\ Proceed("idle") /\ Reloads /\ UNCHANGED <<certs, upsets>>
  /\ UNCHANGED <<file, issued, used, changed, lists, posted, up, crashes>>

(* lab:kill-switch, which throws where the proxy does not reload, or is    *)
(* killed after some of its steps.                                         *)
SwitchOrder(way) ==
  IF way = "on" THEN <<"gate", "reload", "document", "hold">>
                ELSE <<"document", "hold", "gate", "reload">>

KillSwitch ==
  /\ Between /\ posted["gate"] # "none"
  /\ upsets > 0 /\ upsets' = upsets - 1
  /\ \E way \in {"off", "on"}, n \in 1..4 :
       LET did == {SwitchOrder(way)[k] : k \in 1..n} IN
       /\ "reload" \in did => served > 0 /\ PairFits
       /\ posted' = [f \in Control |-> IF f \in did THEN way ELSE posted[f]]
       /\ IF "reload" \in did
          THEN served' = certs.leaf /\ loaded' = way /\ owing' = owing \ {GateDebt}
          ELSE UNCHANGED <<served, loaded, owing>>
  /\ up' = FALSE
  /\ UNCHANGED <<stage, file, issued, used, changed, certs, lists, crashes>>

Upset ==
  /\ Between /\ upsets > 0 /\ upsets' = upsets - 1
  /\ \/ /\ certs.leaf > 0 /\ \E what \in {"ca", "leaf"} : certs' = [certs EXCEPT !.due = @ \cup {what}]
        /\ UNCHANGED lists
     \/ /\ \E s \in Piped : lists[s] # {} /\
             \/ lists' = [lists EXCEPT ![s] = @ \cup {"company"}]
             \/ lists' = [lists EXCEPT ![s] = (@ \ {"desired"}) \cup {"drifted"}]
        /\ UNCHANGED certs
  /\ up' = FALSE
  /\ UNCHANGED <<stage, file, issued, used, changed, served, posted, loaded, owing, crashes>>

(* A token whose file this lab:up replaced, before the containers that     *)
(* read it are recreated.  The next lab:up finds the file as it is to be,  *)
(* and recreates none.                                                     *)
Outdated(t) ==
  /\ t \in changed
  /\ \/ t = "rum" /\ stage = "rum containers"
     \/ t = "ops" /\ stage = "ops containers"
     \/ t = "read" /\ stage \in {"write", "write file", "sync containers"}
     \/ t = "write" /\ stage = "sync containers"

(* An account is created and its token not yet in the file.                *)
Untold(t) ==
  \/ t = "read" /\ stage = "read file"
  \/ t = "write" /\ stage = "write file"

(* The leaf is replaced, or was signed by a CA that is.                    *)
Renewing == stage \in {"leaf key", "leaf certificate", "new key"}

LeavesOwing ==
  owing' = owing \cup {<<"reader", t>> : t \in {u \in Token : Outdated(u)}}
                 \cup {<<"account", t>> : t \in {u \in Accounts : Untold(u)}}
                 \cup (IF Renewing THEN {LeafDebt} ELSE {})

(* A throw and a kill leave the same behind: everything done so far.       *)
Interrupt ==
  /\ ~Between /\ crashes > 0 /\ crashes' = crashes - 1
  /\ Proceed("idle") /\ LeavesOwing
  /\ UNCHANGED <<file, issued, used, changed, certs, served, lists, posted, loaded, up, upsets>>

(* A command that cannot go on throws.                                     *)
Refuse ==
  /\ \/ AtStage("compose up") /\ served = 0 /\ ~PairFits
     \/ \E t \in Accounts : AtStage(t) /\ t \in issued /\ ~CanSearch(t)
     \/ AtStage("read back") /\ ~Provisioned
  /\ Proceed("refused") /\ LeavesOwing
  /\ UNCHANGED <<file, issued, used, changed, certs, served, lists, posted, loaded, up>>
  /\ Budgets

ProvisioningNext ==
  \/ PurgeVolumes \/ PurgeFiles \/ Down
  \/ EnsureSecrets \/ EnsureCertificates \/ OpenControls \/ ComposeUp
  \/ FetchRumToken \/ RecreateReaders("rum containers", {"rum"}, "ops")
  \/ CreateOpsToken \/ PersistOpsToken \/ RecreateReaders("ops containers", {"ops"}, "read")
  \/ EnsureServiceAccount("read", "read file", "write")
  \/ EnsureServiceAccount("write", "write file", "sync containers")
  \/ RecreateReaders("sync containers", Accounts, "_rumdata")
  \/ EnsurePipeline("_rumdata", "_rumlog") \/ EnsurePipeline("_rumlog", "read back")
  \/ (\E s \in Piped : PipelineInterrupted(s)) \/ VerifyProvisioned \/ Restamp
  \/ RotateLeaf \/ KillSwitch \/ Upset \/ Interrupt \/ Refuse

ProvisioningSpec == ProvisioningInit /\ [][ProvisioningNext]_provisioningVars

Content == [Token -> {Unset, "placeholder", "old", "real"}]

Certificates == [caKey : Nat, ca : Nat, key : Nat, leaf : Nat, signer : Nat,
                 due : SUBSET {"ca", "leaf"}]

ProvisioningTypeOK ==
  /\ file \in Content /\ used \in [Container -> Content]
  /\ issued \subseteq Token /\ changed \subseteq Token
  /\ certs \in Certificates /\ served \in Nat
  /\ lists \in [Piped -> SUBSET {"desired", "drifted", "twin", "company"}]
  /\ posted \in [Control -> Switch] /\ loaded \in Switch
  /\ up \in BOOLEAN /\ owing \subseteq Debt
  /\ crashes \in 0..Crashes /\ upsets \in 0..Upsets

LeafFits == certs.key = certs.leaf /\ certs.signer = certs.ca
Owes(what) == what \in owing

(* A lab:up that came to its end, whatever was interrupted before it,      *)
(* leaves tokens in the files that OpenObserve knows, the two pipelines    *)
(* alone on their streams and a kill switch that is off in every file.     *)
(* Three things it may leave, each for its own reason only: a proxy that   *)
(* was closed when lab:up began stays closed until it is reloaded; a       *)
(* container keeps an old token when a lab:up was interrupted after that   *)
(* token was written and before its containers were recreated; and the     *)
(* leaf does not fit when its own renewal was interrupted.  No lab:up      *)
(* refuses to go on but for such a leaf, an account whose token an         *)
(* interrupted lab:up did not write, or a listing that could not be read.  *)
UpMeansCurrent ==
  /\ up => /\ issued = Token /\ Provisioned
           /\ \A t \in Token : file[t] = "real"
           /\ \A f \in Control : posted[f] = "off"
           /\ loaded = "off" \/ Owes(GateDebt)
  /\ up /\ Between =>
       /\ certs.caKey = certs.ca
       /\ LeafFits \/ Owes(LeafDebt)
       /\ \A t \in Token : used[Reader(t)][t] = file[t] \/ Owes(<<"reader", t>>)
  /\ stage = "refused" =>
       \/ Owes(LeafDebt) \/ \E t \in Accounts : Owes(<<"account", t>>)
       \/ \E s \in Piped : Owes(<<"list", s>>)

(***************************************************************************)
(* The inductive invariant behind UpMeansCurrent.                          *)
(***************************************************************************)
AfterWrite == {"sync containers", "_rumdata", "_rumlog", "read back", "restamp"}
AfterRead == {"write", "write file"} \cup AfterWrite
AfterOps == {"ops containers", "read", "read file"} \cup AfterRead
AfterRum == {"rum containers", "ops", "ops file"} \cup AfterOps
AfterStart == {"rum"} \cup AfterRum
AfterCa == {"leaf key", "leaf certificate", "open", "open gate", "open hold", "compose up"}
BeforeStart == {"ca", "ca certificate"} \cup AfterCa

Running(c) == used[c] # NoContainer

(* What the steps of a lab:up have established once they are done.         *)
EstablishedOK ==
  /\ stage \in AfterStart => "rum" \in issued /\ \A c \in Container : Running(c)
  /\ stage \in AfterRum => file["rum"] = "real"
  /\ stage = "ops file" => "ops" \in issued
  /\ stage \in AfterOps => "ops" \in issued /\ file["ops"] = "real"
  /\ stage = "read file" => "read" \in issued
  /\ stage \in AfterRead => "read" \in issued /\ file["read"] = "real"
  /\ stage = "write file" => "write" \in issued
  /\ stage \in AfterWrite => "write" \in issued /\ file["write"] = "real"
  /\ stage = "restamp" => Provisioned

(* The controls, in the order in which they are opened; what the proxy     *)
(* that runs has loaded.                                                   *)
ControlsOK ==
  /\ stage \in {"open gate", "open hold", "compose up"} \cup AfterStart => posted["document"] = "off"
  /\ stage \in {"open hold", "compose up"} \cup AfterStart
       => posted["gate"] = "off" /\ (loaded = "on" => Owes(GateDebt))
  /\ stage \in {"compose up"} \cup AfterStart => posted["hold"] = "off"
  /\ stage \in AfterStart => loaded # "none"
  /\ served # 0 => loaded # "none" /\ posted["gate"] # "none"

(* A lab that is up is not being built or purged; the leaf is rotated only *)
(* in one that is.                                                         *)
UpOK ==
  /\ up => /\ issued = Token /\ Provisioned
           /\ \A t \in Token : file[t] = "real"
           /\ \A f \in Control : posted[f] = "off"
           /\ loaded = "off" \/ Owes(GateDebt)
           /\ \A c \in Container : Running(c)
           /\ stage \notin BeforeStart \cup AfterStart \cup {"purge files"}
  /\ stage \in {"new key", "reload"} => up

(* A purge takes the containers and the tokens before the files; whatever  *)
(* runs was started with files that are there.                             *)
FilesOK ==
  /\ stage = "purge files" => issued = {} /\ served = 0 /\ \A c \in Container : ~Running(c)
  /\ (\E c \in Container : Running(c)) \/ stage \in BeforeStart \cup AfterStart
       => \A t \in Token : file[t] # Unset

(* A CA whose key is another's is one that is issued anew; the leaf fits   *)
(* but while it is renewed.                                                *)
CertsOK ==
  /\ certs.caKey = certs.ca \/ certs.ca = 0 \/ "ca" \in certs.due
  /\ stage \in AfterCa \cup AfterStart \/ up => certs.caKey = certs.ca
  /\ LeafFits \/ Renewing \/ Owes(LeafDebt)

(* The token of an account that exists is in its file ...                  *)
AccountsOK ==
  \A t \in Accounts : t \in issued => file[t] = "real" \/ Untold(t) \/ Owes(<<"account", t>>)

(* ... a container has the tokens of the files but for those it is to be   *)
(* recreated for ...                                                       *)
ReadersOK ==
  \A t \in Token : Running(Reader(t)) =>
    used[Reader(t)][t] = file[t] \/ Outdated(t) \/ Owes(<<"reader", t>>)

(* ... each pipeline is alone as soon as it is ensured ...                 *)
PipelinesOK ==
  /\ stage \in {"_rumlog", "read back"} => lists["_rumdata"] = {"desired"} \/ Owes(<<"list", "_rumdata">>)
  /\ stage = "read back" => lists["_rumlog"] = {"desired"} \/ Owes(<<"list", "_rumlog">>)

(* ... and what is owing is why a lab:up refused.                          *)
RefusedOK ==
  stage = "refused" =>
    \/ Owes(LeafDebt) \/ \E t \in Accounts : Owes(<<"account", t>>)
    \/ \E s \in Piped : Owes(<<"list", s>>)

ProvisioningInv ==
  /\ ProvisioningTypeOK /\ EstablishedOK /\ ControlsOK /\ UpOK /\ FilesOK
  /\ CertsOK /\ AccountsOK /\ ReadersOK /\ PipelinesOK /\ RefusedOK
=============================================================================
