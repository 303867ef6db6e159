----------------------------- MODULE Governance -----------------------------
(***************************************************************************)
(* What the repository's commands do outside the pipeline: in an           *)
(* OpenObserve that belongs to others (starters, streams, the policies of  *)
(* the alerts) and in the lab (its acceptance chain, its provisioning).    *)
(* The five share no state that matters here, so a behaviour looks at one, *)
(* which is chosen at the beginning; the others stay as they begin.        *)
(***************************************************************************)
EXTENDS StarterGovernance, StreamGovernance, AlertEvaluation, AcceptanceChain, LabProvisioning

VARIABLE focus

governanceVars ==
  <<starterVars, streamVars, alertVars, chainVars, provisioningVars, focus>>

Init ==
  /\ focus \in {"starters", "streams", "policies", "chain", "provisioning"}
  /\ StarterInit /\ StreamInit /\ AlertInit /\ ChainInit /\ ProvisioningInit
  /\ focus # "starters" => kind = "dashboards"
  /\ focus # "streams" => \A s \in Stream : desired[s] = Fresh
  /\ focus # "policies" => policy = CHOOSE p \in Policies : TRUE
  /\ focus # "chain" => program = "proxy"

Next ==
  \/ /\ focus = "starters" /\ StarterNext
     /\ UNCHANGED <<streamVars, alertVars, chainVars, provisioningVars, focus>>
  \/ /\ focus = "streams" /\ StreamNext
     /\ UNCHANGED <<starterVars, alertVars, chainVars, provisioningVars, focus>>
  \/ /\ focus = "policies" /\ AlertNext
     /\ UNCHANGED <<starterVars, streamVars, chainVars, provisioningVars, focus>>
  \/ /\ focus = "chain" /\ ChainNext
     /\ UNCHANGED <<starterVars, streamVars, alertVars, provisioningVars, focus>>
  \/ /\ focus = "provisioning" /\ ProvisioningNext
     /\ UNCHANGED <<starterVars, streamVars, alertVars, chainVars, focus>>

Spec == Init /\ [][Next]_governanceVars

(* However runs fail, are interrupted or meet the company's changes: a     *)
(* starter is there once, and one that is missing was deleted or never     *)
(* finished.                                                               *)
StartersOK == StarterTypeOK /\ OneCopyEach /\ AbsenceExplained

(* What the company made, renamed, edited or deleted stays as it left it.  *)
CompanyWorkKept ==
  CompanyWorkSurvives /\ RecordedDeletionRespected /\ OverwriteKeepsEdits

(* Provisioning changes what differs and may be changed, nothing else.     *)
StreamsKept == []StreamTypeOK /\ NeverDestructive /\ OnlyWhatDiffered

(* An alert fires and resolves in turn, each only after as many samples of *)
(* its kind as the policy asks for, and not within its cooldown.           *)
AlertingSound ==
  /\ [](AlertTypeOK /\ CooldownBetweenFirings /\ IncidentsAlternate)
  /\ FiringIsEarned /\ ResolutionIsEarned

(* Nothing the chain does is in the way of its later gates, or of whoever  *)
(* uses the lab after it.                                                  *)
ChainSound == ChainTypeOK /\ PassedMeansOpen /\ QuietRunsPass

(* A lab:up that came to its end leaves what the lab needs, however many   *)
(* were interrupted before it, but for what each of these explains.        *)
ProvisioningOK == ProvisioningTypeOK /\ UpMeansCurrent
=============================================================================
