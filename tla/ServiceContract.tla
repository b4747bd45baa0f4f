--------------------------- MODULE ServiceContract ---------------------------
(***************************************************************************)
(* What Wataridori promises about the Cloud Run services it deploys, with  *)
(* every deployment a single step: who may change what.  An image-only     *)
(* deployment changes the image and nothing else; a full deployment makes  *)
(* the service what the manifest says, sends its traffic to the latest     *)
(* revision, and takes no setting away that the manifest cannot express    *)
(* unless it was forced to; a rollback moves traffic, and only to a        *)
(* revision that is ready.                                                 *)
(***************************************************************************)
CONSTANTS Services, Images, Settings, ImageOnly, MayForce

VARIABLES image, settings, traffic, ready

vars == <<image, settings, traffic, ready>>

DeployImage(s) ==
    /\ s \in ImageOnly
    /\ \E i \in Images : image' = [image EXCEPT ![s] = i]
    /\ UNCHANGED <<settings, traffic, ready>>

DeployManifest(s) ==
    /\ s \notin ImageOnly
    /\ settings[s] = {} \/ MayForce
    /\ \E i \in Images : image' = [image EXCEPT ![s] = i]
    /\ settings' = [settings EXCEPT ![s] = {}]
    /\ traffic' = [traffic EXCEPT ![s] = 0]
    /\ UNCHANGED ready

RollBack(s) ==
    /\ \E r \in ready[s] : traffic' = [traffic EXCEPT ![s] = r]
    /\ UNCHANGED <<image, settings, ready>>

\* Terraform, gcloud or the console: the settings are theirs.
Configure(s) ==
    /\ \E own \in SUBSET Settings : settings' = [settings EXCEPT ![s] = own]
    /\ UNCHANGED <<image, traffic, ready>>

\* Revisions become ready and stay so.
StartUp(s) ==
    /\ ready[s] \subseteq ready'[s]
    /\ ready' = [ready EXCEPT ![s] = ready'[s]]
    /\ UNCHANGED <<image, settings, traffic>>

Init ==
    /\ settings \in [Services -> SUBSET Settings]
    /\ traffic = [s \in Services |-> 0]

Next ==
    \E s \in Services :
        DeployImage(s) \/ DeployManifest(s) \/ RollBack(s) \/ Configure(s) \/ StartUp(s)

Spec == Init /\ [][Next]_vars
=============================================================================
