----------------------------- MODULE Credentials -----------------------------
(***************************************************************************)
(* How a host gets its client certificate: the agent's bootstrap flow and   *)
(* certificate rotation, and the ByoAdmission controller that approves the  *)
(* certificate signing request (CSR).  The CSR's name is fixed per host.    *)
(* The bootstrap kubeconfig on the host is that of BootstrapToken.          *)
(***************************************************************************)
EXTENDS Naturals

CONSTANTS Keys, NoKey,    \* bound: private keys in use at one time
          UIDs, NoUID,    \* bound: CSR objects somebody still refers to
          MaxCerts,       \* bound: certificates issued
          FaultKinds,     \* the faults that may happen
          MaxFaults       \* bound: how many of them

AllFaultKinds == {"api",       \* an API call fails; it may have been applied
                  "agent",     \* the agent stops
                  "torn",      \* ... while it writes its kubeconfig
                  "moved",     \* the agent is started in another directory
                  "deny",      \* an administrator denies a request
                  "delete"}    \* ... or deletes it

ASSUME NullAssumption == NoKey \notin Keys /\ NoUID \notin UIDs
ASSUME BoundAssumption == MaxCerts \in Nat \ {0} /\ MaxFaults \in Nat
ASSUME FaultAssumption == FaultKinds \subseteq AllFaultKinds

VARIABLES boot,   \* the token in the bootstrap kubeconfig on the host
          csr,    \* the CSR of the host
          cert,   \* the certificates issued, numbered in order
          disk,   \* temporary key file and kubeconfig file of the host, and whether
                  \* its agent is started with CERTIFICATE_ROTATION=true
          agent,  \* the agent process
          adm,    \* the CSR the ByoAdmission controller is working on
          faults

vars == <<boot, csr, cert, disk, agent, adm, faults>>

Certs == 1..MaxCerts
MaybeKey == Keys \cup {NoKey}
MaybeUID == UIDs \cup {NoUID}
Flow == {"key", "request", "wait", "write", "clean"}   \* within handleBootstrapFlow

TypeOK ==
    /\ boot \in {"none", "live", "expired"}
    /\ csr \in [state : {"none", "pending", "approved", "issued", "denied"},
                uid : MaybeUID, key : MaybeKey, cert : 0..MaxCerts]
    /\ cert \in [Certs -> [key : MaybeKey, age : {"unissued", "valid", "due", "expired"}]]
    /\ disk \in [key : MaybeKey, rotation : BOOLEAN,
                 config : [state : {"none", "torn", "whole"}, key : MaybeKey, cert : 0..MaxCerts]]
    /\ agent \in [pc : {"down", "run"} \cup Flow, rotating : BOOLEAN, key : MaybeKey,
                  uid : MaybeUID, cert : 0..MaxCerts, mem : 0..MaxCerts]
    /\ adm \in MaybeUID
    /\ faults \in 0..MaxFaults

NoCSR == [state |-> "none", uid |-> NoUID, key |-> NoKey, cert |-> 0]
Down == [pc |-> "down", rotating |-> FALSE, key |-> NoKey, uid |-> NoUID, cert |-> 0, mem |-> 0]
NoConfig == [state |-> "none", key |-> NoKey, cert |-> 0]

Init ==
    /\ boot = "none"
    /\ csr = NoCSR
    /\ cert = [c \in Certs |-> [key |-> NoKey, age |-> "unissued"]]
    /\ disk \in [key : {NoKey}, rotation : BOOLEAN, config : {NoConfig}]
    /\ agent = Down
    /\ adm = NoUID
    /\ faults = 0

Fault(k) == k \in FaultKinds /\ faults < MaxFaults /\ faults' = faults + 1

-----------------------------------------------------------------------------
(* ByoAdmission *)

Prefixes == {"byoh-csr-", "node-csr-", "other"}
Signers == {"client", "client-kubelet", "serving", "other"}

(* Faulty variant: the hosts' own requests are forgotten. *)
ApprovesKubelets(prefix, signer) ==
    signer \in {"client-kubelet", "serving"} \/ (signer = "client" /\ prefix = "node-csr-")

(* What Reconcile approves by name and signer, and what the watch lets through. *)
Approves(prefix, signer) ==
    \/ signer = "client" /\ prefix \in {"byoh-csr-", "node-csr-"}
    \/ signer \in {"client-kubelet", "serving"}

Watched(prefix, signer) ==
    prefix \in {"byoh-csr-", "node-csr-"} \/ signer \in {"client-kubelet", "serving"}

(* Reconcile gets the CSR; one that is approved or denied is left alone. *)
AdmissionGet ==
    /\ adm = NoUID /\ csr.state = "pending"
    /\ Watched("byoh-csr-", "client") /\ Approves("byoh-csr-", "client")
    /\ adm' = csr.uid
    /\ UNCHANGED <<boot, csr, cert, disk, agent, faults>>

(* Faulty variant: the version of the object is not checked. *)
AdmissionApproveAnyway ==
    /\ adm # NoUID /\ adm' = NoUID
    /\ csr' = IF csr.state = "none" THEN csr ELSE [csr EXCEPT !.state = "approved"]
    /\ UNCHANGED <<boot, cert, disk, agent, faults>>

(* UpdateApproval, refused when the CSR is no longer the one that was read; *)
(* an error leads to another reconcile.                                     *)
AdmissionApprove ==
    /\ adm # NoUID /\ adm' = NoUID
    /\ LET approved == IF csr.uid = adm /\ csr.state = "pending"
                       THEN [csr EXCEPT !.state = "approved"] ELSE csr
       IN \/ csr' = approved /\ UNCHANGED faults
          \/ csr' \in {csr, approved} /\ Fault("api")
    /\ UNCHANGED <<boot, cert, disk, agent>>

-----------------------------------------------------------------------------
(* The agent *)

(* main: without a kubeconfig it runs the bootstrap flow, else it uses it.   *)
(* One that cannot be loaded, or that the API server refuses, ends main.     *)
AgentStarts ==
    /\ agent.pc = "down"
    /\ \/ /\ disk.config.state = "none" /\ boot # "none"
          /\ agent' = [Down EXCEPT !.pc = "key"]
       \/ /\ disk.config.state = "whole" /\ cert[disk.config.cert].age \in {"valid", "due"}
          /\ agent' = [Down EXCEPT !.pc = "run", !.mem = disk.config.cert]
    /\ UNCHANGED <<boot, csr, cert, disk, adm, faults>>

(* The agent was started with CERTIFICATE_ROTATION=true, "a feature flag for now". *)
RotationEnabled == disk.rotation

(* Faulty variant: rotation is not tried with a key file left behind. *)
RotateOnce ==
    /\ RotationEnabled /\ disk.key = NoKey
    /\ agent.pc = "run" /\ cert[agent.mem].age \in {"due", "expired"}
    /\ agent' = [agent EXCEPT !.pc = "key", !.rotating = TRUE]
    /\ UNCHANGED <<boot, csr, cert, disk, adm, faults>>

(* main starts certificateRotation only behind its feature flag.            *)
(* certRotation looks at the certificate the process was started with, which *)
(* stays the same when the file is renewed.                                  *)
Rotate ==
    /\ RotationEnabled
    /\ agent.pc = "run" /\ cert[agent.mem].age \in {"due", "expired"}
    /\ agent' = [agent EXCEPT !.pc = "key", !.rotating = TRUE]
    /\ UNCHANGED <<boot, csr, cert, disk, adm, faults>>

(* Faulty variant: a failure ends the process in both cases. *)
ReturnedExit(failed) == [agent EXCEPT !.pc = IF failed THEN "exit" ELSE "run"]

(* handleBootstrapFlow returns: to certificateRotation, which polls again    *)
(* whether or not it failed, or to main, which exits or loads the new file.  *)
Returned(failed) ==
    IF agent.rotating
    THEN [agent EXCEPT !.pc = "run", !.rotating = FALSE, !.key = NoKey, !.uid = NoUID, !.cert = 0]
    ELSE IF failed THEN Down ELSE [Down EXCEPT !.pc = "run", !.mem = disk.config.cert]

(* A new key or UID: which one does not matter. *)
New(S) == IF S = {} THEN {} ELSE {CHOOSE x \in S : TRUE}

KeyInUse == {disk.key, csr.key, agent.key, disk.config.key}

(* LoadOrGenerateKeyFile *)
LoadKey ==
    /\ agent.pc = "key"
    /\ \E k \in IF disk.key # NoKey THEN {disk.key} ELSE New(Keys \ KeyInUse) :
          /\ disk' = [disk EXCEPT !.key = k]
          /\ agent' = [agent EXCEPT !.pc = "request", !.key = k]
    /\ UNCHANGED <<boot, csr, cert, adm, faults>>

(* Faulty variant: any CSR of that name will do. *)
CompatibleByName == csr.state # "none"

(* What RequestCertificate accepts under the name of the CSR: one signed with *)
(* our key, whose certificate has not expired.                                *)
Compatible ==
    csr.key = agent.key /\ (csr.state = "issued" => cert[csr.cert].age # "expired")

Create(u) ==
    [state |-> "pending", uid |-> u, key |-> agent.key, cert |-> 0]

Request ==
    /\ agent.pc = "request"
    /\ \/ /\ boot = "live" /\ csr.state = "none"
          /\ \E u \in New(UIDs \ {adm}) :
                /\ csr' = Create(u)
                /\ \/ agent' = [agent EXCEPT !.pc = "wait", !.uid = u] /\ UNCHANGED faults
                   \/ agent' = Returned(TRUE) /\ Fault("api")
       \/ /\ boot = "live" /\ csr.state # "none" /\ Compatible
          /\ agent' = [agent EXCEPT !.pc = "wait", !.uid = csr.uid]
          /\ UNCHANGED <<csr, faults>>
       \/ /\ \/ (boot # "live" \/ (csr.state # "none" /\ ~Compatible)) /\ UNCHANGED faults
             \/ Fault("api")
          /\ agent' = Returned(TRUE) /\ UNCHANGED csr
    /\ UNCHANGED <<boot, cert, disk, adm>>

(* WaitForCertificate: the certificate comes, or the CSR is denied, deleted or *)
(* replaced, or an hour passes.                                                *)
Wait ==
    /\ agent.pc = "wait"
    /\ \/ /\ csr.uid = agent.uid /\ csr.state = "issued"
          /\ agent' = [agent EXCEPT !.pc = "write", !.cert = csr.cert]
       \/ /\ csr.uid # agent.uid \/ csr.state # "issued" \/ boot # "live"
          /\ agent' = Returned(TRUE)
    /\ UNCHANGED <<boot, csr, cert, disk, adm, faults>>

WriteConfig ==
    /\ agent.pc = "write"
    /\ disk' = [disk EXCEPT !.config = [state |-> "whole", key |-> agent.key, cert |-> agent.cert]]
    /\ agent' = [agent EXCEPT !.pc = "clean"]
    /\ UNCHANGED <<boot, csr, cert, adm, faults>>

(* The key file is removed; a failure to is only logged.  kube-proxy's         *)
(* kubeconfig, written next, is not part of the state.                         *)
Clean ==
    /\ agent.pc = "clean"
    /\ disk' \in {disk, [disk EXCEPT !.key = NoKey]}
    /\ agent' = Returned(FALSE)
    /\ UNCHANGED <<boot, csr, cert, adm, faults>>

-----------------------------------------------------------------------------
(* Environment *)

(* The agent stops.  WriteToFile truncates the file before it writes. *)
AgentStops ==
    /\ agent.pc # "down" /\ agent' = Down
    /\ \/ Fault("agent") /\ UNCHANGED disk
       \/ /\ Fault("torn") /\ agent.pc = "write"
          /\ disk' = [disk EXCEPT !.config = [NoConfig EXCEPT !.state = "torn"]]
    /\ UNCHANGED <<boot, csr, cert, adm>>

(* The watcher service restarts the agent when its kubeconfig changes. *)
WatcherRestarts ==
    /\ agent.pc = "run" /\ disk.config.cert # agent.mem
    /\ agent' = Down
    /\ UNCHANGED <<boot, csr, cert, disk, adm, faults>>

(* The name of the key file is relative to the working directory. *)
Moved ==
    /\ Fault("moved") /\ agent.pc = "down" /\ disk.key # NoKey
    /\ disk' = [disk EXCEPT !.key = NoKey]
    /\ UNCHANGED <<boot, csr, cert, agent, adm>>

AdminDecides ==
    /\ csr.state = "pending"
    /\ \/ csr' = [csr EXCEPT !.state = "approved"] /\ UNCHANGED faults
       \/ Fault("deny") /\ csr' = [csr EXCEPT !.state = "denied"]
    /\ UNCHANGED <<boot, cert, disk, agent, adm>>

AdminDeletes ==
    /\ Fault("delete") /\ csr.state # "none" /\ csr' = NoCSR
    /\ UNCHANGED <<boot, cert, disk, agent, adm>>

(* The signer of the management cluster. *)
Sign ==
    /\ csr.state = "approved"
    /\ \E c \in Certs :
          /\ cert[c].age = "unissued" /\ \A d \in Certs : d < c => cert[d].age # "unissued"
          /\ cert' = [cert EXCEPT ![c] = [key |-> csr.key, age |-> "valid"]]
          /\ csr' = [csr EXCEPT !.state = "issued", !.cert = c]
    /\ UNCHANGED <<boot, disk, agent, adm, faults>>

(* The cleaner of the management cluster removes a CSR an hour after it was  *)
(* decided; an agent that still has its key has come back for it by then.    *)
CSRCleaned ==
    /\ \/ csr.state = "denied"
       \/ /\ csr.state = "issued" /\ ~(agent.pc = "wait" /\ agent.uid = csr.uid)
          /\ \/ csr.key # disk.key
             \/ agent.pc \in {"run", "key", "request"} /\ disk.config.state = "whole"
    /\ csr' = NoCSR
    /\ UNCHANGED <<boot, cert, disk, agent, adm, faults>>

(* An administrator copies a bootstrap kubeconfig to a host that has no other. *)
TokenProvided ==
    /\ boot # "live" /\ disk.config.state = "none"
    /\ boot' = "live"
    /\ UNCHANGED <<csr, cert, disk, agent, adm, faults>>

TokenExpires ==
    /\ boot = "live" /\ boot' = "expired"
    /\ UNCHANGED <<csr, cert, disk, agent, adm, faults>>

(* A certificate lives much longer than it takes to fetch it; the older one  *)
(* is due and expires before the younger one.                                *)
Ages(c) ==
    /\ c <= disk.config.cert
    /\ cert[c].age \in {"valid", "due"}
    /\ \A d \in Certs : d < c => cert[d].age = "expired" \/ (cert[d].age = "due" /\ cert[c].age = "valid")
    /\ cert' = [cert EXCEPT ![c].age = IF @ = "valid" THEN "due" ELSE "expired"]
    /\ UNCHANGED <<boot, csr, disk, agent, adm, faults>>

-----------------------------------------------------------------------------
AgentFlow == LoadKey \/ Request \/ Wait \/ WriteConfig \/ Clean

Next ==
    \/ AdmissionGet \/ AdmissionApprove
    \/ AgentStarts \/ Rotate \/ AgentFlow
    \/ AgentStops \/ WatcherRestarts \/ Moved \/ AdminDecides \/ AdminDeletes \/ Sign \/ CSRCleaned
    \/ TokenProvided \/ TokenExpires \/ \E c \in Certs : Ages(c)

Spec == Init /\ [][Next]_vars

(* The controller works its queue; a running agent runs on and a stopped one *)
(* is started again; the rotation of an agent that has one polls; signer and *)
(* cleaner of the management cluster work.                                   *)
(* Nothing makes anybody provide a new token.                                *)
Fairness ==
    /\ WF_vars(AdmissionGet \/ AdmissionApprove)
    /\ WF_vars(AgentStarts \/ AgentFlow) /\ WF_vars(Rotate)
    /\ WF_vars(Sign) /\ SF_vars(CSRCleaned)

FairSpec == Spec /\ Fairness

-----------------------------------------------------------------------------
(* The kubeconfig on the host holds the key its certificate was issued for,   *)
(* whatever attempt generated the key, left the CSR behind or was interrupted *)
(* (BootstrapKubeconfig, 75-98; RequestBYOHClientCert, 106-127).              *)
ConfigUsable ==
    disk.config.state = "whole" => cert[disk.config.cert].key = disk.config.key

(* Why: every certificate that is about to be written was issued for the key  *)
(* in the agent's memory, and a number that is in use is not issued again.    *)
Issued(c, k) == c \in Certs /\ cert[c].age # "unissued" /\ cert[c].key = k

KeyInv ==
    /\ IF csr.state = "none" THEN csr = NoCSR ELSE csr.uid \in UIDs
    /\ csr.state = "issued" => Issued(csr.cert, csr.key)
    /\ agent.pc = "wait" => agent.uid \in UIDs /\ (csr.uid = agent.uid => csr.key = agent.key)
    /\ agent.pc = "write" => Issued(agent.cert, agent.key)
    /\ disk.config.state = "whole" => Issued(disk.config.cert, disk.config.key)

(* A request the administrator has denied stays denied although the           *)
(* controller may have read it before (UpdateApproval, 97).                   *)
DenialStands ==
    [][csr.state = "denied" /\ csr'.uid = csr.uid => csr'.state = "denied"]_vars

(* An agent whose bootstrap token is valid gets its kubeconfig, whatever was  *)
(* left behind by an attempt that was interrupted, denied or too slow         *)
(* (main.go 176-184).                                                         *)
BootstrapCompletes ==
    (boot = "live" /\ disk.config.state = "none") ~> (boot # "live" \/ disk.config.state # "none")

(* With the feature flag set and a valid bootstrap token, a certificate that is *)
(* due is renewed, although the CSR of the last one may still exist under the   *)
(* same name (main.go 222-232, 329).  Without the flag, which is the default,   *)
(* nothing is renewed.                                                          *)
RenewalCompletes ==
    (RotationEnabled /\ boot = "live" /\ agent.pc = "run" /\ cert[agent.mem].age = "due")
        ~> \/ boot # "live" \/ disk.config.state = "torn"
           \/ agent.pc = "down" \/ disk.config.cert > agent.mem
           \/ cert[MaxCerts].age # "unissued"

(* "if less than 20% time left, renew the certs" (comment, main.go 327), where *)
(* rotation is switched on.                                                    *)
DueIsRenewed ==
    (RotationEnabled /\ agent.pc = "run" /\ cert[agent.mem].age = "due")
        ~> \/ disk.config.state = "torn" \/ agent.pc = "down" \/ disk.config.cert > agent.mem
           \/ cert[MaxCerts].age # "unissued"
==============================================================================
