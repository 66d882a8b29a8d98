--------------------------- MODULE NodeSetupProofs ---------------------------
(***************************************************************************)
(* Proofs about NodeSetup, for any number of machines and of faults: what a *)
(* cleanup leaves on a host, and that a machine's services are its own.     *)
(***************************************************************************)
EXTENDS NodeSetup, TLAPS

HostRec == [state : {"free", "claimed", "marked"}, machine : Gens, comp : BOOLEAN, boot : BOOLEAN]
SvcRec == [want : BOOLEAN, kubelet : Gens, containerd : BOOLEAN, proxy : Gens]
Modes == {"kubeadm", "online", "offline"}

(* TypeOK, with its record types named. *)
LEMMA Types ==
    TypeOK <=> /\ mode \in Modes /\ manage \in BOOLEAN /\ binaries \in BOOLEAN
               /\ keys \in SUBSET {"ca.crt", "bootstrap-kubeconfig"}
               /\ host \in HostRec /\ disk \in [Files -> Gens] /\ loaded \in [Units -> Gens]
               /\ svc \in SvcRec
               /\ agent \in Recs /\ (agent.pc = "reset" => agent.i <= 7)
               /\ drift \in {"none", "containerd", "kubelet"}
               /\ spoiled \subseteq Mishaps
               /\ faults \in 0..MaxFaults
  <1>1. Len(ResetSteps) = 7
    BY DEF ResetSteps
  <1> QED BY <1>1 DEF TypeOK, Modes, HostRec, SvcRec

(* There are eleven or fourteen steps in the TLS mode, three with cloud-init, and *)
(* kube-proxy is started only where it is managed.                                *)
LEMMA StepsLen ==
    /\ Len(Steps) \in 1..14
    /\ \A i \in 1..Len(Steps) : Steps[i] = "proxy-start" => manage
  <1>1. CASE mode = "kubeadm"
    <2>1. Steps = CloudInitSteps
      BY <1>1 DEF Steps
    <2> QED BY <2>1 DEF CloudInitSteps
  <1>2. CASE mode # "kubeadm" /\ manage
    <2>1. Steps = TLSSteps
      BY <1>2 DEF Steps
    <2> QED BY <2>1, <1>2 DEF TLSSteps
  <1>3. CASE mode # "kubeadm" /\ ~manage
    <2>1. Steps = SubSeq(TLSSteps, 1, 11)
      BY <1>3 DEF Steps
    <2>2. Len(SubSeq(TLSSteps, 1, 11)) = 11
      BY DEF TLSSteps
    <2>3. \A i \in 1..11 : SubSeq(TLSSteps, 1, 11)[i] = TLSSteps[i]
      BY DEF TLSSteps
    <2>4. \A i \in 1..11 : TLSSteps[i] # "proxy-start"
      BY DEF TLSSteps
    <2> QED BY <2>1, <2>2, <2>3, <2>4
  <1> QED BY <1>1, <1>2, <1>3

(* The steps of a reset, by number. *)
LEMMA ResetStepAt ==
    /\ Len(ResetSteps) = 7
    /\ \A i \in 1..7 : /\ ResetSteps[i] = "kubeadm-reset" <=> i = 1
                       /\ ResetSteps[i] = "stop-kubelet" <=> i = 2
                       /\ ResetSteps[i] = "stop-containerd" <=> i = 3
                       /\ ResetSteps[i] = "stop-proxy" <=> i = 4
                       /\ ResetSteps[i] = "remove-files" <=> i = 5
                       /\ ResetSteps[i] = "reload" <=> i = 6
                       /\ ResetSteps[i] = "remove-dirs" <=> i = 7
  BY DEF ResetSteps

(* The number of faults stays within its bound. *)
LEMMA FaultType ==
    ASSUME faults \in 0..MaxFaults, NEW k, Fault(k) \/ UNCHANGED faults
    PROVE  faults' \in 0..MaxFaults
  BY FaultAssumption DEF Fault

(* Where a step of the bootstrap leads to. *)
LEMMA AdvanceTo ==
    ASSUME agent \in Recs, agent.pc = "boot", agent.i <= Len(Steps), Advance
    PROVE  /\ agent' \in Recs /\ agent'.pc \in {"boot", "patch", "proxy"} /\ agent'.why = agent.why
           /\ agent'.pc = "boot" => agent'.i <= Len(Steps)
  <1>1. Len(Steps) \in 1..14 /\ agent.i \in 1..14
    BY StepsLen DEF Recs
  <1>2. CASE agent.i < Len(Steps)
    <2>1. agent' = [agent EXCEPT !.i = @ + 1]
      BY <1>2 DEF Advance
    <2>2. ASSUME NEW n \in 1..14, NEW i \in 1..14, i < n PROVE i + 1 \in 1..14 /\ i + 1 <= n
      BY <2>2
    <2>3. agent.i + 1 \in 1..14 /\ agent.i + 1 <= Len(Steps)
      BY <1>1, <1>2, <2>2
    <2> QED BY <2>1, <2>3 DEF Recs
  <1>3. CASE ~(agent.i < Len(Steps))
    <2>1. agent' = [agent EXCEPT !.pc = IF mode = "kubeadm" THEN "patch" ELSE "proxy", !.boot = TRUE]
      BY <1>3 DEF Advance
    <2> QED BY <2>1 DEF Recs
  <1> QED BY <1>2, <1>3

(* And one of the reset. *)
LEMMA ResetTo ==
    ASSUME agent \in Recs, agent.pc = "reset", agent.i <= 7, NextReset
    PROVE  /\ agent' \in Recs /\ agent'.why = agent.why
           /\ \/ agent'.pc = "reset" /\ agent'.i = agent.i + 1 /\ agent.i < 7
              \/ agent'.pc = "patch" /\ agent.i = 7
  <1>1. agent.i \in 1..14 /\ Len(ResetSteps) = 7
    BY ResetStepAt DEF Recs
  <1>2. CASE agent.i < 7
    <2>1. agent' = [agent EXCEPT !.i = @ + 1] /\ agent.i + 1 \in 1..14
      BY <1>1, <1>2 DEF NextReset
    <2> QED BY <1>1, <1>2, <2>1 DEF Recs
  <1>3. CASE agent.i = 7
    <2>1. agent' = [agent EXCEPT !.pc = "patch", !.boot = FALSE,
                                 !.comp = IF agent.why = "clean" THEN FALSE ELSE @]
      BY <1>1, <1>3 DEF NextReset
    <2> QED BY <1>3, <2>1 DEF Recs
  <1> QED BY <1>1, <1>2, <1>3

(* What the steps write is of its type. *)
LEMMA WrittenTypes ==
    ASSUME TypeOK
    PROVE  /\ Idle \in Recs /\ 0 \in Gens /\ host.machine \in Gens
           /\ DaemonReload => loaded' \in [Units -> Gens]
           /\ StartKubelet => svc' \in SvcRec
           /\ StartProxy => svc' \in SvcRec
           /\ \A S : Remove(S) \in [Files -> Gens]
           /\ \A f \in Files : [disk EXCEPT ![f] = host.machine] \in [Files -> Gens]
           /\ \A S : Write(S) \in [Files -> Gens]
  <1>1. /\ host \in HostRec /\ disk \in [Files -> Gens] /\ loaded \in [Units -> Gens]
        /\ svc \in SvcRec /\ binaries \in BOOLEAN
    BY Types
  <1>2. 0 \in Gens /\ host.machine \in Gens
    BY <1>1, MachinesAssumption DEF Gens, HostRec
  <1>3. Idle \in Recs
    BY DEF Idle, Recs
  <1>4. DaemonReload => loaded' \in [Units -> Gens]
    <2>1. \A u \in Units : disk[u] \in Gens
      BY <1>1 DEF Units, Files
    <2> QED BY <2>1 DEF DaemonReload
  <1>5. StartKubelet => svc' \in SvcRec
    BY <1>1 DEF StartKubelet, SvcRec
  <1>6. StartProxy => svc' \in SvcRec
    <2>1. disk["proxy-kubeconfig"] \in Gens
      BY <1>1 DEF Files, ConfigFiles
    <2> QED BY <1>1, <2>1 DEF StartProxy, SvcRec
  <1>7. \A S : Remove(S) \in [Files -> Gens]
    BY <1>1, <1>2 DEF Remove
  <1>8. \A f \in Files : [disk EXCEPT ![f] = host.machine] \in [Files -> Gens]
    BY <1>1, <1>2
  <1>9. \A S : Write(S) \in [Files -> Gens]
    BY <1>1, <1>2 DEF Write
  <1> QED BY <1>2, <1>3, <1>4, <1>5, <1>6, <1>7, <1>8, <1>9

(* Every step of the agent, of the drift detector, of systemd and of the *)
(* controllers keeps the types.                                          *)
LEMMA TypeStep ==
    ASSUME TypeOK, SetupInv, [Next]_vars
    PROVE  TypeOK'
  <1>0. /\ mode \in Modes /\ manage \in BOOLEAN /\ binaries \in BOOLEAN
        /\ keys \in SUBSET {"ca.crt", "bootstrap-kubeconfig"}
        /\ host \in HostRec /\ disk \in [Files -> Gens] /\ loaded \in [Units -> Gens]
        /\ svc \in SvcRec
        /\ agent \in Recs /\ (agent.pc = "reset" => agent.i <= 7)
        /\ drift \in {"none", "containerd", "kubelet"}
        /\ spoiled \subseteq Mishaps
        /\ faults \in 0..MaxFaults
    BY Types
  <1> DEFINE T == /\ mode' \in Modes /\ manage' \in BOOLEAN /\ binaries' \in BOOLEAN
                  /\ keys' \in SUBSET {"ca.crt", "bootstrap-kubeconfig"}
                  /\ host' \in HostRec /\ disk' \in [Files -> Gens] /\ loaded' \in [Units -> Gens]
                  /\ svc' \in SvcRec
                  /\ agent' \in Recs /\ (agent'.pc = "reset" => agent'.i <= 7)
                  /\ drift' \in {"none", "containerd", "kubelet"}
                  /\ spoiled' \subseteq Mishaps
                  /\ faults' \in 0..MaxFaults
  <1>T. T => TypeOK'
    <2>1. Len(ResetSteps)' = 7
      BY DEF ResetSteps
    <2> QED BY <2>1 DEF TypeOK, Modes, HostRec, SvcRec
  <1>W. agent.pc = "boot" => agent.i <= Len(Steps)
    BY DEF SetupInv
  <1>S. ASSUME NEW x \in Mishaps, Spoil(x) PROVE spoiled' \subseteq Mishaps
    BY <1>0, <1>S DEF Spoil
  <1>A. ASSUME agent.pc = "boot", Advance
        PROVE  agent' \in Recs /\ agent'.pc # "reset"
    BY <1>0, <1>W, <1>A, AdvanceTo
  <1>R. ASSUME agent.pc = "reset", NextReset
        PROVE  agent' \in Recs /\ (agent'.pc = "reset" => agent'.i <= 7)
    <2>1. agent.i \in 1..14
      BY <1>0 DEF Recs
    <2> QED BY <1>0, <1>R, <2>1, ResetTo
  <1> HIDE DEF T
  <1>1. CASE AgentReconcile
    <2>1. agent' \in Recs /\ (agent'.pc = "reset" => agent'.i <= 7)
      <3> DEFINE r == [Idle EXCEPT !.comp = host.comp, !.boot = host.boot]
      <3>0. host.comp \in BOOLEAN /\ host.boot \in BOOLEAN
        BY <1>0 DEF HostRec
      <3>1. r \in Recs /\ r.i = 1
        <4>1. Idle \in Recs /\ Idle.i = 1
          BY WrittenTypes DEF Idle
        <4> HIDE DEF Idle
        <4> QED BY <3>0, <4>1, Zenon DEF Recs
      <3>2. \/ agent' = [r EXCEPT !.pc = "reset", !.why = "clean"]
            \/ agent' = [r EXCEPT !.pc = IF host.comp THEN "boot" ELSE "install"]
        BY <1>1 DEF AgentReconcile
      <3> HIDE DEF r
      <3>3. CASE agent' = [r EXCEPT !.pc = "reset", !.why = "clean"]
        <4>1. agent'.i = 1
          BY <3>1, <3>3 DEF Recs
        <4>2. agent' \in Recs
          BY <3>1, <3>3 DEF Recs
        <4> QED BY <4>1, <4>2
      <3>4. CASE agent' = [r EXCEPT !.pc = IF host.comp THEN "boot" ELSE "install"]
        BY <3>1, <3>4 DEF Recs
      <3> QED BY <3>2, <3>3, <3>4
    <2>2. spoiled' \subseteq Mishaps
      BY <1>0, <1>1 DEF AgentReconcile
    <2>3. UNCHANGED <<mode, manage, binaries, keys, host, disk, loaded, svc, drift, faults>>
      BY <1>1 DEF AgentReconcile
    <2> QED BY <1>0, <1>T, <2>1, <2>2, <2>3 DEF T
  <1>2. CASE Install
    <2>1. agent' \in Recs /\ agent'.pc # "reset"
      BY <1>0, <1>2 DEF Install, Recs
    <2>2. binaries' \in BOOLEAN
      BY <1>0, <1>2 DEF Install
    <2>3. faults' \in 0..MaxFaults
      BY <1>0, <1>2, FaultType DEF Install
    <2>4. UNCHANGED <<mode, manage, keys, host, disk, loaded, svc, drift, spoiled>>
      BY <1>2 DEF Install
    <2> QED BY <1>0, <1>T, <2>1, <2>2, <2>3, <2>4 DEF T
  <1>3. CASE StepFails
    <2>1. agent' \in Recs /\ (agent'.pc = "reset" => agent'.i <= 7)
      <3>1. CASE Step = "ca"
        BY <1>3, <1>A, <3>1 DEF StepFails, Failed
      <3>2. CASE Step # "ca"
        <4>1. \/ agent' = [agent EXCEPT !.pc = "patch"]
              \/ agent' = [agent EXCEPT !.pc = "reset", !.i = 1, !.why = "failed"]
          BY <1>3, <3>2 DEF StepFails, Failed
        <4>2. CASE agent' = [agent EXCEPT !.pc = "patch"]
          BY <1>0, <4>2 DEF Recs
        <4>3. CASE agent' = [agent EXCEPT !.pc = "reset", !.i = 1, !.why = "failed"]
          <5>1. agent'.i = 1
            BY <1>0, <4>3 DEF Recs
          <5>2. agent' \in Recs
            <6>1. 1 \in 1..14
              OBVIOUS
            <6> QED BY <1>0, <4>3, <6>1, Zenon DEF Recs
          <5> QED BY <5>1, <5>2
        <4> QED BY <4>1, <4>2, <4>3
      <3> QED BY <3>1, <3>2
    <2>2. faults' \in 0..MaxFaults
      BY <1>0, <1>3, FaultType DEF StepFails
    <2>3. disk' = disk \/ \E S : disk' = Write(S)
      BY <1>3 DEF StepFails
    <2>4. disk' \in [Files -> Gens]
      BY <1>0, <2>3, WrittenTypes
    <2>5. UNCHANGED <<mode, manage, binaries, keys, host, loaded, svc, drift, spoiled>>
      BY <1>3 DEF StepFails
    <2> QED BY <1>0, <1>T, <2>1, <2>2, <2>4, <2>5 DEF T
  <1>4. CASE WriteFile
    <2>1. agent' \in Recs /\ agent'.pc # "reset"
      BY <1>4, <1>A DEF WriteFile
    <2>2. disk' \in [Files -> Gens]
      <3>1. disk' = disk \/ \E S : disk' = Write(S)
        BY <1>4 DEF WriteFile
      <3> QED BY <1>0, <3>1, WrittenTypes
    <2>3. UNCHANGED <<mode, manage, binaries, keys, host, loaded, svc, drift, spoiled, faults>>
      BY <1>4 DEF WriteFile
    <2> QED BY <1>0, <1>T, <2>1, <2>2, <2>3 DEF T
  <1>5. CASE OtherStep
    <2>1. agent' \in Recs /\ agent'.pc # "reset"
      BY <1>5, <1>A DEF OtherStep
    <2>2. disk' \in [Files -> Gens]
      BY <1>0, <1>5, WrittenTypes DEF OtherStep
    <2>3. svc' \in SvcRec
      BY <1>0, <1>5, WrittenTypes DEF OtherStep, SvcRec
    <2>4. UNCHANGED <<mode, manage, binaries, keys, host, loaded, drift, spoiled, faults>>
      BY <1>5 DEF OtherStep
    <2> QED BY <1>0, <1>T, <2>1, <2>2, <2>3, <2>4 DEF T
  <1>6. CASE SystemctlStep
    <2>1. agent' \in Recs /\ agent'.pc # "reset"
      BY <1>6, <1>A DEF SystemctlStep
    <2>2. svc' \in SvcRec /\ loaded' \in [Units -> Gens]
      BY <1>0, <1>6, WrittenTypes DEF SystemctlStep
    <2>3. UNCHANGED <<mode, manage, binaries, keys, host, disk, drift, spoiled, faults>>
      BY <1>6 DEF SystemctlStep
    <2> QED BY <1>0, <1>T, <2>1, <2>2, <2>3 DEF T
  <1>7. CASE ProxyIfNeeded
    <2>1. agent' \in Recs /\ agent'.pc # "reset"
      BY <1>0, <1>7 DEF ProxyIfNeeded, Recs
    <2>2. /\ "proxy-config" \in Files /\ "proxy-unit" \in Files
          /\ disk["proxy-config"] \in Gens /\ disk["kubelet-unit"] \in Gens
      BY <1>0 DEF Files, ConfigFiles, Units
    <2>3. disk' \in [Files -> Gens]
      <3>1. [disk EXCEPT !["proxy-config"] = IF @ = 0 THEN host.machine ELSE @,
                         !["proxy-unit"] = host.machine] \in [Files -> Gens]
        BY <1>0, <2>2, WrittenTypes
      <3> QED BY <1>0, <1>7, <2>2, <3>1, WrittenTypes DEF ProxyIfNeeded
    <2>4. loaded' \in [Units -> Gens]
      <3>1. [loaded EXCEPT !["kubelet-unit"] = disk["kubelet-unit"],
                           !["proxy-unit"] = host.machine] \in [Units -> Gens]
        BY <1>0, <2>2, WrittenTypes
      <3> QED BY <1>0, <1>7, <3>1 DEF ProxyIfNeeded
    <2>5. svc' \in SvcRec
      <3>1. UNCHANGED svc \/ StartProxy
        BY <1>7 DEF ProxyIfNeeded
      <3> QED BY <1>0, <3>1, WrittenTypes
    <2>6. faults' \in 0..MaxFaults
      BY <1>0, <1>7, FaultType DEF ProxyIfNeeded
    <2>7. UNCHANGED <<mode, manage, binaries, keys, host, drift, spoiled>>
      BY <1>7 DEF ProxyIfNeeded
    <2> QED BY <1>0, <1>T, <2>1, <2>3, <2>4, <2>5, <2>6, <2>7 DEF T
  <1>8. CASE ResetRemoves
    <2>1. agent' \in Recs /\ (agent'.pc = "reset" => agent'.i <= 7)
      BY <1>8, <1>R DEF ResetRemoves
    <2>2. disk' \in [Files -> Gens]
      <3>1. \E S : disk' = Remove(S)
        BY <1>8 DEF ResetRemoves
      <3> QED BY <3>1, WrittenTypes
    <2>3. spoiled' \subseteq Mishaps
      <3>1. "files" \in Mishaps /\ "dirs" \in Mishaps
        BY DEF Mishaps
      <3>2. UNCHANGED spoiled \/ Spoil("files") \/ Spoil("dirs")
        BY <1>8 DEF ResetRemoves
      <3> QED BY <1>0, <1>S, <3>1, <3>2
    <2>4. faults' \in 0..MaxFaults
      BY <1>0, <1>8, FaultType DEF ResetRemoves
    <2>5. UNCHANGED <<mode, manage, binaries, keys, host, loaded, svc, drift>>
      BY <1>8 DEF ResetRemoves
    <2> QED BY <1>0, <1>T, <2>1, <2>2, <2>3, <2>4, <2>5 DEF T
  <1>9. CASE KubeadmReset
    <2>1. agent' \in Recs /\ (agent'.pc = "reset" => agent'.i <= 7)
      BY <1>9, <1>R DEF KubeadmReset
    <2>2. disk' \in [Files -> Gens]
      BY <1>0, <1>9, WrittenTypes DEF KubeadmReset
    <2>3. svc' \in SvcRec
      <3>1. [svc EXCEPT !.want = FALSE, !.kubelet = 0] \in SvcRec
        BY <1>0, WrittenTypes DEF SvcRec
      <3> QED BY <1>0, <1>9, <3>1 DEF KubeadmReset
    <2>4. UNCHANGED <<mode, manage, binaries, keys, host, loaded, drift, spoiled, faults>>
      BY <1>9 DEF KubeadmReset
    <2> QED BY <1>0, <1>T, <2>1, <2>2, <2>3, <2>4 DEF T
  <1>10. CASE ResetStops
    <2>1. agent' \in Recs /\ (agent'.pc = "reset" => agent'.i <= 7)
      BY <1>10, <1>R DEF ResetStops
    <2>2. svc' \in SvcRec
      <3>1. /\ [svc EXCEPT !.want = FALSE, !.kubelet = 0] \in SvcRec
            /\ [svc EXCEPT !.containerd = FALSE] \in SvcRec
            /\ [svc EXCEPT !.proxy = IF manage THEN 0 ELSE @] \in SvcRec
        BY <1>0, WrittenTypes DEF SvcRec
      <3> QED BY <1>0, <1>10, <3>1 DEF ResetStops
    <2>3. loaded' \in [Units -> Gens]
      BY <1>0, <1>10, WrittenTypes DEF ResetStops
    <2>4. UNCHANGED <<mode, manage, binaries, keys, host, disk, drift, spoiled, faults>>
      BY <1>10 DEF ResetStops
    <2> QED BY <1>0, <1>T, <2>1, <2>2, <2>3, <2>4 DEF T
  <1>11. CASE ResetCommandFails
    <2>1. agent' \in Recs /\ (agent'.pc = "reset" => agent'.i <= 7)
      BY <1>11, <1>R DEF ResetCommandFails
    <2>2. spoiled' \subseteq Mishaps
      BY <1>0, <1>11, <1>S DEF ResetCommandFails, Mishaps
    <2>3. faults' \in 0..MaxFaults
      BY <1>0, <1>11, FaultType DEF ResetCommandFails
    <2>4. UNCHANGED <<mode, manage, binaries, keys, host, disk, loaded, svc, drift>>
      BY <1>11 DEF ResetCommandFails
    <2> QED BY <1>0, <1>T, <2>1, <2>2, <2>3, <2>4 DEF T
  <1>12. CASE Patch
    <2>1. agent' = Idle
      BY <1>12 DEF Patch
    <2>2. host' \in HostRec
      <3>1. agent.comp \in BOOLEAN /\ agent.boot \in BOOLEAN
        BY <1>0 DEF Recs
      <3>2. \/ host' = [host EXCEPT !.comp = agent.comp, !.boot = agent.boot,
                                    !.state = IF agent.why = "clean" THEN "free" ELSE @]
            \/ host' = [host EXCEPT !.comp = agent.comp, !.boot = agent.boot]
            \/ host' = host
        BY <1>12 DEF Patch
      <3> QED BY <1>0, <3>1, <3>2 DEF HostRec
    <2>3. faults' \in 0..MaxFaults
      BY <1>0, <1>12, FaultType DEF Patch
    <2>4. UNCHANGED <<mode, manage, binaries, keys, disk, loaded, svc, drift, spoiled>>
      BY <1>12 DEF Patch
    <2>5. Idle \in Recs /\ Idle.pc = "idle"
      BY WrittenTypes DEF Idle
    <2> QED BY <1>0, <1>T, <2>1, <2>2, <2>3, <2>4, <2>5 DEF T
  <1>13. CASE AgentCrashes
    <2>1. Idle \in Recs /\ Idle.pc = "idle"
      BY WrittenTypes DEF Idle
    <2>2. faults' \in 0..MaxFaults
      BY <1>0, <1>13, FaultType DEF AgentCrashes
    <2>3. /\ agent' = Idle /\ drift' = "none"
          /\ UNCHANGED <<mode, manage, binaries, keys, host, disk, loaded, svc, spoiled>>
      BY <1>13 DEF AgentCrashes
    <2> QED BY <1>0, <1>T, <2>1, <2>2, <2>3 DEF T
  <1>14. ASSUME NEW s \in {"containerd", "kubelet"}, DriftChecks(s)
         PROVE  TypeOK'
    BY <1>0, <1>T, <1>14 DEF T, DriftChecks
  <1>15. CASE DriftStarts
    <2>1. svc' \in SvcRec
      <3>1. [svc EXCEPT !.containerd = binaries] \in SvcRec
        BY <1>0 DEF SvcRec
      <3>2. svc' = [svc EXCEPT !.containerd = binaries] \/ StartKubelet \/ UNCHANGED svc
        BY <1>15 DEF DriftStarts
      <3> QED BY <1>0, <3>1, <3>2, WrittenTypes
    <2>2. spoiled' \subseteq Mishaps
      <3>1. "service" \in Mishaps
        BY DEF Mishaps
      <3>2. Spoil("service") \/ UNCHANGED spoiled
        BY <1>15 DEF DriftStarts
      <3> QED BY <1>0, <1>S, <3>1, <3>2
    <2>3. /\ drift' = "none"
          /\ UNCHANGED <<mode, manage, binaries, keys, host, disk, loaded, agent, faults>>
      BY <1>15 DEF DriftStarts
    <2> QED BY <1>0, <1>T, <2>1, <2>2, <2>3 DEF T
  <1>16. CASE KubeletRuns
    <2>1. disk["kubelet.conf"] \in Gens /\ disk["bootstrap-kubeconfig"] \in Gens
      BY <1>0 DEF Files, ConfigFiles
    <2>2. PICK g \in Gens : /\ svc' = [svc EXCEPT !.kubelet = g]
                            /\ disk' = [disk EXCEPT !["kubelet.conf"] = g]
      BY <1>16, <2>1 DEF KubeletRuns
    <2>3. svc' \in SvcRec
      BY <1>0, <2>2 DEF SvcRec
    <2>4. disk' \in [Files -> Gens]
      BY <1>0, <2>2
    <2>5. UNCHANGED <<mode, manage, binaries, keys, host, loaded, agent, drift, spoiled, faults>>
      BY <1>16 DEF KubeletRuns
    <2> QED BY <1>0, <1>T, <2>3, <2>4, <2>5 DEF T
  <1>17. CASE ServiceDies
    <2>1. svc' \in SvcRec
      <3>1. [svc EXCEPT !.kubelet = 0] \in SvcRec /\ [svc EXCEPT !.containerd = FALSE] \in SvcRec
        BY <1>0, WrittenTypes DEF SvcRec
      <3> QED BY <1>17, <3>1 DEF ServiceDies
    <2>2. faults' \in 0..MaxFaults
      BY <1>0, <1>17, FaultType DEF ServiceDies
    <2>3. UNCHANGED <<mode, manage, binaries, keys, host, disk, loaded, agent, drift, spoiled>>
      BY <1>17 DEF ServiceDies
    <2> QED BY <1>0, <1>T, <2>1, <2>2, <2>3 DEF T
  <1>18. CASE Claimed
    <2>1. host.machine + 1 \in Gens
      BY <1>18, WrittenTypes, MachinesAssumption DEF Claimed, Gens
    <2>2. host' \in HostRec
      BY <1>0, <1>18, <2>1 DEF Claimed, HostRec
    <2>3. UNCHANGED <<mode, manage, binaries, keys, disk, loaded, svc, agent, drift, spoiled, faults>>
      BY <1>18 DEF Claimed
    <2> QED BY <1>0, <1>T, <2>2, <2>3 DEF T
  <1>19. CASE Marked
    <2>1. host' \in HostRec
      BY <1>0, <1>19 DEF Marked, HostRec
    <2>2. UNCHANGED <<mode, manage, binaries, keys, disk, loaded, svc, agent, drift, spoiled, faults>>
      BY <1>19 DEF Marked
    <2> QED BY <1>0, <1>T, <2>1, <2>2 DEF T
  <1>20. CASE UNCHANGED vars
    BY <1>0, <1>T, <1>20 DEF T, vars
  <1> QED
    BY <1>1, <1>2, <1>3, <1>4, <1>5, <1>6, <1>7, <1>8, <1>9, <1>10, <1>11, <1>12, <1>13, <1>14,
       <1>15, <1>16, <1>17, <1>18, <1>19, <1>20 DEF Next, AgentStep

(* What the steps do to the files and services that the invariant is about: they *)
(* write the machine's own, or remove, and kube-proxy is started from the disk.   *)
Sensitive == ConfigFiles \cup {"kubelet.conf"}

LEMMA SensitiveFiles ==
    /\ Sensitive \subseteq Files /\ Sensitive \subseteq FilesToRemove
    /\ Sensitive \subseteq UNION DirsToRemove
    /\ "proxy-kubeconfig" \in Sensitive /\ "bootstrap-kubeconfig" \in Sensitive
    /\ "kubelet-config" \in ConfigFiles /\ "proxy-kubeconfig" \in ConfigFiles
    /\ "bootstrap-kubeconfig" \in ConfigFiles /\ "kubelet.conf" \notin ConfigFiles
  BY DEF Sensitive, Files, FilesToRemove, DirsToRemove, ConfigFiles

(* A step of the agent other than one of a cleanup: the host is claimed or marked, *)
(* and what the step leaves on it is of its machine if it was before.              *)
LEMMA WorkKeeps ==
    ASSUME SetupInv, UNCHANGED <<host, spoiled, manage, mode>>,
           host.state # "free", agent'.why # "clean",
           agent'.pc \in {"install", "boot"} => agent'.i <= Len(Steps),
           \A f \in Sensitive : disk'[f] \in {0, host.machine, disk[f]},
           svc'.kubelet \in {0, host.machine, svc.kubelet},
           svc'.proxy \in {0, svc.proxy, disk["proxy-kubeconfig"]},
           svc'.proxy # 0 => manage
    PROVE  SetupInv'
  <1>1. Steps' = Steps
    BY DEF Steps, TLSSteps, CloudInitSteps
  <1>2. /\ agent'.pc \in {"install", "boot"} => agent'.i <= Len(Steps')
        /\ host'.state # "free" /\ agent'.why # "clean" /\ (svc'.proxy # 0 => manage')
    BY <1>1
  <1>3. /\ ~Cleaned(2)' /\ ~Cleaned(4)' /\ ~Cleaned(5)' /\ ~Cleaned(7)'
    BY <1>2 DEF Cleaned
  <1>4. ASSUME host'.state = "claimed", OneRemovalDone', ServicesStopped'
        PROVE  /\ HasOnly({0, host.machine})' /\ KubeletConfIn({0, host.machine})'
               /\ svc'.kubelet \in {0, host'.machine} /\ svc'.proxy \in {0, host'.machine}
    <2>1. /\ HasOnly({0, host.machine}) /\ KubeletConfIn({0, host.machine})
          /\ svc.kubelet \in {0, host.machine} /\ svc.proxy \in {0, host.machine}
          /\ ServicesStopped
      BY <1>4 DEF SetupInv, OneRemovalDone, ServicesStopped
    <2>2. \A f \in Sensitive : disk[f] \in {0, host.machine}
      BY <2>1 DEF HasOnly, KubeletConfIn, Sensitive
    <2>3. \A f \in Sensitive : disk'[f] \in {0, host'.machine}
      BY <2>2
    <2>4. svc'.kubelet \in {0, host'.machine} /\ svc'.proxy \in {0, host'.machine}
      BY <2>1, <2>2, SensitiveFiles
    <2> QED BY <2>3, <2>4 DEF HasOnly, KubeletConfIn, Sensitive
  <1> QED BY <1>2, <1>3, <1>4 DEF SetupInv

(* A step that only changes what the invariant does not speak of. *)
LEMMA NothingChanges ==
    ASSUME SetupInv, UNCHANGED <<host, disk, agent, spoiled, manage, mode>>,
           svc'.want => svc.want, svc'.kubelet \in {0, svc.kubelet}, svc'.proxy = svc.proxy
    PROVE  SetupInv'
  <1>1. Steps' = Steps
    BY DEF Steps, TLSSteps, CloudInitSteps
  <1>2. \A k \in {2, 4, 5, 7} : Cleaned(k)' <=> Cleaned(k)
    BY DEF Cleaned
  <1>3. (ServicesStopped' <=> ServicesStopped) /\ (OneRemovalDone' <=> OneRemovalDone)
    BY DEF ServicesStopped, OneRemovalDone
  <1>4. /\ HasOnly({0})' <=> HasOnly({0})
        /\ HasOnly({0, host.machine})' <=> HasOnly({0, host.machine})
        /\ KubeletConfIn({0})' <=> KubeletConfIn({0})
        /\ KubeletConfIn({0, host.machine})' <=> KubeletConfIn({0, host.machine})
    BY <1>3 DEF HasOnly, KubeletConfIn
  <1> QED BY <1>1, <1>2, <1>3, <1>4 DEF SetupInv

(* A step of a cleanup does its part: the second stops kubelet, the fourth         *)
(* kube-proxy, the fifth removes the files and the seventh the directories, or      *)
(* the history says that it did not.  The other steps start and write nothing.      *)
LEMMA CleanKeeps ==
    ASSUME TypeOK, SetupInv, agent.pc = "reset", agent.why = "clean", NextReset,
           UNCHANGED <<host, manage, mode>>, spoiled \subseteq spoiled',
           svc'.want => svc.want, svc'.kubelet \in {0, svc.kubelet}, svc'.proxy \in {0, svc.proxy},
           agent.i = 2 /\ ServicesStopped' => ~svc'.want /\ svc'.kubelet = 0,
           agent.i = 4 /\ ServicesStopped' => svc'.proxy = 0,
           \A f \in Sensitive : disk'[f] \in {0, disk[f]},
           agent.i = 5 /\ "files" \notin spoiled' => \A f \in Sensitive : disk'[f] = 0,
           agent.i = 7 /\ "dirs" \notin spoiled' => \A f \in Sensitive : disk'[f] = 0
    PROVE  SetupInv'
  <1>1. agent \in Recs /\ agent.i <= 7 /\ agent.i \in 1..14
    BY Types DEF Recs
  <1>2. /\ agent'.why = "clean"
        /\ \/ agent'.pc = "reset" /\ agent'.i = agent.i + 1 /\ agent.i < 7
           \/ agent'.pc = "patch" /\ agent.i = 7
    BY <1>1, ResetTo
  <1>3. host'.state = "marked"
    BY DEF SetupInv
  <1>4. \A k \in {2, 4, 5} : Cleaned(k)' => agent.i = k \/ Cleaned(k)
    BY <1>1, <1>2 DEF Cleaned
  <1>5. Cleaned(7)' => agent.i = 7
    BY <1>1, <1>2 DEF Cleaned
  <1>6. ServicesStopped' => ServicesStopped
    BY DEF ServicesStopped
  <1>7. Cleaned(2)' /\ ServicesStopped' => ~svc'.want /\ svc'.kubelet = 0
    BY <1>4, <1>6 DEF SetupInv
  <1>8. Cleaned(4)' /\ ServicesStopped' => svc'.proxy = 0
    BY <1>4, <1>6 DEF SetupInv
  <1>9. ASSUME Cleaned(5), "files" \notin spoiled'
        PROVE  HasOnly({0})' /\ KubeletConfIn({0})'
    <2>1. HasOnly({0}) /\ KubeletConfIn({0})
      BY <1>9 DEF SetupInv
    <2> QED BY <2>1, <1>6 DEF HasOnly, KubeletConfIn, Sensitive
  <1>10. ASSUME \A f \in Sensitive : disk'[f] = 0
         PROVE  HasOnly({0})' /\ KubeletConfIn({0})'
    BY <1>10 DEF HasOnly, KubeletConfIn, Sensitive
  <1>11. Cleaned(5)' /\ "files" \notin spoiled' => HasOnly({0})' /\ KubeletConfIn({0})'
    BY <1>4, <1>9, <1>10
  <1>12. ASSUME Cleaned(7)', OneRemovalDone' PROVE HasOnly({0})' /\ KubeletConfIn({0})'
    <2>1. agent.i = 7 /\ Cleaned(5)
      BY <1>5, <1>12 DEF Cleaned
    <2>2. "files" \notin spoiled' \/ "dirs" \notin spoiled'
      BY <1>12 DEF OneRemovalDone
    <2> QED BY <1>9, <1>10, <2>1, <2>2
  <1>13. svc'.proxy # 0 => manage'
    BY DEF SetupInv
  <1> QED BY <1>2, <1>3, <1>7, <1>8, <1>11, <1>12, <1>13 DEF SetupInv

(* What a removal does to a file. *)
LEMMA Removed ==
    ASSUME NEW S, disk' = Remove(S)
    PROVE  \A f \in Sensitive : disk'[f] \in {0, disk[f]} /\ (f \in S => disk'[f] = 0)
  BY SensitiveFiles DEF Remove

(* The invariant is kept by the steps of a reset, of a cleanup or after a failed *)
(* bootstrap.                                                                    *)
LEMMA ResetKeeps ==
    ASSUME TypeOK, TypeOK', SetupInv, ResetRemoves \/ KubeadmReset \/ ResetStops \/ ResetCommandFails
    PROVE  SetupInv'
  <1>0. /\ agent.pc = "reset" /\ NextReset /\ UNCHANGED <<host, manage, mode>>
    BY DEF ResetRemoves, KubeadmReset, ResetStops, ResetCommandFails
  <1>1. /\ agent \in Recs /\ agent.i <= 7 /\ agent.i \in 1..7 /\ svc \in SvcRec /\ disk \in [Files -> Gens]
    BY <1>0, Types DEF Recs
  <1>2. /\ agent'.why = agent.why /\ agent'.pc \notin {"install", "boot"} /\ host.state # "free"
    BY <1>0, <1>1, ResetTo DEF SetupInv
  <1>3. /\ ResetStep = "kubeadm-reset" <=> agent.i = 1
        /\ ResetStep = "stop-kubelet" <=> agent.i = 2
        /\ ResetStep = "stop-containerd" <=> agent.i = 3
        /\ ResetStep = "stop-proxy" <=> agent.i = 4
        /\ ResetStep = "remove-files" <=> agent.i = 5
        /\ ResetStep = "reload" <=> agent.i = 6
        /\ ResetStep = "remove-dirs" <=> agent.i = 7
    BY <1>1, ResetStepAt DEF ResetStep
  <1> DEFINE Calm == /\ svc'.want => svc.want
                     /\ svc'.kubelet \in {0, svc.kubelet}
                     /\ svc'.proxy \in {0, svc.proxy}
                     /\ \A f \in Sensitive : disk'[f] \in {0, disk[f]}
  <1>4. Calm
    <2>1. CASE ResetRemoves
      <3>1. \E S : disk' = Remove(S)
        BY <2>1 DEF ResetRemoves
      <3>2. svc' = svc
        BY <2>1 DEF ResetRemoves
      <3> QED BY <3>1, <3>2, Removed
    <2>2. CASE KubeadmReset
      <3>1. disk' = disk \/ \E S : disk' = Remove(S)
        BY <2>2 DEF KubeadmReset
      <3>2. svc' = svc \/ svc' = [svc EXCEPT !.want = FALSE, !.kubelet = 0]
        BY <2>2 DEF KubeadmReset
      <3>3. \A f \in Sensitive : disk'[f] \in {0, disk[f]}
        BY <3>1, Removed
      <3> QED BY <1>1, <3>2, <3>3 DEF SvcRec
    <2>3. CASE ResetStops
      <3>1. disk' = disk
        BY <2>3 DEF ResetStops
      <3>2. \/ svc' = [svc EXCEPT !.want = FALSE, !.kubelet = 0]
            \/ svc' = [svc EXCEPT !.containerd = FALSE]
            \/ svc' = [svc EXCEPT !.proxy = IF manage THEN 0 ELSE @]
            \/ svc' = svc
        BY <2>3 DEF ResetStops
      <3> QED BY <1>1, <3>1, <3>2 DEF SvcRec
    <2>4. CASE ResetCommandFails
      BY <2>4 DEF ResetCommandFails
    <2> QED BY <2>1, <2>2, <2>3, <2>4
  <1>5. CASE agent.why = "clean"
    <2>1. spoiled \subseteq spoiled'
      BY <1>5 DEF ResetRemoves, KubeadmReset, ResetStops, ResetCommandFails, Spoil
    <2>2. ASSUME agent.i = 2, ServicesStopped' PROVE ~svc'.want /\ svc'.kubelet = 0
      <3>1. CASE ResetStops
        <4>1. svc' = [svc EXCEPT !.want = FALSE, !.kubelet = 0]
          BY <1>3, <2>2, <3>1 DEF ResetStops
        <4> QED BY <1>1, <4>1 DEF SvcRec
      <3>2. ~ResetCommandFails
        BY <1>3, <1>5, <2>2 DEF ResetCommandFails, Spoil, ServicesStopped
      <3> QED BY <1>3, <2>2, <3>1, <3>2 DEF ResetRemoves, KubeadmReset
    <2>3. ASSUME agent.i = 4, ServicesStopped' PROVE svc'.proxy = 0
      <3>1. CASE ResetStops
        <4>1. svc' = [svc EXCEPT !.proxy = IF manage THEN 0 ELSE @]
          BY <1>3, <2>3, <3>1 DEF ResetStops
        <4>2. svc.proxy # 0 => manage
          BY DEF SetupInv
        <4> QED BY <1>1, <4>1, <4>2 DEF SvcRec
      <3>2. ~ResetCommandFails
        BY <1>3, <1>5, <2>3 DEF ResetCommandFails, Spoil, ServicesStopped
      <3> QED BY <1>3, <2>3, <3>1, <3>2 DEF ResetRemoves, KubeadmReset
    <2>4. ASSUME agent.i = 5, "files" \notin spoiled' PROVE \A f \in Sensitive : disk'[f] = 0
      <3>1. ResetRemoves
        BY <1>3, <2>4 DEF KubeadmReset, ResetStops, ResetCommandFails
      <3>2. disk' = Remove(FilesToRemove)
        BY <1>3, <1>5, <2>4, <3>1 DEF ResetRemoves, Spoil
      <3> QED BY <3>2, Removed, SensitiveFiles
    <2>5. ASSUME agent.i = 7, "dirs" \notin spoiled' PROVE \A f \in Sensitive : disk'[f] = 0
      <3>1. ResetRemoves
        BY <1>3, <2>5 DEF KubeadmReset, ResetStops, ResetCommandFails
      <3>2. disk' = Remove(UNION DirsToRemove)
        BY <1>3, <1>5, <2>5, <3>1 DEF ResetRemoves, Spoil
      <3> QED BY <3>2, Removed, SensitiveFiles
    <2> QED BY <1>0, <1>4, <1>5, <2>1, <2>2, <2>3, <2>4, <2>5, CleanKeeps
  <1>6. CASE agent.why # "clean"
    <2>1. spoiled' = spoiled
      BY <1>6 DEF ResetRemoves, KubeadmReset, ResetStops, ResetCommandFails, Spoil
    <2>2. svc'.proxy # 0 => manage
      BY <1>4 DEF SetupInv
    <2> QED BY <1>0, <1>2, <1>4, <1>6, <2>1, <2>2, WorkKeeps
  <1> QED BY <1>5, <1>6

(* And by the steps of the installation and the bootstrap. *)
LEMMA BootKeeps ==
    ASSUME TypeOK, SetupInv,
           Install \/ StepFails \/ WriteFile \/ OtherStep \/ SystemctlStep \/ ProxyIfNeeded
    PROVE  SetupInv'
  <1>0. /\ agent.pc \in {"install", "boot", "proxy"} /\ UNCHANGED <<host, manage, mode, spoiled>>
    BY DEF Install, StepFails, WriteFile, OtherStep, SystemctlStep, ProxyIfNeeded
  <1>1. /\ agent \in Recs /\ svc \in SvcRec /\ disk \in [Files -> Gens]
    BY Types
  <1>2. /\ host.state # "free" /\ agent.why # "clean" /\ (svc.proxy # 0 => manage)
        /\ agent.pc \in {"install", "boot"} => agent.i <= Len(Steps)
    BY <1>0 DEF SetupInv
  <1>3. ASSUME agent.pc = "boot", Advance
        PROVE  agent'.why # "clean" /\ (agent'.pc \in {"install", "boot"} => agent'.i <= Len(Steps))
    BY <1>1, <1>2, <1>3, AdvanceTo
  <1>4. StartProxy => /\ svc'.proxy \in {0, svc.proxy, disk["proxy-kubeconfig"]}
                      /\ svc'.kubelet = svc.kubelet
    BY <1>1 DEF StartProxy, SvcRec
  <1>5. StartKubelet => svc'.proxy = svc.proxy /\ svc'.kubelet = svc.kubelet
    BY <1>1 DEF StartKubelet, SvcRec
  <1>W. ASSUME NEW S, disk' = Write(S)
        PROVE  \A f \in Sensitive : disk'[f] \in {0, host.machine, disk[f]}
    BY <1>W, SensitiveFiles DEF Write
  <1>6. CASE Install
    <2>1. UNCHANGED <<disk, svc>> /\ agent'.why = agent.why /\ agent'.i = agent.i /\ agent.pc = "install"
      BY <1>1, <1>6 DEF Install, Recs
    <2> QED BY <1>0, <1>2, <2>1, WorkKeeps
  <1>7. CASE StepFails
    <2>1. svc' = svc /\ (disk' = disk \/ \E S : disk' = Write(S))
      BY <1>7 DEF StepFails
    <2>3. \A f \in Sensitive : disk'[f] \in {0, host.machine, disk[f]}
      BY <1>W, <2>1
    <2>2. agent'.why # "clean" /\ (agent'.pc \in {"install", "boot"} => agent'.i <= Len(Steps))
      <3>1. CASE Step = "ca"
        BY <1>3, <1>7, <3>1 DEF StepFails, Failed
      <3>2. CASE Step # "ca"
        BY <1>1, <1>2, <1>7, <3>2 DEF StepFails, Failed, Recs
      <3> QED BY <3>1, <3>2
    <2> QED BY <1>0, <1>2, <2>1, <2>2, <2>3, WorkKeeps
  <1>8. CASE WriteFile
    <2>1. svc' = svc /\ agent'.why # "clean" /\ (agent'.pc \in {"install", "boot"} => agent'.i <= Len(Steps))
      BY <1>3, <1>8 DEF WriteFile
    <2>2. \A f \in Sensitive : disk'[f] \in {0, host.machine, disk[f]}
      <3>1. disk' = disk \/ \E S : disk' = Write(S)
        BY <1>8 DEF WriteFile
      <3> QED BY <1>W, <3>1
    <2> QED BY <1>0, <1>2, <2>1, <2>2, WorkKeeps
  <1>9. CASE OtherStep
    <2>1. agent'.why # "clean" /\ (agent'.pc \in {"install", "boot"} => agent'.i <= Len(Steps))
      BY <1>3, <1>9 DEF OtherStep
    <2>2. \A f \in Sensitive : disk'[f] \in {0, host.machine, disk[f]}
      BY <1>1, <1>9, SensitiveFiles DEF OtherStep
    <2>3. svc'.kubelet \in {0, host.machine, svc.kubelet} /\ svc'.proxy = svc.proxy
      BY <1>1, <1>9 DEF OtherStep, SvcRec
    <2> QED BY <1>0, <1>2, <2>1, <2>2, <2>3, WorkKeeps
  <1>10. CASE SystemctlStep
    <2>1. agent'.why # "clean" /\ (agent'.pc \in {"install", "boot"} => agent'.i <= Len(Steps)) /\ disk' = disk
      BY <1>3, <1>10 DEF SystemctlStep
    <2>2. svc' = svc \/ StartKubelet \/ (StartProxy /\ Step = "proxy-start")
      BY <1>10 DEF SystemctlStep
    <2>3. Step = "proxy-start" => manage
      <3>1. agent.i \in 1..14 /\ agent.i <= Len(Steps) /\ Len(Steps) \in 1..14
        BY <1>1, <1>2, <1>10, StepsLen DEF SystemctlStep, Recs
      <3>2. ASSUME NEW n \in 1..14, NEW i \in 1..14, i <= n PROVE i \in 1..n
        BY <3>2
      <3>3. agent.i \in 1..Len(Steps)
        BY <3>1, <3>2
      <3> QED BY <3>3, StepsLen DEF Step
    <2> QED BY <1>0, <1>2, <1>4, <1>5, <2>1, <2>2, <2>3, WorkKeeps
  <1>11. CASE ProxyIfNeeded
    <2>1. agent'.why # "clean" /\ agent'.pc = "patch"
      BY <1>1, <1>2, <1>11 DEF ProxyIfNeeded, Recs
    <2>2. \A f \in Sensitive : disk'[f] \in {0, host.machine, disk[f]}
      BY <1>1, <1>11, SensitiveFiles DEF ProxyIfNeeded
    <2>3. svc' = svc \/ (StartProxy /\ manage)
      BY <1>11 DEF ProxyIfNeeded
    <2> QED BY <1>0, <1>2, <1>4, <2>1, <2>2, <2>3, WorkKeeps
  <1> QED BY <1>6, <1>7, <1>8, <1>9, <1>10, <1>11

(* By the patch that ends a reconcile and, of a clean host, puts it back into the *)
(* pool, and by a crash of the agent.                                             *)
LEMMA PatchKeeps ==
    ASSUME TypeOK, SetupInv, Patch \/ AgentCrashes
    PROVE  SetupInv'
  <1>0. /\ agent' = Idle /\ UNCHANGED <<manage, mode, disk, svc, spoiled>>
    BY DEF Patch, AgentCrashes
  <1>1. host \in HostRec /\ agent \in Recs
    BY Types
  <1>2. /\ agent'.pc = "idle" /\ agent'.why = "none"
        /\ ~Cleaned(2)' /\ ~Cleaned(4)' /\ ~Cleaned(5)' /\ ~Cleaned(7)'
    BY <1>0 DEF Idle, Cleaned
  <1>3. /\ ServicesStopped' <=> ServicesStopped
        /\ OneRemovalDone' <=> OneRemovalDone
        /\ \A G : (HasOnly(G) => \A f \in ConfigFiles : disk'[f] \in G)
        /\ \A G : (KubeletConfIn(G) /\ ServicesStopped => disk'["kubelet.conf"] \in G)
    BY <1>0 DEF ServicesStopped, OneRemovalDone, HasOnly, KubeletConfIn
  <1>4. /\ host'.machine = host.machine
        /\ \/ host'.state = host.state
           \/ host'.state = "free" /\ agent.why = "clean" /\ agent.pc = "patch"
    BY <1>1 DEF Patch, AgentCrashes, HostRec
  <1>5. ASSUME host'.state = "free", OneRemovalDone'
        PROVE  /\ HasOnly({0})' /\ KubeletConfIn({0})'
               /\ ServicesStopped' => svc'.kubelet = 0 /\ svc'.proxy = 0
    <2>1. /\ HasOnly({0}) /\ KubeletConfIn({0})
          /\ ServicesStopped => svc.kubelet = 0 /\ svc.proxy = 0
      <3>1. CASE host.state = "free"
        BY <1>3, <1>5, <3>1 DEF SetupInv
      <3>2. CASE agent.why = "clean" /\ agent.pc = "patch"
        <4>1. Cleaned(2) /\ Cleaned(4) /\ Cleaned(7)
          BY <3>2 DEF Cleaned
        <4> QED BY <1>3, <1>5, <4>1 DEF SetupInv
      <3> QED BY <1>4, <1>5, <3>1, <3>2
    <2> QED BY <1>0, <1>3, <2>1 DEF HasOnly, KubeletConfIn
  <1>6. ASSUME host'.state = "claimed", OneRemovalDone', ServicesStopped'
        PROVE  /\ HasOnly({0, host.machine})' /\ KubeletConfIn({0, host.machine})'
               /\ svc'.kubelet \in {0, host'.machine} /\ svc'.proxy \in {0, host'.machine}
    <2>1. /\ HasOnly({0, host.machine}) /\ KubeletConfIn({0, host.machine})
          /\ svc.kubelet \in {0, host.machine} /\ svc.proxy \in {0, host.machine}
      BY <1>3, <1>4, <1>6 DEF SetupInv
    <2> QED BY <1>0, <1>3, <1>4, <1>6, <2>1 DEF HasOnly, KubeletConfIn
  <1>7. svc'.proxy # 0 => manage'
    BY <1>0 DEF SetupInv
  <1> QED BY <1>2, <1>5, <1>6, <1>7 DEF SetupInv

(* By the start of a reconcile: a cleanup has done nothing yet, and its history   *)
(* starts anew.                                                                   *)
LEMMA ReconcileKeeps ==
    ASSUME TypeOK, SetupInv, AgentReconcile
    PROVE  SetupInv'
  <1> DEFINE r == [Idle EXCEPT !.comp = host.comp, !.boot = host.boot]
  <1>0. UNCHANGED <<host, manage, mode, disk, svc>>
    BY DEF AgentReconcile
  <1>1. /\ Idle \in Recs /\ Idle.i = 1 /\ Idle.why = "none"
    BY WrittenTypes DEF Idle
  <1>r. r \in Recs /\ r.i = 1 /\ r.why = "none"
    <2>1. host.comp \in BOOLEAN /\ host.boot \in BOOLEAN
      BY Types DEF HostRec
    <2> HIDE DEF Idle
    <2> QED BY <1>1, <2>1, Zenon DEF Recs
  <1>2. \/ host.state = "marked" /\ agent' = [r EXCEPT !.pc = "reset", !.why = "clean"]
        \/ /\ host.state = "claimed" /\ spoiled' = spoiled
           /\ agent' = [r EXCEPT !.pc = IF host.comp THEN "boot" ELSE "install"]
    BY DEF AgentReconcile
  <1> HIDE DEF r
  <1>3. CASE host.state = "marked" /\ agent' = [r EXCEPT !.pc = "reset", !.why = "clean"]
    <2>1. agent'.i = 1 /\ agent'.pc = "reset" /\ agent'.why = "clean"
      BY <1>r, <1>3 DEF Recs
    <2>2. ~Cleaned(2)' /\ ~Cleaned(4)' /\ ~Cleaned(5)' /\ ~Cleaned(7)'
      BY <2>1 DEF Cleaned
    <2> QED BY <1>0, <1>3, <2>1, <2>2 DEF SetupInv
  <1>4. CASE /\ host.state = "claimed" /\ spoiled' = spoiled
             /\ agent' = [r EXCEPT !.pc = IF host.comp THEN "boot" ELSE "install"]
    <2>1. agent'.i = 1 /\ agent'.why = "none"
      BY <1>r, <1>4 DEF Recs
    <2>2. agent'.i <= Len(Steps)
      <3>1. \A n \in 1..14 : 1 <= n
        OBVIOUS
      <3> QED BY <2>1, <3>1, StepsLen
    <2>3. svc.proxy # 0 => manage
      BY DEF SetupInv
    <2> QED BY <1>0, <1>4, <2>1, <2>2, <2>3, WorkKeeps
  <1> QED BY <1>2, <1>3, <1>4

(* By kubelet, which comes up on no free and no cleaned host, and on a claimed one *)
(* with the credentials of its machine.                                            *)
LEMMA KubeletKeeps ==
    ASSUME TypeOK, SetupInv, KubeletRuns
    PROVE  SetupInv'
  <1> DEFINE g == IF disk["kubelet.conf"] # 0 THEN disk["kubelet.conf"] ELSE disk["bootstrap-kubeconfig"]
  <1>0. /\ UNCHANGED <<mode, manage, host, agent, spoiled>>
        /\ svc.want /\ disk["kubelet-config"] # 0
        /\ svc' = [svc EXCEPT !.kubelet = g]
        /\ disk' = [disk EXCEPT !["kubelet.conf"] = g]
    BY DEF KubeletRuns
  <1>1. svc \in SvcRec /\ disk \in [Files -> Gens] /\ "kubelet.conf" \in Files
    BY Types DEF Files
  <1> HIDE DEF g
  <1>2. /\ svc'.kubelet = g /\ svc'.want = svc.want /\ svc'.proxy = svc.proxy
        /\ disk'["kubelet.conf"] = g
        /\ \A f \in ConfigFiles : disk'[f] = disk[f]
    <2>1. svc'.kubelet = g /\ svc'.want = svc.want /\ svc'.proxy = svc.proxy
      BY <1>0, <1>1 DEF SvcRec
    <2>2. \A f \in ConfigFiles : f \in Files /\ f # "kubelet.conf"
      BY DEF ConfigFiles, Files
    <2> QED BY <1>0, <1>1, <2>1, <2>2
  <1>3. Steps' = Steps
    BY <1>0 DEF Steps, TLSSteps, CloudInitSteps
  <1>4. /\ ServicesStopped' <=> ServicesStopped
        /\ OneRemovalDone' <=> OneRemovalDone
        /\ \A k \in {2, 4, 5, 7} : Cleaned(k)' <=> Cleaned(k)
    BY <1>0 DEF ServicesStopped, OneRemovalDone, Cleaned
  <1>5. ~(Cleaned(2) /\ ServicesStopped)
    BY <1>0 DEF SetupInv
  <1>7. ~HasOnly({0})
    BY <1>0, SensitiveFiles DEF HasOnly
  <1>8. ASSUME host.state = "claimed", OneRemovalDone, ServicesStopped
        PROVE  /\ HasOnly({0, host.machine})' /\ KubeletConfIn({0, host.machine})'
               /\ svc'.kubelet \in {0, host'.machine} /\ svc'.proxy \in {0, host'.machine}
    <2>1. /\ HasOnly({0, host.machine}) /\ KubeletConfIn({0, host.machine})
          /\ svc.proxy \in {0, host.machine}
      BY <1>8 DEF SetupInv
    <2>2. g \in {0, host.machine}
      BY <1>8, <2>1, SensitiveFiles DEF g, HasOnly, KubeletConfIn
    <2> QED BY <1>0, <1>2, <2>1, <2>2 DEF HasOnly, KubeletConfIn
  <1>9. ~(Cleaned(5) /\ "files" \notin spoiled) /\ ~(Cleaned(7) /\ OneRemovalDone)
        /\ ~(host.state = "free" /\ OneRemovalDone)
    BY <1>7 DEF SetupInv
  <1> QED BY <1>0, <1>2, <1>3, <1>4, <1>5, <1>8, <1>9 DEF SetupInv

(* By the drift detector, a service's death and the controllers. *)
LEMMA OthersKeep ==
    ASSUME TypeOK, SetupInv, NEW s \in {"containerd", "kubelet"},
           DriftChecks(s) \/ DriftStarts \/ ServiceDies \/ Claimed \/ Marked \/ UNCHANGED vars
    PROVE  SetupInv'
  <1>0. svc \in SvcRec /\ host \in HostRec /\ agent \in Recs
    BY Types
  <1>1. CASE DriftChecks(s) \/ UNCHANGED vars
    <2>1. UNCHANGED <<host, disk, agent, spoiled, manage, mode, svc>>
      BY <1>1 DEF DriftChecks, vars
    <2> QED BY <2>1, NothingChanges
  <1>2. CASE ServiceDies
    <2>1. UNCHANGED <<host, disk, agent, spoiled, manage, mode>>
      BY <1>2 DEF ServiceDies
    <2>2. svc' = [svc EXCEPT !.kubelet = 0] \/ svc' = [svc EXCEPT !.containerd = FALSE]
      BY <1>2 DEF ServiceDies
    <2>3. (svc'.want => svc.want) /\ svc'.kubelet \in {0, svc.kubelet} /\ svc'.proxy = svc.proxy
      BY <1>0, <2>2 DEF SvcRec
    <2> QED BY <2>1, <2>3, NothingChanges
  <1>3. CASE DriftStarts
    <2>1. UNCHANGED <<host, disk, agent, manage, mode>>
      BY <1>3 DEF DriftStarts
    <2>2. svc'.kubelet = svc.kubelet /\ svc'.proxy = svc.proxy
      BY <1>0, <1>3 DEF DriftStarts, StartKubelet, SvcRec
    <2>3. \/ UNCHANGED spoiled /\ (agent.why = "clean" => svc'.want = svc.want)
          \/ spoiled' = spoiled \cup {"service"}
      BY <1>0, <1>3 DEF DriftStarts, Spoil, SvcRec
    <2>4. /\ ServicesStopped' => ServicesStopped
          /\ OneRemovalDone' <=> OneRemovalDone
          /\ "files" \in spoiled' <=> "files" \in spoiled
          /\ ServicesStopped' /\ agent.why = "clean" => svc'.want = svc.want
      BY <2>3 DEF ServicesStopped, OneRemovalDone
    <2>5. \A k \in {2, 4, 5, 7} : Cleaned(k)' <=> Cleaned(k)
      BY <2>1 DEF Cleaned
    <2>6. \A k : Cleaned(k) => agent.why = "clean"
      BY DEF Cleaned
    <2>7. /\ HasOnly({0}) => HasOnly({0})'
          /\ KubeletConfIn({0}) => KubeletConfIn({0})'
          /\ HasOnly({0, host.machine}) => HasOnly({0, host.machine})'
          /\ KubeletConfIn({0, host.machine}) => KubeletConfIn({0, host.machine})'
      BY <2>1, <2>4 DEF HasOnly, KubeletConfIn
    <2>8. Steps' = Steps
      BY <2>1 DEF Steps, TLSSteps, CloudInitSteps
    <2> QED BY <2>1, <2>2, <2>4, <2>5, <2>6, <2>7, <2>8 DEF SetupInv
  <1>4. CASE Claimed
    <2>1. /\ host.state = "free" /\ host'.state = "claimed"
          /\ UNCHANGED <<mode, manage, disk, svc, agent, spoiled>>
      BY <1>0, <1>4 DEF Claimed, HostRec
    <2>2. agent.pc = "idle" /\ agent.why # "clean" /\ (svc.proxy # 0 => manage)
      BY <2>1 DEF SetupInv
    <2>3. ~Cleaned(2)' /\ ~Cleaned(4)' /\ ~Cleaned(5)' /\ ~Cleaned(7)'
      BY <2>1, <2>2 DEF Cleaned
    <2>4. ASSUME OneRemovalDone', ServicesStopped'
          PROVE  /\ HasOnly({0, host.machine})' /\ KubeletConfIn({0, host.machine})'
                 /\ svc'.kubelet \in {0, host'.machine} /\ svc'.proxy \in {0, host'.machine}
      <3>1. OneRemovalDone /\ ServicesStopped
        BY <2>1, <2>4 DEF OneRemovalDone, ServicesStopped
      <3>2. HasOnly({0}) /\ KubeletConfIn({0}) /\ svc.kubelet = 0 /\ svc.proxy = 0
        BY <2>1, <3>1 DEF SetupInv
      <3> QED BY <2>1, <3>1, <3>2 DEF HasOnly, KubeletConfIn
    <2> QED BY <2>1, <2>2, <2>3, <2>4 DEF SetupInv
  <1>5. CASE Marked
    <2>1. /\ host.state = "claimed" /\ host'.state = "marked"
          /\ UNCHANGED <<mode, manage, disk, svc, agent, spoiled>>
      BY <1>0, <1>5 DEF Marked, HostRec
    <2>2. /\ agent.why # "clean" /\ (svc.proxy # 0 => manage)
          /\ agent.pc \in {"install", "boot"} => agent.i <= Len(Steps)
      BY <2>1 DEF SetupInv
    <2>3. ~Cleaned(2)' /\ ~Cleaned(4)' /\ ~Cleaned(5)' /\ ~Cleaned(7)'
      BY <2>1, <2>2 DEF Cleaned
    <2>4. Steps' = Steps
      BY <2>1 DEF Steps, TLSSteps, CloudInitSteps
    <2> QED BY <2>1, <2>2, <2>3, <2>4 DEF SetupInv
  <1> QED BY <1>1, <1>2, <1>3, <1>4, <1>5

-----------------------------------------------------------------------------
(* The types and the progress of the cleanup hold in every reachable state. *)
THEOREM SetupInvariant == Spec => [](TypeOK /\ SetupInv)
  <1>1. Init => TypeOK /\ SetupInv
    <2> SUFFICES ASSUME Init PROVE TypeOK /\ SetupInv
      OBVIOUS
    <2>1. TypeOK
      <3>1. keys \in SUBSET {"ca.crt", "bootstrap-kubeconfig"}
        BY DEF Init
      <3>2. 0 \in Gens /\ 0 \in 0..MaxFaults
        BY MachinesAssumption, FaultAssumption DEF Gens
      <3>3. Idle \in Recs /\ Idle.pc = "idle"
        BY DEF Idle, Recs
      <3>4. host \in HostRec /\ svc \in SvcRec
        BY <3>2 DEF Init, HostRec, SvcRec
      <3> QED BY <3>1, <3>2, <3>3, <3>4, Types DEF Init, Modes
    <2>2. /\ agent.pc = "idle" /\ agent.why = "none" /\ host.state = "free"
          /\ svc.kubelet = 0 /\ svc.proxy = 0 /\ disk = [f \in Files |-> 0]
      BY DEF Init, Idle
    <2>3. \A f \in Sensitive : disk[f] = 0
      BY <2>2, SensitiveFiles
    <2>4. HasOnly({0}) /\ KubeletConfIn({0})
      BY <2>3 DEF HasOnly, KubeletConfIn, Sensitive
    <2>5. ~Cleaned(2) /\ ~Cleaned(4) /\ ~Cleaned(5) /\ ~Cleaned(7)
      BY <2>2 DEF Cleaned
    <2>6. SetupInv
      BY <2>2, <2>4, <2>5 DEF SetupInv
    <2> QED BY <2>1, <2>6
  <1>2. TypeOK /\ SetupInv /\ [Next]_vars => (TypeOK /\ SetupInv)'
    <2> SUFFICES ASSUME TypeOK, SetupInv, [Next]_vars PROVE TypeOK' /\ SetupInv'
      OBVIOUS
    <2>1. TypeOK'
      BY TypeStep
    <2>2. "kubelet" \in {"containerd", "kubelet"}
      OBVIOUS
    <2>3. SetupInv'
      BY <2>1, <2>2, ResetKeeps, BootKeeps, PatchKeeps, ReconcileKeeps, KubeletKeeps, OthersKeep
         DEF Next, AgentStep
    <2> QED BY <2>1, <2>3
  <1> QED BY <1>1, <1>2, PTL DEF Spec

(* The state of the agent, the host and its services is of its type: no step of a  *)
(* bootstrap or a reset is taken beyond the last one, whatever fails.               *)
THEOREM TypeCorrect == Spec => []TypeOK
  <1> QED BY SetupInvariant, PTL

(* What a cleanup does to the copies of the CA: they are gone once the directories *)
(* are, and while the host is free nothing writes them.                            *)
CopiesInv ==
    /\ Cleaned(7) /\ "dirs" \notin spoiled => disk["ca-copies"] = 0
    /\ host.state = "free" /\ "dirs" \notin spoiled => disk["ca-copies"] = 0

LEMMA CopiesStep ==
    ASSUME TypeOK, SetupInv, CopiesInv, [Next]_vars
    PROVE  CopiesInv'
  <1>0. /\ agent \in Recs /\ (agent.pc = "reset" => agent.i <= 7) /\ host \in HostRec
        /\ disk \in [Files -> Gens] /\ "ca-copies" \in Files
    BY Types DEF Files, CAPaths
  <1>1. /\ host.state = "free" => agent.pc = "idle"
        /\ agent.why = "clean" => agent.pc \in {"reset", "patch"}
        /\ agent.pc = "boot" => agent.i <= Len(Steps)
    BY DEF SetupInv
  <1>2. Cleaned(7) <=> agent.why = "clean" /\ agent.pc = "patch"
    <2>1. agent.pc = "reset" => ~(agent.i > 7)
      <3>1. agent.i \in 1..14
        BY <1>0 DEF Recs
      <3> QED BY <1>0, <3>1
    <2> QED BY <1>1, <2>1 DEF Cleaned
  <1>3. CASE ResetRemoves \/ KubeadmReset \/ ResetStops \/ ResetCommandFails
    <2>1. agent.pc = "reset" /\ NextReset /\ host' = host
      BY <1>3 DEF ResetRemoves, KubeadmReset, ResetStops, ResetCommandFails
    <2>2. host'.state # "free" /\ agent.i \in 1..7
      BY <1>0, <1>1, <2>1 DEF Recs
    <2>3. /\ agent'.why = agent.why
          /\ \/ agent'.pc = "reset" /\ agent'.i = agent.i + 1 /\ agent.i < 7
             \/ agent'.pc = "patch" /\ agent.i = 7
      BY <1>0, <2>1, ResetTo
    <2>4. ASSUME Cleaned(7)', "dirs" \notin spoiled'
          PROVE  disk'["ca-copies"] = 0
      <3>1. agent.why = "clean" /\ agent.i = 7
        BY <2>2, <2>3, <2>4 DEF Cleaned
      <3>2. ResetStep = "remove-dirs"
        BY <2>2, <3>1, ResetStepAt DEF ResetStep
      <3>3. ResetRemoves
        BY <1>3, <3>2 DEF KubeadmReset, ResetStops, ResetCommandFails
      <3>4. disk' = Remove(UNION DirsToRemove)
        BY <2>4, <3>1, <3>2, <3>3 DEF ResetRemoves, Spoil
      <3>5. "ca-copies" \in UNION DirsToRemove
        BY DEF DirsToRemove
      <3> QED BY <1>0, <3>4, <3>5 DEF Remove
    <2> QED BY <2>2, <2>4 DEF CopiesInv
  <1>4. CASE Install \/ StepFails \/ WriteFile \/ OtherStep \/ SystemctlStep \/ ProxyIfNeeded
    <2>1. agent.pc \in {"install", "boot", "proxy"} /\ host' = host
      BY <1>4 DEF Install, StepFails, WriteFile, OtherStep, SystemctlStep, ProxyIfNeeded
    <2>2. agent.why # "clean" /\ host.state # "free"
      BY <1>1, <2>1
    <2>3. agent'.why # "clean"
      <3>1. CASE Install \/ ProxyIfNeeded
        BY <1>0, <2>2, <3>1 DEF Install, ProxyIfNeeded, Recs
      <3>2. CASE agent.pc = "boot" /\ Advance
        BY <1>0, <1>1, <2>2, <3>2, AdvanceTo
      <3>3. CASE StepFails /\ Step # "ca"
        BY <1>0, <2>2, <3>3 DEF StepFails, Failed, Recs
      <3> QED BY <1>4, <3>1, <3>2, <3>3
             DEF StepFails, Failed, WriteFile, OtherStep, SystemctlStep
    <2> QED BY <2>1, <2>2, <2>3 DEF CopiesInv, Cleaned
  <1>5. CASE Patch \/ AgentCrashes
    <2>1. agent' = Idle /\ UNCHANGED <<disk, spoiled>>
      BY <1>5 DEF Patch, AgentCrashes
    <2>2. host'.state = "free" => host.state = "free" \/ (agent.why = "clean" /\ agent.pc = "patch")
      BY <1>0, <1>5 DEF Patch, AgentCrashes, HostRec
    <2>3. ~Cleaned(7)'
      BY <2>1 DEF Cleaned, Idle
    <2> QED BY <1>2, <2>1, <2>2, <2>3 DEF CopiesInv
  <1>6. CASE AgentReconcile
    <2>1. host' = host /\ host.state # "free"
      BY <1>6 DEF AgentReconcile
    <2>2. agent'.i = 1 /\ agent'.pc # "patch"
      <3> DEFINE q == [Idle EXCEPT !.comp = host.comp, !.boot = host.boot]
      <3>1. q \in Recs /\ q.i = 1
        <4>1. Idle \in Recs /\ Idle.i = 1 /\ host.comp \in BOOLEAN /\ host.boot \in BOOLEAN
          BY <1>0, WrittenTypes DEF Idle, HostRec
        <4> HIDE DEF Idle
        <4> QED BY <4>1, Zenon DEF Recs
      <3>2. \/ agent' = [q EXCEPT !.pc = "reset", !.why = "clean"]
            \/ agent' = [q EXCEPT !.pc = IF host.comp THEN "boot" ELSE "install"]
        BY <1>6 DEF AgentReconcile
      <3> HIDE DEF q
      <3> QED BY <3>1, <3>2 DEF Recs
    <2> QED BY <2>1, <2>2 DEF CopiesInv, Cleaned
  <1>7. CASE KubeletRuns
    <2>1. UNCHANGED <<host, agent, spoiled>> /\ \E g : disk' = [disk EXCEPT !["kubelet.conf"] = g]
      BY <1>7 DEF KubeletRuns
    <2>2. disk'["ca-copies"] = disk["ca-copies"]
      BY <1>0, <2>1
    <2> QED BY <2>1, <2>2 DEF CopiesInv, Cleaned
  <1>8. ASSUME NEW s \in {"containerd", "kubelet"},
               DriftChecks(s) \/ DriftStarts \/ ServiceDies \/ Claimed \/ Marked \/ UNCHANGED vars
        PROVE  CopiesInv'
    <2>1. UNCHANGED <<disk, agent>> /\ spoiled \subseteq spoiled'
      BY <1>8 DEF DriftChecks, DriftStarts, ServiceDies, Claimed, Marked, vars, Spoil
    <2>2. host'.state = "free" => host.state = "free"
      BY <1>0, <1>8 DEF DriftChecks, DriftStarts, ServiceDies, Claimed, Marked, vars, HostRec
    <2> QED BY <2>1, <2>2 DEF CopiesInv, Cleaned
  <1> QED BY <1>3, <1>4, <1>5, <1>6, <1>7, <1>8 DEF Next, AgentStep

(* What resetNode removes is gone from a host in the pool: the files it removes in  *)
(* two ways unless both failed, the copies of the CA unless their directory stayed, *)
(* for any number of machines, crashes and failures.                                *)
THEOREM ConfigRemovedAlways == Spec => []ConfigRemoved
  <1>1. Init => CopiesInv
    <2>1. "ca-copies" \in Files
      BY DEF Files, CAPaths
    <2> QED BY <2>1 DEF Init, CopiesInv
  <1>2. TypeOK /\ SetupInv /\ CopiesInv /\ [Next]_vars => CopiesInv'
    BY CopiesStep
  <1>3. TypeOK /\ SetupInv /\ CopiesInv => ConfigRemoved
    BY DEF SetupInv, CopiesInv, ConfigRemoved, HasOnly
  <1> QED BY <1>1, <1>2, <1>3, SetupInvariant, PTL DEF Spec

(* A claimed host never runs a kubelet or kube-proxy of a machine before, unless     *)
(* the last cleanup left a service running or removed a file neither way.            *)
THEOREM RunsOwnMachineAlways == Spec => []RunsOwnMachine
  <1>1. TypeOK /\ SetupInv => RunsOwnMachine
    BY DEF SetupInv, RunsOwnMachine
  <1> QED BY <1>1, SetupInvariant, PTL
==============================================================================
