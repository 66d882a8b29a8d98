-------------------------- MODULE InstallerRegistry --------------------------
(***************************************************************************)
(* Which installer is made for a host: the registry of supported operating *)
(* systems and Kubernetes versions, and the two constructors that use it.  *)
(* A name such as "Ubuntu_22.04.3_LTS_x86-64" is kept as what the filters   *)
(* of the registry tell apart: a release, and an architecture.             *)
(***************************************************************************)
EXTENDS Naturals

Releases == {"20.04", "22.04", "24.04"}
BundleArchs == {"x86-64", "aarch64"}

(* archOldNameMap; any other name is kept. *)
OldName(arch) ==
    CASE arch = "amd64" -> "x86-64"
      [] arch = "arm64" -> "aarch64"
      [] OTHER -> arch

(* The bundles GetSupportedRegistry adds, with the minor versions 1.x of      *)
(* Kubernetes it supports on them.                                            *)
Bundles == [release : Releases, arch : BundleArchs]

SupportedMinors(b) ==
    CASE b.release = "20.04" -> 24..26
      [] b.release = "22.04" -> 25..35
      [] b.release = "24.04" -> 27..35

(* The bundles whose filter matches: at most one, as the filters differ in     *)
(* release or architecture.                                                    *)
ResolveOsToOsBundle(release, arch) == {b \in Bundles : b.release = release /\ b.arch = arch}

ListK8s(release, arch) == UNION {SupportedMinors(b) : b \in ResolveOsToOsBundle(release, arch)}

(* GetBundleAddr; the version goes into the address unchecked. *)
BundleAddr(repo, b, minor) ==
    IF repo = "online" THEN <<"online">> ELSE <<repo, b, minor>>

(* What an installer's scripts are made for.  "none": no installer. *)
NoInstaller == [algo |-> "none", arch |-> "none", addr |-> <<>>]

(* NewInstaller (kubeadm mode): an error when the registry knows no version     *)
(* for the host's OS; the bundle decides between the three Ubuntu algorithms.  *)
NewInstaller(release, arch, repo, minor) ==
    LET found == ResolveOsToOsBundle(release, OldName(arch))
    IN IF ListK8s(release, OldName(arch)) = {} THEN NoInstaller
       ELSE LET b == CHOOSE b \in found : TRUE
            IN [algo |-> IF b.release \in {"24.04", "22.04"} THEN b.release ELSE "20.04",
                arch |-> arch, addr |-> BundleAddr(repo, b, minor)]

(* NewKubexmInstaller (TLS mode) knows no error: without a match it has no      *)
(* bundle address, or that of Ubuntu 20.04 when the download mode is offline.  *)
NewKubexmInstaller(release, arch, repo, minor, offline) ==
    LET old == OldName(arch)
        matched == IF ListK8s(release, old) # {} THEN ResolveOsToOsBundle(release, old)
                   ELSE IF offline THEN ResolveOsToOsBundle("20.04", old)
                   ELSE {}
    IN [algo |-> "kubexm", arch |-> arch,
        addr |-> IF matched = {} THEN <<>>
                 ELSE BundleAddr(repo, CHOOSE b \in matched : TRUE, minor)]
==============================================================================
