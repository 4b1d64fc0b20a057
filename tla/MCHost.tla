------------------------------- MODULE MCHost -------------------------------
(***************************************************************************)
(* Four services beside the sessions that share no state: the host's       *)
(* journal, the artifact storage, a session's sandbox and its calls of the *)
(* model.  A behaviour belongs to one of them, the others keep their       *)
(* initial state.                                                          *)
(***************************************************************************)
EXTENDS HostJournal, Storage, Sandbox, Gateway

CONSTANTS a1, a2, a3

VARIABLE service

MCAttempts == {a1, a2, a3}

HostServicesInit ==
    /\ service \in {"journal", "storage", "sandbox", "gateway"}
    /\ HostInit /\ StorageInit /\ SandboxInit /\ GatewayInit

HostServicesNext ==
    /\ UNCHANGED service
    /\ \/ service = "journal" /\ HostNext /\ UNCHANGED <<storageVars, sandboxVars, gatewayVars>>
       \/ service = "storage" /\ StorageNext /\ UNCHANGED <<hostVars, sandboxVars, gatewayVars>>
       \/ service = "sandbox" /\ SandboxNext /\ UNCHANGED <<hostVars, storageVars, gatewayVars>>
       \/ service = "gateway" /\ GatewayNext /\ UNCHANGED <<hostVars, storageVars, sandboxVars>>

HostServices ==
    HostServicesInit
    /\ [][HostServicesNext]_<<service, hostVars, storageVars, sandboxVars, gatewayVars>>
=============================================================================
