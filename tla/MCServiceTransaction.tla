-------------------------- MODULE MCServiceTransaction -------------------------
(* Plans for model checking ServiceTransaction: every consistent request made *)
(* of both operations, the three key actions, an archive root that exists or  *)
(* not, and the service directories and displaced objects below.              *)
EXTENDS ServiceTransaction

OldCAState == {"ca_index_old", "ca_index_attr_old", "ca_serial_old"}
ServiceFiles == {"service_config", "service_csr", "service_certificate",
                 "service_chain", "service_fullchain", "service_issuer"}

(* All created, some created, none created.                                  *)
MCCreated == {ServiceContainers, {"service_certs_dir", "service_chain_dir"}, {}}

(* A fresh CA and service; leftovers of an earlier attempt; a service that    *)
(* was issued before, without and with a key that is replaced.                *)
MCDisplaced == {{}, OldCAState \cup {"service_config", "service_csr"},
                ServiceFiles, ServiceFiles \cup OldCAState \cup {"service_key"},
                {"service_key"}}

MCRequests ==
    {r \in [operation : {"issue", "renew"},
            key_action : {"CREATE", "REUSE", "ROTATE"},
            created : MCCreated, archive_root_exists : BOOLEAN,
            existing : {RequiredCAState \cup d : d \in MCDisplaced}] : Consistent(r)}

MCPlans == {Plan(r) : r \in MCRequests}

(* The requests differ in their plans, and every one is a request.           *)
ASSUME RequestsCovered ==
    /\ MCRequests \subseteq Requests
    /\ {r.operation : r \in MCRequests} = {"issue", "renew"}
    /\ {r.key_action : r \in MCRequests} = {"CREATE", "REUSE", "ROTATE"}
    /\ \A p \in MCPlans : p.publication # p.rollback
==============================================================================
