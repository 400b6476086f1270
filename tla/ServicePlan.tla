----------------------------- MODULE ServicePlan -----------------------------
(***************************************************************************)
(* The immutable plan of a managed service transaction                     *)
(* (src/platform_pki/service_transaction.py): which filesystem objects one *)
(* `issue-service` or `renew-service` run publishes, in which order they   *)
(* are staged, backed up, published and rolled back, and which of them     *)
(* existed before.  A key is the name the journal gives to one object.     *)
(***************************************************************************)
EXTENDS Naturals, Sequences, Functions

SERVICE_CONTAINER_ORDER ==
    << "service_root", "service_private_dir", "service_csr_dir",
       "service_certs_dir", "service_chain_dir" >>

SERVICE_CA_PUBLICATION_ORDER ==
    << "service_config", "service_csr", "service_certificate",
       "service_chain", "service_fullchain", "service_issuer",
       "ca_index", "ca_index_attr", "ca_serial",
       "ca_index_old", "ca_index_attr_old", "ca_serial_old", "ca_newcert" >>

SERVICE_ARCHIVE_MEMBER_ORDER ==
    << "archive_marker", "archive_certificate", "archive_csr",
       "archive_chain", "archive_fullchain", "archive_config",
       "archive_issuer", "archive_key" >>

SERVICE_SIGNING_INPUT_KEYS ==
    << "signing_inventory", "signing_root_certificate", "signing_ca_key",
       "signing_ca_certificate", "signing_ca_config",
       "signing_ca_crlnumber", "signing_service_key" >>

(* Objects the CA database must already hold, and those it may hold.       *)
RequiredCAState == {"ca_index", "ca_index_attr", "ca_serial"}

ServiceContainers == Range(SERVICE_CONTAINER_ORDER)
ArchiveContainers == {"archive_root", "archive_dir"}
DirectoryKeys == ServiceContainers \cup ArchiveContainers
FileKeys == Range(SERVICE_CA_PUBLICATION_ORDER)
            \cup Range(SERVICE_ARCHIVE_MEMBER_ORDER) \cup {"service_key"}
Keys == DirectoryKeys \cup FileKeys
Inputs == Range(SERVICE_SIGNING_INPUT_KEYS)

(* The directory a destination lives in; "outside" is one no plan creates. *)
ParentOf ==
    [k \in Keys |->
        CASE k \in {"service_private_dir", "service_csr_dir",
                    "service_certs_dir", "service_chain_dir", "archive_root",
                    "service_config", "service_issuer"} -> "service_root"
          [] k = "service_key"                          -> "service_private_dir"
          [] k = "service_csr"                          -> "service_csr_dir"
          [] k = "service_certificate"                  -> "service_certs_dir"
          [] k \in {"service_chain", "service_fullchain"} -> "service_chain_dir"
          [] k = "archive_dir"                          -> "archive_root"
          [] k \in Range(SERVICE_ARCHIVE_MEMBER_ORDER)  -> "archive_dir"
          [] OTHER                                      -> "outside"]

(* The published object each archive member is a copy of.                  *)
ArchivedObject ==
    [k \in Range(SERVICE_ARCHIVE_MEMBER_ORDER) |->
        CASE k = "archive_certificate" -> "service_certificate"
          [] k = "archive_csr"         -> "service_csr"
          [] k = "archive_chain"       -> "service_chain"
          [] k = "archive_fullchain"   -> "service_fullchain"
          [] k = "archive_config"      -> "service_config"
          [] k = "archive_issuer"      -> "service_issuer"
          [] k = "archive_key"         -> "service_key"
          [] OTHER                     -> "none"]

------------------------------------------------------------------------------
(* A request: what the operator asked for and what the PKI directory holds. *)
Requests ==
    [operation : {"issue", "renew"},
     key_action : {"CREATE", "REUSE", "ROTATE"},
     created : SUBSET ServiceContainers,
     archive_root_exists : BOOLEAN,
     existing : SUBSET FileKeys]

(* The state an overwrite is allowed for; anything else must be absent.    *)
Replaceable(operation, key_action) ==
    LET kept == IF operation = "issue"
                THEN {"service_certificate", "service_issuer", "ca_newcert"}
                ELSE {"ca_newcert"}
    IN  (Range(SERVICE_CA_PUBLICATION_ORDER) \ kept)
        \cup (IF key_action = "ROTATE" THEN {"service_key"} ELSE {})

Archives(r) == r.operation = "renew" \/ r.key_action = "ROTATE"

(* A new object cannot sit in a directory that does not exist yet, and the  *)
(* key action follows from whether a current key exists.                    *)
Consistent(r) ==
    /\ RequiredCAState \subseteq r.existing
    /\ r.existing \subseteq Replaceable(r.operation, r.key_action)
    /\ r.operation = "renew" => r.key_action # "CREATE"
    /\ r.key_action = "ROTATE" => "service_key" \in r.existing
    /\ r.key_action # "CREATE"
          => r.created \cap {"service_root", "service_private_dir"} = {}
    /\ \A k \in r.existing : ParentOf[k] \notin r.created
    /\ "service_root" \in r.created => r.created = ServiceContainers
    /\ r.archive_root_exists => "service_root" \notin r.created

ArchiveMembers(r) ==
    LET kept(k) == CASE k = "archive_marker" -> r.operation = "renew"
                     [] k = "archive_key"    -> r.key_action = "ROTATE"
                     [] OTHER -> r.operation = "renew"
                                 /\ ArchivedObject[k] \in r.existing
    IN  IF Archives(r) THEN SelectSeq(SERVICE_ARCHIVE_MEMBER_ORDER, kept)
        ELSE << >>

managed_publication_order(r) ==
    LET made(k) == k \in r.created
    IN  SelectSeq(SERVICE_CONTAINER_ORDER, made)
        \o SERVICE_CA_PUBLICATION_ORDER
        \o (IF r.key_action # "REUSE" THEN << "service_key" >> ELSE << >>)
        \o (IF Archives(r) /\ ~r.archive_root_exists
            THEN << "archive_root" >> ELSE << >>)
        \o (IF Archives(r) THEN << "archive_dir" >> ELSE << >>)
        \o ArchiveMembers(r)

(* Ordinary objects first, then archive containers, then service           *)
(* containers, each class in reverse publication order.                    *)
managed_rollback_order(publication) ==
    LET n == Len(publication)
        reverse == [i \in 1..n |-> publication[n + 1 - i]]
        ordinary(k) == k \notin DirectoryKeys
        archive(k) == k \in ArchiveContainers
        service(k) == k \in ServiceContainers
    IN  SelectSeq(reverse, ordinary) \o SelectSeq(reverse, archive)
        \o SelectSeq(reverse, service)

Plan(r) ==
    LET publication == managed_publication_order(r)
        file(k) == k \in FileKeys
        replaced(k) == k \in r.existing
        needed(k) == k # "signing_service_key" \/ r.key_action = "REUSE"
    IN  [operation   |-> r.operation,
         publication |-> publication,
         rollback    |-> managed_rollback_order(publication),
         staging     |-> SelectSeq(SERVICE_SIGNING_INPUT_KEYS, needed)
                         \o SelectSeq(publication, file),
         backups     |-> SelectSeq(publication, replaced),
         existing    |-> r.existing,
         restores_root |-> Archives(r) /\ r.archive_root_exists]
==============================================================================
