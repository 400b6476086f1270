----------------------------- MODULE MCCaRollover -----------------------------
(* One service, one stray file to quarantine; of the nine entries of the root  *)
(* database one that changes, one that stays, and the new certificate.         *)
EXTENDS CaRollover

MCServices == {"web"}
MCQuarantine == {"stray"}
MCDatabaseKeys == << "index", "newcert" >>
MCCreated == {"newcert"}
MCKept == {"crlnumber_old"}
==============================================================================
