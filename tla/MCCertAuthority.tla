--------------------------- MODULE MCCertAuthority ---------------------------
(***************************************************************************)
(* A small instance of CertAuthority: a handshake and two revocations at   *)
(* a time, a server that starts twice.                                     *)
(***************************************************************************)
EXTENDS CertAuthority

CONSTANTS c1, r1, r2

OneCheck    == {c1}
TwoRevokers == {r1, r2}

==============================================================================
