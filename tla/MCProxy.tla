------------------------------ MODULE MCProxy ------------------------------
(***************************************************************************)
(* Instances of Proxy for TLC, with the certificates of make-server-cert   *)
(* and make-attack-certs: the server's, one nobody signed, the server's    *)
(* with another key, one for another name, and an expired one.             *)
(***************************************************************************)
EXTENDS Proxy

Cert(faults, key) == [faults |-> faults, key |-> key]
With(cert) == [cert |-> cert, key |-> cert.key]

MCConns == {Front, Back}
MCCreds ==
    {With(Cert({}, 1)), With(Cert({"ChainUntrusted"}, 2)),
     [cert |-> Cert({}, 1), key |-> 2],
     With(Cert({"WrongIdentity"}, 3)), With(Cert({"Expired"}, 4))}
=============================================================================
