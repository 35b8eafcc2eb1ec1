----------------------------- MODULE MCCertChat -----------------------------
(***************************************************************************)
(* Instances of CertChat for TLC.  The relay has a certificate for a day,  *)
(* a renewed one, and the renewed one beside the key of the old one; the   *)
(* impostor has the relay's certificate without the key, one of its own    *)
(* for the relay's name, and one that the CA issued for another name.      *)
(***************************************************************************)
EXTENDS CertChat

Cert(trusted, host, key, until) ==
    [trusted |-> trusted, host |-> host, key |-> key, until |-> until]

Pair(cert, key) == [cert |-> cert, key |-> key]

OneDay == Cert(TRUE, "chatserver.local", "k1", 0)
Renewed == Cert(TRUE, "chatserver.local", "k2", 1)

MCServers == {"relay"}

\* Of the relay, of a relay whose new certificate has the key of the old one,
\* and of two impostors at its address.
MCCreds ==
    [relay |-> {Pair(OneDay, "k1"), Pair(Renewed, "k1"),
                Pair(Cert(FALSE, "chatserver.local", "k0", 1), "k0"),
                Pair(Cert(TRUE, "other.local", "k0", 1), "k0")}]

\* Any two of: a line, a record of a stranger, a new start, a day.
MCFew == lines + junk + servers[Home].starts + today <= 3
=============================================================================
