----------------------------- MODULE ProxyLines -----------------------------
(***************************************************************************)
(* The inductive invariant behind the lines of Proxy: on each connection   *)
(* and in each direction, the lines heard are the first of those said, the *)
(* records on the way are the next ones, and with the proxy between the    *)
(* two ends what it says on one side is what it heard on the other.        *)
(***************************************************************************)
EXTENDS Proxy

DataBefore(s, i) == {j \in 1 .. i - 1 : s[j].kind = "data"}

\* s was sealed with key, one line after the other; going says whether more may come.
Wire(s, key, spoken, listened, going) ==
    /\ Len(listened) <= Len(spoken)
    /\ \A k \in 1 .. Len(listened) : listened[k] = spoken[k]
    /\ \A i \in 1 .. Len(s) : s[i].kind = "data" /\ s[i].key # None =>
        /\ s[i].key = key
        /\ s[i].n = Len(listened) + Cardinality(DataBefore(s, i))
        /\ s[i].n < Len(spoken) /\ s[i].line = spoken[s[i].n + 1]
    /\ going =>
        /\ ~IsShut(s)
        /\ Len(spoken) = Len(listened) + Cardinality(DataBefore(s, Len(s) + 1))

\* The client end may say something: it has not closed, nor its pump ended.
UpGoes(c) == client[c].at \notin {"closed", "other"} /\ (c = Back => proxy.up = "run")

DownGoes(c) == server[c].at = "on" /\ (c = Front => proxy.down = "run")

\* What the proxy holds while main is where it is.
ProxyHolds ==
    /\ proxy.up = "end" \/ proxy.down = "end" => proxy.at \in {"pump", "accept"}
    /\ proxy.at \notin {"none", "accept"} => server[Front].at = "on"
    /\ ~Direct => said[Back].up = heard[Front].up /\ said[Front].down = heard[Back].down

\* What the two ends of a connection say to each other.
LinesOK(c) ==
    /\ client[c].at = "up" => client[c].keys = SessionKeys(c)
    /\ Wire(up[c], <<SessionKeys(c), "c2s">>, said[c].up, heard[c].up, UpGoes(c))
    /\ Wire(down[c], <<SessionKeys(c), "s2c">>, said[c].down, heard[c].down, DownGoes(c))

LinesInv == ProxyHolds /\ \A c \in Conns : LinesOK(c)
=============================================================================
