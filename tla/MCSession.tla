----------------------------- MODULE MCSession ------------------------------
(* Session on small instances. *)
EXTENDS Session, TLC

CONSTANTS app, reader, u1, u2, polling, none

MCApps == {app}
MCOneUpgrade == {u1}
MCTwoUpgrades == {u1, u2}
MCGoroutines == Goroutines
MCPackets == OutPackets
NoClosers == {}

\* The workloads of run session, joined: up to MaxIn messages each way across one
\* upgrade; a ping or a close packet in and a message out across one; and one packet of
\* any kind, in or out, beside the open packet, with all upgrades.
Made == UNION {Range(post), Range(in), Range(rpkt), Range(flushed), Range(handled), Range(wsIn)}
OneUpgrade == Cardinality({u \in Upgrades : pc[u] # "idle"}) <= 1
Traffic == OneUpgrade /\ \A p \in Made : p[1] = "message"
Control == OneUpgrade /\ nin <= 1 /\ nout <= 1
Race == nin + nout <= 1
Workload == Traffic \/ Control \/ Race
UpgradeSymmetry == Permutations(Upgrades)
=============================================================================
