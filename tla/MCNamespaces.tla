---------------------------- MODULE MCNamespaces ----------------------------
(* Instances of Namespaces. *)
EXTENDS Namespaces

CONSTANTS root, chat, other, reader, upgrade, a1, a2

RootOnly == {root}
RootAndChat == {root, chat}
AllNsps == {root, chat, other}
ReaderOnly == {reader}
ReaderAndUpgrade == {reader, upgrade}
NoApps == {}
OneApp == {a1}
TwoApps == {a1, a2}
Nobody == {}
ChatOnly == {chat}

\* Two workloads in one run: three namespaces, each connected at most once, and one
\* event that is acknowledged once; or the root namespace alone, connected again,
\* with events that are acknowledged again.
OnceEach ==
  /\ \A n \in Nsps : nconn[n] <= 1
  /\ nemit <= 1 /\ \A e \in DOMAIN nack : nack[e] <= 1
RootAgain == \A n \in Nsps \ {Root} : nconn[n] = 0
Workload == OnceEach \/ RootAgain
=============================================================================
