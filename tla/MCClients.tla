------------------------------ MODULE MCClients ------------------------------
(***************************************************************************)
(* The driver port and the driver's connection pool for TLC.  They share   *)
(* nothing: part says which of the two a behaviour is of.                  *)
(***************************************************************************)
EXTENDS Protocol, Pool

CONSTANT Alone      \* a client

VARIABLE part

\* Two clients that wait and send two queries, or one that does not and sends
\* three, the third a STOP while the server runs.
MCInit ==
    /\ part \in {"server", "pool"}
    /\ ProtoInit /\ waits \in {Client, {}} /\ (part = "pool" => waits = {})
    /\ PoolInit

ThirdIsStop(c) ==
    sent'[c] = 3 =>
        /\ srv' = "running"
        /\ \A i \in DOMAIN toServer'[c] :
            LET q == toServer'[c][i] IN q.k \in {"start", "other"} => q.n # 3

MCNext ==
    \/ /\ part = "server" /\ ProtoNext
       /\ waits = {} => \A c \in Client \ {Alone} : client'[c] = "idle"
       /\ waits = Client => \A c \in Client : sent'[c] <= 2
       /\ \A c \in Client : ThirdIsStop(c)
       /\ UNCHANGED <<poolVars, part>>
    \/ part = "pool" /\ PoolNext /\ UNCHANGED <<protoVars, part>>

MCSpec == MCInit /\ [][MCNext]_<<protoVars, poolVars, part>> /\ ProtoFairness
==============================================================================
