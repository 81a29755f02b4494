------------------------------ MODULE Protocol ------------------------------
(***************************************************************************)
(* The driver port: the server of internal/protocol and its clients.       *)
(*                                                                         *)
(* A connection is a handler that does the handshake and then reads one    *)
(* query after the other; a START runs in a goroutine of its own.  Every   *)
(* response is written in two writes, its length and its body, and neither *)
(* says which query it answers.  A client that waits sends its next query  *)
(* when it has read the response, as the Conn of drivers/go does under its *)
(* lock, and sends STARTs only, each with a new token; the others send     *)
(* what they like, with the tokens they like.                              *)
(***************************************************************************)
EXTENDS Integers, Sequences, FiniteSets

CONSTANTS
    Client,                 \* connections, with their clients
    Version,                \* what the clients speak: "V1_0" or "V0_4"
    MaxQueries,             \* bound: queries of a client
    MaxAhead                \* bound: messages on the way to the server

ASSUME ProtocolAssumption ==
    Version \in {"V1_0", "V0_4"} /\ MaxQueries \in Nat

VARIABLES
    srv,            \* "running", "stopping" (quit is closed), "stopped"
    accepting,      \* whether acceptLoop runs
    handler,        \* where the handler of a connection is
    queries,        \* queryLoop's queries: the query a token cancels, or 0
    token,          \* the tokens of the STARTs and STOPs that were read, 0 before
    job,            \* the goroutines of the STARTs, and the loop's own response (0)
    client,         \* where a client is
    waits,          \* the clients that wait for the answer
    sent,           \* the queries sent (and Conn.token)
    toServer,       \* messages to the server
    toClient        \* what was written to the client

protoVars == <<srv, accepting, handler, queries, token, job, client, waits, sent, toServer, toClient>>

\* The queries of a client, and as many tokens.
Token == 1..MaxQueries

NoJobs == [n \in 0..MaxQueries |-> "none"]

NoTokens == [n \in Token |-> 0]

Open(c) == handler[c] \notin {"none", "closed"}

HandlerState == {"none", "version", "first", "final", "loop", "read", "closed"}

ClientState ==
    {"idle", "hello", "first", "final", "ready", "head", "body", "done", "failed", "garbled"}

JobState == {"none", "run", "len", "body", "end"}

ProtoTypeOK ==
    /\ srv \in {"running", "stopping", "stopped"} /\ accepting \in BOOLEAN
    /\ handler \in [Client -> HandlerState]
    /\ client \in [Client -> ClientState]
    /\ sent \in [Client -> 0..MaxQueries] /\ waits \subseteq Client
    /\ queries \in [Client -> [Token -> 0..MaxQueries]]
    /\ token \in [Client -> [Token -> 0..MaxQueries]]
    /\ job \in [Client -> [0..MaxQueries -> JobState]]

ProtoInit ==
    /\ srv = "running" /\ accepting = TRUE
    /\ handler = [c \in Client |-> "none"] /\ client = [c \in Client |-> "idle"]
    /\ queries = [c \in Client |-> NoTokens] /\ token = [c \in Client |-> NoTokens] /\ job = [c \in Client |-> NoJobs]
    /\ sent = [c \in Client |-> 0] /\ waits \in SUBSET Client
    /\ toServer = [c \in Client |-> <<>>] /\ toClient = [c \in Client |-> <<>>]

-----------------------------------------------------------------------------
(* The connection.                                                         *)

Send(c, m) == toServer' = [toServer EXCEPT ![c] = Append(@, m)]

Write(c, k, t) == toClient' = [toClient EXCEPT ![c] = Append(@, [k |-> k, of |-> t])]

\* The handler returns and netConn.Close is called; goroutines go on.
Return(c) == handler' = [handler EXCEPT ![c] = "closed"]

Reads(c, phase) == handler[c] = phase /\ toServer[c] # <<>>

Goto(c, phase) == handler' = [handler EXCEPT ![c] = phase]

Consume(c) == toServer' = [toServer EXCEPT ![c] = Tail(@)]

-----------------------------------------------------------------------------
(* Clients.                                                                *)

\* Dial; the drivers send the version with it, others may stay silent.  Accept
\* takes connections until the listener is closed, which Stop does after it has
\* closed quit.
Connect(c) ==
    /\ client[c] = "idle" /\ accepting
    /\ client' = [client EXCEPT ![c] = IF Version = "V1_0" THEN "hello" ELSE "final"]
    /\ handler' = [handler EXCEPT ![c] = "version"]
    /\ Send(c, [k |-> Version]) \/ (c \notin waits /\ UNCHANGED toServer)
    /\ UNCHANGED <<srv, accepting, queries, token, job, sent, toClient>>

\* The answers of the handshake.  V1_0: hello, server-first, server-final;
\* V0_4: SUCCESS.
Shake(c) ==
    /\ client[c] \in {"hello", "first", "final"} /\ toClient[c] # <<>>
    /\ LET m == Head(toClient[c])
       IN  /\ client' = [client EXCEPT ![c] = CASE m.k = "error" -> "failed"
                                                [] m.k = "hello" -> "first"
                                                [] m.k = "first" -> "final"
                                                [] m.k = "success" -> "ready"
                                                [] OTHER -> "garbled"]
           /\ \E proof \in BOOLEAN :
                IF m.k \in {"hello", "first"} THEN Send(c, [k |-> "auth", ok |-> proof])
                ELSE UNCHANGED toServer
    /\ toClient' = [toClient EXCEPT ![c] = Tail(@)]
    /\ UNCHANGED <<srv, accepting, handler, queries, token, job, sent>>

\* A client that does not wait may send before the handshake has ended.
MaySend(c) ==
    /\ sent[c] < MaxQueries /\ Len(toServer[c]) < MaxAhead
    /\ \/ client[c] = "ready"
       \/ c \notin waits /\ client[c] \in {"final", "head", "body"}

\* A token is new or was used before; which new one does not matter.
TokensFor(c) == IF c \in waits THEN {sent[c] + 1} ELSE 1..(sent[c] + 1)

Query(c) ==
    /\ MaySend(c)
    /\ sent' = [sent EXCEPT ![c] = @ + 1]
    /\ \E type \in IF c \in waits THEN {"start"} ELSE {"start", "stop", "other"}, t \in TokensFor(c) :
        Send(c, [k |-> type, n |-> sent[c] + 1, token |-> t])
    /\ client' = [client EXCEPT ![c] = IF @ = "ready" THEN "head" ELSE @]
    /\ UNCHANGED <<srv, accepting, handler, queries, token, job, toClient>>

\* The client takes what comes next for the length, and what comes then for the
\* body of its answer.
ReadFull(c) ==
    /\ client[c] \in {"head", "body"} /\ toClient[c] # <<>>
    /\ LET m == Head(toClient[c])
       IN  client' = [client EXCEPT ![c] =
                        CASE client[c] = "head" /\ m.k = "len" -> "body"
                          [] client[c] = "body" /\ m.k = "body" -> "ready"
                          [] OTHER -> "garbled"]
    /\ toClient' = [toClient EXCEPT ![c] = Tail(@)]
    /\ UNCHANGED <<srv, accepting, handler, queries, token, job, sent, toServer>>

\* The connection was closed by the server and everything is read.
ReadEnds(c) ==
    /\ handler[c] = "closed" /\ toClient[c] = <<>>
    /\ client[c] \in {"hello", "first", "final", "ready", "head", "body"}
    /\ client' = [client EXCEPT ![c] = "failed"]
    /\ UNCHANGED <<srv, accepting, handler, queries, token, job, sent, toServer, toClient>>

Close(c) ==
    /\ client[c] \in {"hello", "first", "final", "ready", "head", "body", "garbled"}
    /\ client' = [client EXCEPT ![c] = "done"]
    /\ UNCHANGED <<srv, accepting, handler, queries, token, job, sent, toServer, toClient>>

-----------------------------------------------------------------------------
(* The handshake.                                                          *)

\* V0_4 and older are refused without an answer.
handshake(c) ==
    /\ Reads(c, "version") /\ Consume(c)
    /\ IF Head(toServer[c]).k = "V1_0"
       THEN Goto(c, "first") /\ Write(c, "hello", 0)
       ELSE Return(c) /\ UNCHANGED toClient
    /\ UNCHANGED <<srv, accepting, queries, token, job, client, sent>>

\* authError: the answer says why, and the connection is closed.
authError(c) == Return(c) /\ Write(c, "error", 0)

\* The message may also have no valid protocol_version or method, which is not
\* answered.
ClientFirst(c) ==
    /\ Reads(c, "first") /\ Consume(c)
    /\ IF Head(toServer[c]).ok THEN Goto(c, "final") /\ Write(c, "first", 0)
       ELSE authError(c) \/ (Return(c) /\ UNCHANGED toClient)
    /\ UNCHANGED <<srv, accepting, queries, token, job, client, sent>>

\* ReadDatum reads through a buffer, which may take in what comes after the
\* message; queryLoop reads past the buffer and never sees that.
ClientFinal(c) ==
    /\ Reads(c, "final")
    /\ \E n \in 1..Len(toServer[c]) : toServer' = [toServer EXCEPT ![c] = SubSeq(@, n + 1, Len(@))]
    /\ IF Head(toServer[c]).ok THEN Goto(c, "loop") /\ Write(c, "success", 0) ELSE authError(c)
    /\ UNCHANGED <<srv, accepting, queries, token, job, client, sent>>

-----------------------------------------------------------------------------
(* Queries.                                                                *)

\* The loop looks at quit and then reads, for as long as it takes.  A response
\* of its own is written before that.
LoopTop(c) ==
    /\ handler[c] = "loop" /\ job[c][0] = "none"
    /\ IF srv = "running" THEN Goto(c, "read") ELSE Return(c)
    /\ UNCHANGED <<srv, accepting, queries, token, job, client, sent, toServer, toClient>>

\* The client is gone, or nothing came for ten minutes.
ReadFails(c) ==
    /\ handler[c] = "read" /\ toServer[c] = <<>> /\ Return(c)
    /\ UNCHANGED <<srv, accepting, queries, token, job, client, sent, toServer, toClient>>

Gone(c) == client[c] \in {"done", "failed"}

\* A client that goes away during the handshake, in which reads have no deadline.
HandshakeFails(c) ==
    /\ handler[c] \in {"version", "first", "final"} /\ toServer[c] = <<>>
    /\ Gone(c) /\ Return(c)
    /\ UNCHANGED <<srv, accepting, queries, token, job, client, sent, toServer, toClient>>

\* The query can be cancelled by its token before its goroutine starts.
Start(c, q) ==
    /\ job' = [job EXCEPT ![c][q.n] = "run"]
    /\ queries' = [queries EXCEPT ![c][q.token] = q.n]
    /\ token' = [token EXCEPT ![c][q.n] = q.token]

\* What has the token is cancelled, which the evaluator takes no notice of.
StopQuery(c, q) ==
    /\ queries' = [queries EXCEPT ![c][q.token] = 0]
    /\ token' = [token EXCEPT ![c][q.n] = q.token]
    /\ job' = [job EXCEPT ![c][0] = "len"]

queryLoop(c) ==
    /\ Reads(c, "read") /\ Consume(c) /\ Goto(c, "loop")
    /\ LET q == Head(toServer[c])
       IN  CASE q.k = "start" -> Start(c, q)
             [] q.k = "stop" -> StopQuery(c, q)
             [] OTHER -> job' = [job EXCEPT ![c][0] = "len"] /\ UNCHANGED <<queries, token>>
    /\ UNCHANGED <<srv, accepting, client, sent, toClient>>

\* A mutant: the entry is deleted when the evaluation ends, before the answer.
HandleQueryForgets(c, n) ==
    /\ job[c][n] = "run"
    /\ job' = [job EXCEPT ![c][n] = "len"]
    /\ queries' = [queries EXCEPT ![c][token[c][n]] = 0]
    /\ UNCHANGED <<srv, accepting, handler, token, client, sent, toServer, toClient>>

HandleQuery(c, n) ==
    /\ job[c][n] = "run"
    /\ job' = [job EXCEPT ![c][n] = "len"]
    /\ UNCHANGED <<srv, accepting, handler, queries, token, client, sent, toServer, toClient>>

\* What follows the last write: the deferred function of a goroutine.
AfterWrite(n) == IF n = 0 THEN "none" ELSE "end"

\* A mutant: after the error the response is sent as well.
SendTwice(c, n) ==
    /\ job[c][n] = "len"
    /\ \/ /\ job' = [job EXCEPT ![c][n] = AfterWrite(n)] /\ UNCHANGED toClient
       \/ /\ handler[c] # "closed"
          /\ job' = [job EXCEPT ![c][n] = "body"]
          /\ toClient' = [toClient EXCEPT ![c] = @ \o << [k |-> "len", of |-> n], [k |-> "body", of |-> n],
                                                        [k |-> "len", of |-> n] >>]
    /\ UNCHANGED <<srv, accepting, handler, queries, token, client, sent, toServer>>

\* sendResponse: what cannot be marshalled is not answered, and a write to a
\* closed connection fails and ends it.
SendLength(c, n) ==
    /\ job[c][n] = "len"
    /\ \/ job' = [job EXCEPT ![c][n] = AfterWrite(n)] /\ UNCHANGED toClient
       \/ handler[c] # "closed" /\ job' = [job EXCEPT ![c][n] = "body"] /\ Write(c, "len", n)
    /\ UNCHANGED <<srv, accepting, handler, queries, token, client, sent, toServer>>

SendBody(c, n) ==
    /\ job[c][n] = "body"
    /\ IF handler[c] = "closed" THEN UNCHANGED toClient ELSE Write(c, "body", n)
    /\ job' = [job EXCEPT ![c][n] = AfterWrite(n)]
    /\ UNCHANGED <<srv, accepting, handler, queries, token, client, sent, toServer>>

\* The deferred delete goes by the token, whichever query has it now.
Deferred(c, n) ==
    /\ job[c][n] = "end"
    /\ job' = [job EXCEPT ![c][n] = "none"]
    /\ queries' = [queries EXCEPT ![c][token[c][n]] = 0]
    /\ UNCHANGED <<srv, accepting, handler, token, client, sent, toServer, toClient>>

-----------------------------------------------------------------------------
(* The end of the server.                                                  *)

Stop ==
    /\ srv = "running" /\ srv' = "stopping"
    /\ UNCHANGED <<accepting, handler, queries, token, job, client, sent, toServer, toClient>>

\* A mutant: every error of Accept is taken for a passing one.
acceptLoopContinues == accepting /\ srv = "stopping" /\ UNCHANGED protoVars

\* Accept fails, and the loop sees that quit is closed.
acceptLoop ==
    /\ accepting /\ srv = "stopping" /\ accepting' = FALSE
    /\ UNCHANGED <<srv, handler, queries, token, job, client, sent, toServer, toClient>>

\* wg.Wait: the accept loop and every handler.
StopReturns ==
    /\ srv = "stopping" /\ ~accepting /\ \A c \in Client : ~Open(c)
    /\ srv' = "stopped"
    /\ UNCHANGED <<accepting, handler, queries, token, job, client, sent, toServer, toClient>>

Goroutine(c, n) ==
    /\ HandleQuery(c, n) \/ SendLength(c, n) \/ SendBody(c, n) \/ Deferred(c, n)
    /\ UNCHANGED waits

Handler(c) ==
    /\ \/ handshake(c) \/ ClientFirst(c) \/ ClientFinal(c) \/ HandshakeFails(c)
       \/ LoopTop(c) \/ queryLoop(c) \/ ReadFails(c)
    /\ UNCHANGED waits

Reading(c) == (Shake(c) \/ ReadFull(c) \/ ReadEnds(c)) /\ UNCHANGED waits

Stopping == (acceptLoop \/ StopReturns) /\ UNCHANGED waits

ProtoNext ==
    \/ \E c \in Client : (Connect(c) \/ Query(c) \/ Close(c)) /\ UNCHANGED waits
    \/ \E c \in Client : Reading(c) \/ Handler(c) \/ \E n \in 0..MaxQueries : Goroutine(c, n)
    \/ Stop /\ UNCHANGED waits
    \/ Stopping

\* A write has no deadline: it is sure to return when the client has read what
\* was written before, or an end of the connection is closed.
Unhindered(c) == toClient[c] = <<>> \/ handler[c] = "closed" \/ Gone(c)

\* Goroutines are scheduled, evaluation ends, and the deadline of the query
\* loop's read passes.  Nothing is assumed of the clients.
ProtoFairness ==
    /\ \A c \in Client : WF_protoVars(Handler(c))
    /\ \A c \in Client : \A n \in 0..MaxQueries : WF_protoVars(Goroutine(c, n) /\ Unhindered(c))
    /\ WF_protoVars(Stopping)

ProtoSpec == ProtoInit /\ [][ProtoNext]_protoVars /\ ProtoFairness

-----------------------------------------------------------------------------
(* Properties.                                                             *)

\* A client that waits always finds whole frames, and what is on the way to it
\* answers its last query.  (Without the wait it does not hold: two goroutines
\* write to one connection, and a cancelled query is answered like any other.)
AnswerIsOwn ==
    \A c \in waits :
        /\ client[c] # "garbled"
        /\ \A i \in DOMAIN toClient[c] :
            toClient[c][i].k \in {"len", "body"} => toClient[c][i].of \in {0, sent[c]}

\* What a STOP cancels has its token and has not ended; and the first STOP of a
\* query finds it from its reading to its answer, whatever else the client
\* starts, stops and ends, unless another query was read with its token: then
\* the later one takes its place, and the end of either (the deferred delete
\* goes by the token) leaves nothing to be found.  (And every variable has its
\* type.)
StopFinds ==
    /\ ProtoTypeOK
    /\ \A c \in Client :
        /\ \A t \in Token : LET n == queries[c][t] IN n # 0 => token[c][n] = t /\ job[c][n] # "none"
        /\ \A n \in Token :
            job[c][n] \in {"run", "len", "body"} =>
                \/ token[c][n] # 0 /\ queries[c][token[c][n]] = n
                \/ \E m \in Token \ {n} : token[c][m] = token[c][n]

\* The handler waits for a client that is not gone: for its next message of the
\* handshake, or for it to read what was written.
KeptByClient(c) ==
    /\ ~Gone(c)
    /\ \/ handler[c] \in {"version", "first", "final"} /\ toServer[c] = <<>>
       \/ handler[c] = "loop" /\ job[c][0] # "none" /\ toClient[c] # <<>>

\* Stop returns, unless a client keeps its handler waiting for ever in one of
\* the two places in which the code has no deadline.
StopEnds ==
    <>(srv = "stopping") => <>(srv = "stopped") \/ \E c \in Client : <>[]KeptByClient(c)

\* The driver connects while the server runs: "failed to connect" and
\* "connection should be open" are what TestIntegration_Connect of drivers/go
\* says otherwise.
DriverConnects ==
    [][\A c \in Client : client[c] = "final" /\ srv = "running" => client'[c] # "failed"]_protoVars
=============================================================================
