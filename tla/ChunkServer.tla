---------------------------- MODULE ChunkServer ----------------------------
(***************************************************************************)
(* One chunk server (server, chunkserver_harmony, storage) and its clients *)
(* (client_mt, user_harmony), with the connection between them.            *)
(*                                                                         *)
(* The server runs its handlers on one thread; a client runs the handlers  *)
(* of one exchange one after the other.  Each step is a handler: what it   *)
(* does when the operation before it has completed, up to the operation it *)
(* starts.  A connection delivers in order until it is reset.  The kernel  *)
(* completes connections before the server accepts them.                   *)
(***************************************************************************)
EXTENDS Integers, FiniteSets

CONSTANTS MaxTransfers,  \* bound on the exchanges of clients with the server
          Chunks,        \* the chunks deposited and retrieved, uid and cuid
          Endpoints,     \* number of addresses the host name resolves to
          MaxFaults,     \* bound on resets, failing calls and stops
          None, Spoilt

\* The exchanges, in the order they begin.
Transfers == 1..MaxTransfers

ASSUME ChunkServerAssumption ==
  /\ MaxTransfers \in Nat /\ Endpoints \in Nat \ {0} /\ MaxFaults \in Nat
  /\ {None, Spoilt} \cap Transfers = {} /\ None # Spoilt
  /\ None \notin {"DEPOSIT_CHUNK", "RETRIEVE_CHUNK"}

VARIABLES running,    \* the process of the server
          accepting,  \* whether an async_accept is pending
          database,   \* chunks with an entry in uid_map_
          disk,       \* the file of a chunk, below the prefix
          link,       \* the connection of a transfer
          server,     \* what the server waits for on it
          client,     \* what the client waits for on it
          command,    \* the command and the chunk of a transfer
          endpoint,   \* addresses that are left to try
          reply,      \* the chunk on its way to the client
          received,   \* what the client has read
          stored,     \* history: transfers whose deposit was processed
          faults

serverVars == <<running, accepting, database, disk, server, stored>>
clientVars == <<client, command, endpoint, received>>
vars == <<serverVars, clientVars, link, reply, faults>>

NoCommand == [op |-> None, chunk |-> None]
Op(t) == command[t].op

\* Mutant of Chunk: the server has one metadata for all its connections.
LatestChunk(t) ==
  LET begun == {u \in Transfers : command[u] # NoCommand}
  IN  command[CHOOSE u \in begun : \A v \in begun : v <= u].chunk

Chunk(t) == command[t].chunk
Fault == faults < MaxFaults /\ faults' = faults + 1

-----------------------------------------------------------------------------
(***************************************************************************)
(* The client: init_connection, and the handlers of the exchange.          *)
(***************************************************************************)
ClientGoes(t, l) == client' = [client EXCEPT ![t] = l]

\* The name resolves, and the first address is tried.  (A name that does not
\* resolve throws at the caller, before there is an exchange.)
Begin(t, op, c) ==
  /\ client[t] = "none" /\ \A u \in 1..(t - 1) : client[u] # "none"
  /\ ClientGoes(t, "connecting")
  /\ command' = [command EXCEPT ![t] = [op |-> op, chunk |-> c]]
  /\ endpoint' = [endpoint EXCEPT ![t] = Endpoints - 1]
  /\ UNCHANGED <<serverVars, received, link, reply, faults>>

Connected(t) ==
  /\ client[t] = "connecting" /\ running
  /\ ClientGoes(t, "command") /\ link' = [link EXCEPT ![t] = "backlog"]
  /\ UNCHANGED <<serverVars, command, endpoint, received, reply, faults>>

\* Mutant of ConnectFails: the end of the addresses is not looked for.
ConnectFailsAgain(t) ==
  /\ client[t] = "connecting" /\ (~running \/ endpoint[t] > 0)
  /\ endpoint' = [endpoint EXCEPT ![t] = @ - 1]
  /\ UNCHANGED <<serverVars, client, command, received, link, reply, faults>>

\* Without another address the exchange is given up, with a message.
ConnectFails(t) ==
  /\ client[t] = "connecting" /\ (~running \/ endpoint[t] > 0)
  /\ IF endpoint[t] > 0
       THEN endpoint' = [endpoint EXCEPT ![t] = @ - 1] /\ UNCHANGED client
       ELSE ClientGoes(t, "failed") /\ UNCHANGED endpoint
  /\ UNCHANGED <<serverVars, command, received, link, reply, faults>>

\* The command is written, or could not be: send_data and send_metadata are
\* not told.
SendBody(t) ==
  /\ client[t] = "command" /\ ClientGoes(t, "body")
  /\ UNCHANGED <<serverVars, command, endpoint, received, link, reply, faults>>

EndDeposit(t) ==
  /\ client[t] = "body" /\ Op(t) = "DEPOSIT_CHUNK" /\ ClientGoes(t, "ended")
  /\ UNCHANGED <<serverVars, command, endpoint, received, link, reply, faults>>

ReceiveData(t) ==
  /\ client[t] = "body" /\ Op(t) = "RETRIEVE_CHUNK" /\ ClientGoes(t, "reading")
  /\ UNCHANGED <<serverVars, command, endpoint, received, link, reply, faults>>

\* The chunk has come, or the connection has ended; end_retrieve does the same.
EndRetrieve(t) ==
  /\ client[t] = "reading" /\ ClientGoes(t, "ended")
  /\ \/ reply[t] # None /\ received' = [received EXCEPT ![t] = reply[t]]
     \/ (link[t] = "reset" \/ (server[t] = "closed" /\ reply[t] = None)) /\ UNCHANGED received
  /\ UNCHANGED <<serverVars, command, endpoint, link, reply, faults>>

-----------------------------------------------------------------------------
(***************************************************************************)
(* The server: handle_accept.                                              *)
(***************************************************************************)
ServerGoes(t, l) == server' = [server EXCEPT ![t] = l]

\* Reads the command, and accepts the next connection.
Accept(t) ==
  /\ running /\ accepting /\ link[t] = "backlog"
  /\ link' = [link EXCEPT ![t] = "accepted"] /\ ServerGoes(t, "command")
  /\ UNCHANGED <<running, accepting, database, disk, stored, clientVars, reply, faults>>

\* An error, such as too many open files: nothing accepts any more.
AcceptFails ==
  /\ running /\ accepting /\ Fault
  /\ accepting' = FALSE
  /\ UNCHANGED <<running, database, disk, server, stored, clientVars, link, reply>>

\* The process ends, with its sockets and all it holds in memory: it is
\* stopped, or remote_endpoint() has thrown for a connection already reset.
Halt ==
  /\ running' = FALSE /\ accepting' = FALSE /\ database' = {}
  /\ link' = [t \in Transfers |-> IF link[t] = "none" THEN "none" ELSE "reset"]
  /\ server' = [t \in Transfers |-> IF link[t] = "none" THEN "none" ELSE "closed"]
  /\ UNCHANGED <<disk, stored, clientVars, reply>>

Stopped == running /\ Fault /\ Halt

AcceptThrows(t) ==
  /\ running /\ accepting /\ link[t] = "reset" /\ server[t] = "none"
  /\ Halt /\ UNCHANGED faults

Start ==
  /\ ~running /\ running' = TRUE /\ accepting' = TRUE
  /\ UNCHANGED <<database, disk, server, stored, clientVars, link, reply, faults>>

-----------------------------------------------------------------------------
(***************************************************************************)
(* The server: process_cmd, and the handlers of a deposit and a retrieval. *)
(***************************************************************************)
\* db::operator() and file::operator(); save_chunk
Known(c) == c \in database
Save(c) == database' = database \cup {c}

Arrived(t, ls) == link[t] = "accepted" /\ client[t] \in ls

ProcessCmd(t) ==
  /\ server[t] = "command" /\ Arrived(t, {"command", "body", "reading", "ended"})
  /\ ServerGoes(t, "body")
  /\ UNCHANGED <<running, accepting, database, disk, stored, clientVars, link, reply, faults>>

\* storage::deposit_chunk looks at no error of its stream, which has emptied
\* the file when it was opened.
DisplayData(t) ==
  /\ server[t] = "body" /\ Op(t) = "DEPOSIT_CHUNK" /\ Arrived(t, {"body", "ended"})
  /\ ServerGoes(t, "closed")
  /\ \/ disk' = [disk EXCEPT ![Chunk(t)] = t] /\ UNCHANGED faults
     \/ disk' = [disk EXCEPT ![Chunk(t)] = Spoilt] /\ Fault
  /\ Save(Chunk(t))
  /\ stored' = stored \cup {t}
  /\ UNCHANGED <<running, accepting, clientVars, link, reply>>

\* Mutant of SendData: the connection of an inexistent chunk is kept.
SendDataHolds(t) ==
  /\ server[t] = "body" /\ Op(t) = "RETRIEVE_CHUNK" /\ Arrived(t, {"body", "reading"})
  /\ Known(Chunk(t))
  /\ ServerGoes(t, "end") /\ reply' = [reply EXCEPT ![t] = disk[Chunk(t)]]
  /\ UNCHANGED <<running, accepting, database, disk, stored, clientVars, link, faults>>

\* inexistent_file_e is caught, and the client is told nothing.
SendData(t) ==
  /\ server[t] = "body" /\ Op(t) = "RETRIEVE_CHUNK" /\ Arrived(t, {"body", "reading"})
  /\ IF Known(Chunk(t))
       THEN ServerGoes(t, "end") /\ reply' = [reply EXCEPT ![t] = disk[Chunk(t)]]
       ELSE ServerGoes(t, "closed") /\ UNCHANGED reply
  /\ UNCHANGED <<running, accepting, database, disk, stored, clientVars, link, faults>>

End(t) ==
  /\ server[t] = "end" /\ ServerGoes(t, "closed")
  /\ UNCHANGED <<running, accepting, database, disk, stored, clientVars, link, reply, faults>>

\* A handler is called with an error: a message, and the connection is let go.
ReadFails(t) ==
  /\ server[t] \in {"command", "body", "end"} /\ link[t] = "reset"
  /\ ServerGoes(t, "closed")
  /\ UNCHANGED <<running, accepting, database, disk, stored, clientVars, link, reply, faults>>

Reset(t) ==
  /\ link[t] \in {"backlog", "accepted"} /\ Fault
  /\ link' = [link EXCEPT ![t] = "reset"]
  /\ UNCHANGED <<serverVars, clientVars, reply>>

-----------------------------------------------------------------------------
Init ==
  /\ running = TRUE /\ accepting = TRUE
  /\ database = {} /\ disk = [c \in Chunks |-> None]
  /\ link = [t \in Transfers |-> "none"] /\ server = [t \in Transfers |-> "none"]
  /\ client = [t \in Transfers |-> "none"] /\ command = [t \in Transfers |-> NoCommand]
  /\ endpoint = [t \in Transfers |-> 0]
  /\ reply = [t \in Transfers |-> None] /\ received = [t \in Transfers |-> None]
  /\ stored = {} /\ faults = 0

ClientStep(t) ==
  Connected(t) \/ ConnectFails(t) \/ SendBody(t) \/ EndDeposit(t) \/ ReceiveData(t) \/ EndRetrieve(t)

ServerStep(t) ==
  Accept(t) \/ AcceptThrows(t) \/ ProcessCmd(t) \/ DisplayData(t) \/ SendData(t) \/ End(t) \/ ReadFails(t)

Next ==
  \/ \E t \in Transfers, op \in {"DEPOSIT_CHUNK", "RETRIEVE_CHUNK"}, c \in Chunks : Begin(t, op, c)
  \/ \E t \in Transfers : ClientStep(t) \/ ServerStep(t) \/ Reset(t)
  \/ AcceptFails \/ Stopped \/ Start

(***************************************************************************)
(* The threads of both ends keep running their io_service, and what is     *)
(* sent arrives unless the connection is reset.                            *)
(***************************************************************************)
Fairness == \A t \in Transfers : WF_vars(ClientStep(t)) /\ WF_vars(ServerStep(t))

Spec == Init /\ [][Next]_vars /\ Fairness

-----------------------------------------------------------------------------
Content == Transfers \cup {None, Spoilt}

TypeOK ==
  /\ running \in BOOLEAN /\ accepting \in BOOLEAN /\ faults \in 0..MaxFaults
  /\ database \subseteq Chunks /\ disk \in [Chunks -> Content]
  /\ link \in [Transfers -> {"none", "backlog", "accepted", "reset"}]
  /\ server \in [Transfers -> {"none", "command", "body", "end", "closed"}]
  /\ client \in [Transfers -> {"none", "connecting", "command", "body", "reading", "ended", "failed"}]
  /\ command \in [Transfers -> [op : {"DEPOSIT_CHUNK", "RETRIEVE_CHUNK"}, chunk : Chunks] \cup {NoCommand}]
  /\ endpoint \in [Transfers -> 0..Endpoints]
  /\ reply \in [Transfers -> Content] /\ received \in [Transfers -> Content]
  /\ stored \subseteq Transfers

(***************************************************************************)
(* The server keeps the promise of ChunkStore: what reaches it on a        *)
(* connection that holds is processed once; a deposit is whole, and a      *)
(* retrieval is answered with the chunk it asked for, as it is at that     *)
(* moment, or refused; a restart forgets every chunk although the files    *)
(* are there.                                                              *)
(***************************************************************************)
Store == INSTANCE ChunkStore WITH
  up <- running,
  held <- [c \in Chunks |-> IF c \in database THEN disk[c] ELSE None],
  request <- command,
  NoRequest <- NoCommand,
  open <- {t \in Transfers : command[t] # NoCommand /\ server[t] \notin {"end", "closed"}},
  reached <- {t \in Transfers : link[t] # "none"},
  cut <- {t \in Transfers : link[t] = "reset"},
  found <- reply

KeepsChunks == Store!Spec

\* What makes it so: how far the two ends of an exchange can be apart, and
\* that what is in the database has a file.
ExchangeInv ==
  /\ \A c \in database : disk[c] # None
  /\ \A t \in Transfers :
      /\ client[t] = "none" => command[t] = NoCommand
      /\ client[t] # "none" => command[t] # NoCommand
      /\ client[t] \in {"none", "connecting", "failed"} => link[t] = "none"
      /\ link[t] \in {"none", "backlog"} => server[t] = "none"
      /\ server[t] \in {"none", "command", "body"} => reply[t] = None /\ t \notin stored
      /\ t \in stored => server[t] = "closed"

(***************************************************************************)
(* A deposit that its client took for done was processed, or is still with *)
(* a running server, in the backlog or accepted, or its connection was     *)
(* reset: the server lets go of none on its own.                           *)
(***************************************************************************)
DepositsAreTraced ==
  \A t \in Transfers : client[t] = "ended" /\ Op(t) = "DEPOSIT_CHUNK" =>
    \/ t \in stored \/ link[t] = "reset"
    \/ running /\ (link[t] = "backlog" \/ (link[t] = "accepted" /\ server[t] \in {"command", "body"}))

\* What makes it so.
TraceInv ==
  \A t \in Transfers :
    /\ link[t] \in {"backlog", "accepted"} => running
    /\ link[t] = "accepted" => server[t] # "none"
    /\ client[t] \in {"command", "body", "reading", "ended"} => link[t] # "none"
    /\ Op(t) = "DEPOSIT_CHUNK" => server[t] # "end"
    /\ Op(t) = "DEPOSIT_CHUNK" /\ server[t] = "closed" => t \in stored \/ link[t] = "reset"

(***************************************************************************)
(* An exchange in which the connection was established ends for the client *)
(* and a deposit it took for done is processed, as long as the connection  *)
(* is not reset and the server accepts.  After one accept error clients    *)
(* still connect: their deposits are lost without an error and their       *)
(* retrievals never end.                                                   *)
(***************************************************************************)
ExchangesComplete ==
  \A t \in Transfers : client[t] = "command" ~>
    \/ client[t] = "ended" /\ (Op(t) = "DEPOSIT_CHUNK" => t \in stored)
    \/ link[t] = "reset" \/ ~accepting

=============================================================================
