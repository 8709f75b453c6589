----------------------------- MODULE ChunkStore -----------------------------
(***************************************************************************)
(* What a chunk server promises its clients.  A client asks for one thing, *)
(* a deposit or a retrieval of one chunk.  A request that has reached the  *)
(* server is processed once: a deposit is applied whole, a retrieval is    *)
(* answered with the content the chunk it asked for has at that moment, or *)
(* refused if the server does not have the chunk.  The server drops a      *)
(* request only when the connection was cut.  A server that stops forgets  *)
(* all chunks and cuts all connections, and comes back with nothing.       *)
(*                                                                         *)
(* A deposit whose file cannot be written spoils the chunk.                *)
(***************************************************************************)
CONSTANTS Chunks, Transfers, None, Spoilt,
          NoRequest   \* of a transfer that has not begun

VARIABLES up,       \* the server runs
          held,     \* the content of a chunk: the transfer that deposited it
          request,  \* what a transfer has asked for
          open,     \* transfers whose request has not been processed
          reached,  \* transfers that have had a connection
          cut,      \* transfers that have lost it
          found     \* the content a transfer was answered with

vars == <<up, held, request, open, reached, cut, found>>

Nothing == [c \in Chunks |-> None]

Init ==
  /\ up = TRUE /\ held = Nothing
  /\ request = [t \in Transfers |-> NoRequest]
  /\ open = {} /\ reached = {} /\ cut = {}
  /\ found = [t \in Transfers |-> None]

Ask(t, op, c) ==
  /\ request[t] = NoRequest
  /\ request' = [request EXCEPT ![t] = [op |-> op, chunk |-> c]]
  /\ open' = open \cup {t}
  /\ UNCHANGED <<up, held, reached, cut, found>>

Reach(t) ==
  /\ up /\ t \in open \ reached
  /\ reached' = reached \cup {t}
  /\ UNCHANGED <<up, held, request, open, cut, found>>

Processable(t, op) == up /\ t \in (open \cap reached) \ cut /\ request[t].op = op

Apply(t) ==
  /\ Processable(t, "DEPOSIT_CHUNK")
  /\ \E v \in {t, Spoilt} : held' = [held EXCEPT ![request[t].chunk] = v]
  /\ open' = open \ {t}
  /\ UNCHANGED <<up, request, reached, cut, found>>

Answer(t) ==
  /\ Processable(t, "RETRIEVE_CHUNK") /\ held[request[t].chunk] # None
  /\ found' = [found EXCEPT ![t] = held[request[t].chunk]]
  /\ open' = open \ {t}
  /\ UNCHANGED <<up, held, request, reached, cut>>

Refuse(t) ==
  /\ Processable(t, "RETRIEVE_CHUNK") /\ held[request[t].chunk] = None
  /\ open' = open \ {t}
  /\ UNCHANGED <<up, held, request, reached, cut, found>>

Cut(t) ==
  /\ t \in reached \ cut
  /\ cut' = cut \cup {t}
  /\ UNCHANGED <<up, held, request, open, reached, found>>

Drop(t) ==
  /\ t \in open \cap cut
  /\ open' = open \ {t}
  /\ UNCHANGED <<up, held, request, reached, cut, found>>

Stop ==
  /\ up /\ up' = FALSE
  /\ held' = Nothing /\ cut' = reached /\ open' = open \ reached
  /\ UNCHANGED <<request, reached, found>>

Start == ~up /\ up' = TRUE /\ UNCHANGED <<held, request, open, reached, cut, found>>

Next ==
  \/ \E t \in Transfers :
       \/ \E op \in {"DEPOSIT_CHUNK", "RETRIEVE_CHUNK"}, c \in Chunks : Ask(t, op, c)
       \/ Reach(t) \/ Apply(t) \/ Answer(t) \/ Refuse(t) \/ Cut(t) \/ Drop(t)
  \/ Stop \/ Start

Spec == Init /\ [][Next]_vars

=============================================================================
