-------------------------- MODULE ChunkServerProofs --------------------------
(***************************************************************************)
(* Safety of ChunkServer, for any chunks and any number of exchanges,      *)
(* addresses and faults.                                                   *)
(***************************************************************************)
EXTENDS ChunkServer, TLAPS

-----------------------------------------------------------------------------
LEMMA InitTypeOK == Init => TypeOK
BY ChunkServerAssumption DEF Init, TypeOK, NoCommand, Content

LEMMA NextTypeOK == TypeOK /\ [Next]_vars => TypeOK'
<1> SUFFICES ASSUME TypeOK, [Next]_vars
             PROVE  TypeOK'
  OBVIOUS
<1> USE ChunkServerAssumption DEF TypeOK, NoCommand, Content
<1>1. ASSUME NEW t \in Transfers, NEW op \in {"DEPOSIT_CHUNK", "RETRIEVE_CHUNK"}, NEW c \in Chunks, Begin(t, op, c)
      PROVE  TypeOK'
  BY <1>1 DEF Begin, ClientGoes, NoCommand, serverVars
<1>2. ASSUME NEW t \in Transfers, Connected(t) PROVE TypeOK'
  BY <1>2 DEF Connected, ClientGoes, serverVars
<1>3. ASSUME NEW t \in Transfers, ConnectFails(t) PROVE TypeOK'
  BY <1>3 DEF ConnectFails, ClientGoes, serverVars
<1>4. ASSUME NEW t \in Transfers, SendBody(t) PROVE TypeOK'
  BY <1>4 DEF SendBody, ClientGoes, serverVars
<1>5. ASSUME NEW t \in Transfers, EndDeposit(t) PROVE TypeOK'
  BY <1>5 DEF EndDeposit, ClientGoes, serverVars
<1>6. ASSUME NEW t \in Transfers, ReceiveData(t) PROVE TypeOK'
  BY <1>6 DEF ReceiveData, ClientGoes, serverVars
<1>7. ASSUME NEW t \in Transfers, EndRetrieve(t) PROVE TypeOK'
  BY <1>7 DEF EndRetrieve, ClientGoes, serverVars
<1>8. ASSUME NEW t \in Transfers, Accept(t) PROVE TypeOK'
  BY <1>8 DEF Accept, ServerGoes, clientVars
<1>9. ASSUME NEW t \in Transfers, AcceptThrows(t) PROVE TypeOK'
  BY <1>9 DEF AcceptThrows, Halt, clientVars
<1>10. ASSUME NEW t \in Transfers, ProcessCmd(t) PROVE TypeOK'
  BY <1>10 DEF ProcessCmd, ServerGoes, Arrived, clientVars
<1>11. ASSUME NEW t \in Transfers, DisplayData(t) PROVE TypeOK'
  <2>1. t \in Content /\ Spoilt \in Content
    OBVIOUS
  <2>2. Chunk(t) \in Chunks
    BY <1>11 DEF DisplayData, Op, Chunk
  <2> QED  BY <1>11, <2>1, <2>2 DEF DisplayData, ServerGoes, Save, Fault, clientVars
<1>12. ASSUME NEW t \in Transfers, SendData(t) PROVE TypeOK'
  BY <1>12 DEF SendData, ServerGoes, Arrived, Known, Op, Chunk, clientVars
<1>13. ASSUME NEW t \in Transfers, End(t) PROVE TypeOK'
  BY <1>13 DEF End, ServerGoes, clientVars
<1>14. ASSUME NEW t \in Transfers, ReadFails(t) PROVE TypeOK'
  BY <1>14 DEF ReadFails, ServerGoes, clientVars
<1>15. ASSUME NEW t \in Transfers, Reset(t) PROVE TypeOK'
  BY <1>15 DEF Reset, Fault, serverVars, clientVars
<1>16. ASSUME AcceptFails PROVE TypeOK'
  <2>1. faults' \in 0..MaxFaults
    BY <1>16 DEF AcceptFails, Fault
  <2> QED  BY <1>16, <2>1 DEF AcceptFails, clientVars
<1>17. ASSUME Stopped PROVE TypeOK'
  <2>1. faults' \in 0..MaxFaults
    BY <1>17 DEF Stopped, Fault
  <2> QED  BY <1>17, <2>1 DEF Stopped, Halt, clientVars
<1>18. ASSUME Start PROVE TypeOK'
  BY <1>18 DEF Start, clientVars
<1>19. CASE UNCHANGED vars
  BY <1>19 DEF vars, serverVars, clientVars
<1> QED
  BY <1>1, <1>2, <1>3, <1>4, <1>5, <1>6, <1>7, <1>8, <1>9, <1>10, <1>11,
     <1>12, <1>13, <1>14, <1>15, <1>16, <1>17, <1>18, <1>19
     DEF Next, ClientStep, ServerStep

(***************************************************************************)
(* The state always has its type; above all, what is on disk and what is   *)
(* sent is a deposit, spoilt, or nothing.                                  *)
(***************************************************************************)
THEOREM TypeCorrect == Spec => []TypeOK
BY InitTypeOK, NextTypeOK, PTL DEF Spec

-----------------------------------------------------------------------------
LEMMA InitExchangeInv == Init => ExchangeInv
BY DEF Init, ExchangeInv

LEMMA NextExchangeInv == TypeOK /\ ExchangeInv /\ [Next]_vars => ExchangeInv'
<1> SUFFICES ASSUME TypeOK, ExchangeInv, [Next]_vars
             PROVE  ExchangeInv'
  OBVIOUS
<1> USE ChunkServerAssumption DEF TypeOK, ExchangeInv
<1>1. ASSUME NEW t \in Transfers, NEW op \in {"DEPOSIT_CHUNK", "RETRIEVE_CHUNK"}, NEW c \in Chunks, Begin(t, op, c)
      PROVE  ExchangeInv'
  BY <1>1 DEF Begin, ClientGoes, NoCommand, serverVars
<1>2. ASSUME NEW t \in Transfers, Connected(t) PROVE ExchangeInv'
  BY <1>2 DEF Connected, ClientGoes, serverVars
<1>3. ASSUME NEW t \in Transfers, ConnectFails(t) PROVE ExchangeInv'
  BY <1>3 DEF ConnectFails, ClientGoes, serverVars
<1>4. ASSUME NEW t \in Transfers, SendBody(t) PROVE ExchangeInv'
  BY <1>4 DEF SendBody, ClientGoes, serverVars
<1>5. ASSUME NEW t \in Transfers, EndDeposit(t) PROVE ExchangeInv'
  BY <1>5 DEF EndDeposit, ClientGoes, serverVars
<1>6. ASSUME NEW t \in Transfers, ReceiveData(t) PROVE ExchangeInv'
  BY <1>6 DEF ReceiveData, ClientGoes, serverVars
<1>7. ASSUME NEW t \in Transfers, EndRetrieve(t) PROVE ExchangeInv'
  BY <1>7 DEF EndRetrieve, ClientGoes, serverVars
<1>8. ASSUME NEW t \in Transfers, Accept(t) PROVE ExchangeInv'
  BY <1>8 DEF Accept, ServerGoes, clientVars
<1>9. ASSUME NEW t \in Transfers, AcceptThrows(t) PROVE ExchangeInv'
  BY <1>9 DEF AcceptThrows, Halt, clientVars
<1>10. ASSUME NEW t \in Transfers, ProcessCmd(t) PROVE ExchangeInv'
  BY <1>10 DEF ProcessCmd, ServerGoes, Arrived, clientVars
<1>11. ASSUME NEW t \in Transfers, DisplayData(t) PROVE ExchangeInv'
  BY <1>11 DEF DisplayData, ServerGoes, Arrived, Save, Op, Chunk, Fault, clientVars
<1>12. ASSUME NEW t \in Transfers, SendData(t) PROVE ExchangeInv'
  BY <1>12 DEF SendData, ServerGoes, Arrived, Known, Op, Chunk, clientVars
<1>13. ASSUME NEW t \in Transfers, End(t) PROVE ExchangeInv'
  BY <1>13 DEF End, ServerGoes, clientVars
<1>14. ASSUME NEW t \in Transfers, ReadFails(t) PROVE ExchangeInv'
  BY <1>14 DEF ReadFails, ServerGoes, clientVars
<1>15. ASSUME NEW t \in Transfers, Reset(t) PROVE ExchangeInv'
  BY <1>15 DEF Reset, Fault, serverVars, clientVars
<1>16. ASSUME AcceptFails PROVE ExchangeInv'
  BY <1>16 DEF AcceptFails, Fault, clientVars
<1>17. ASSUME Stopped PROVE ExchangeInv'
  BY <1>17 DEF Stopped, Fault, Halt, clientVars
<1>18. ASSUME Start PROVE ExchangeInv'
  BY <1>18 DEF Start, clientVars
<1>19. CASE UNCHANGED vars
  BY <1>19 DEF vars, serverVars, clientVars
<1> QED
  BY <1>1, <1>2, <1>3, <1>4, <1>5, <1>6, <1>7, <1>8, <1>9, <1>10, <1>11,
     <1>12, <1>13, <1>14, <1>15, <1>16, <1>17, <1>18, <1>19
     DEF Next, ClientStep, ServerStep

LEMMA Invariance == Spec => [](TypeOK /\ ExchangeInv)
BY InitTypeOK, InitExchangeInv, NextTypeOK, NextExchangeInv, PTL DEF Spec

-----------------------------------------------------------------------------
LEMMA InitTraceInv == Init => TraceInv
BY DEF Init, TraceInv, Op, NoCommand

LEMMA NextTraceInv == TypeOK /\ ExchangeInv /\ TraceInv /\ [Next]_vars => TraceInv'
<1> SUFFICES ASSUME TypeOK, ExchangeInv, TraceInv, [Next]_vars
             PROVE  TraceInv'
  OBVIOUS
<1> USE ChunkServerAssumption DEF TypeOK, ExchangeInv, TraceInv, Op
<1>1. ASSUME NEW t \in Transfers, NEW op \in {"DEPOSIT_CHUNK", "RETRIEVE_CHUNK"}, NEW c \in Chunks, Begin(t, op, c)
      PROVE  TraceInv'
  BY <1>1 DEF Begin, ClientGoes, NoCommand, serverVars
<1>2. ASSUME NEW t \in Transfers, Connected(t) PROVE TraceInv'
  BY <1>2 DEF Connected, ClientGoes, serverVars
<1>3. ASSUME NEW t \in Transfers, ConnectFails(t) PROVE TraceInv'
  BY <1>3 DEF ConnectFails, ClientGoes, serverVars
<1>4. ASSUME NEW t \in Transfers, SendBody(t) PROVE TraceInv'
  BY <1>4 DEF SendBody, ClientGoes, serverVars
<1>5. ASSUME NEW t \in Transfers, EndDeposit(t) PROVE TraceInv'
  BY <1>5 DEF EndDeposit, ClientGoes, serverVars
<1>6. ASSUME NEW t \in Transfers, ReceiveData(t) PROVE TraceInv'
  BY <1>6 DEF ReceiveData, ClientGoes, serverVars
<1>7. ASSUME NEW t \in Transfers, EndRetrieve(t) PROVE TraceInv'
  BY <1>7 DEF EndRetrieve, ClientGoes, serverVars
<1>8. ASSUME NEW t \in Transfers, Accept(t) PROVE TraceInv'
  BY <1>8 DEF Accept, ServerGoes, clientVars
<1>9. ASSUME NEW t \in Transfers, AcceptThrows(t) PROVE TraceInv'
  BY <1>9 DEF AcceptThrows, Halt, clientVars
<1>10. ASSUME NEW t \in Transfers, ProcessCmd(t) PROVE TraceInv'
  BY <1>10 DEF ProcessCmd, ServerGoes, Arrived, clientVars
<1>11. ASSUME NEW t \in Transfers, DisplayData(t) PROVE TraceInv'
  BY <1>11 DEF DisplayData, ServerGoes, Arrived, Save, Chunk, Fault, clientVars
<1>12. ASSUME NEW t \in Transfers, SendData(t) PROVE TraceInv'
  BY <1>12 DEF SendData, ServerGoes, Arrived, Known, Chunk, clientVars
<1>13. ASSUME NEW t \in Transfers, End(t) PROVE TraceInv'
  BY <1>13 DEF End, ServerGoes, clientVars
<1>14. ASSUME NEW t \in Transfers, ReadFails(t) PROVE TraceInv'
  BY <1>14 DEF ReadFails, ServerGoes, clientVars
<1>15. ASSUME NEW t \in Transfers, Reset(t) PROVE TraceInv'
  BY <1>15 DEF Reset, Fault, serverVars, clientVars
<1>16. ASSUME AcceptFails PROVE TraceInv'
  BY <1>16 DEF AcceptFails, Fault, clientVars
<1>17. ASSUME Stopped PROVE TraceInv'
  BY <1>17 DEF Stopped, Fault, Halt, clientVars
<1>18. ASSUME Start PROVE TraceInv'
  BY <1>18 DEF Start, clientVars
<1>19. CASE UNCHANGED vars
  BY <1>19 DEF vars, serverVars, clientVars
<1> QED
  BY <1>1, <1>2, <1>3, <1>4, <1>5, <1>6, <1>7, <1>8, <1>9, <1>10, <1>11,
     <1>12, <1>13, <1>14, <1>15, <1>16, <1>17, <1>18, <1>19
     DEF Next, ClientStep, ServerStep

(***************************************************************************)
(* A deposit its client took for done was processed, or is still with a    *)
(* running server, or lost its connection: no handler of the server drops  *)
(* one.                                                                    *)
(***************************************************************************)
THEOREM DepositsStayTraced == Spec => []DepositsAreTraced
<1>1. TypeOK /\ ExchangeInv /\ TraceInv => DepositsAreTraced
  BY DEF TypeOK, ExchangeInv, TraceInv, DepositsAreTraced
<1> QED  BY <1>1, InitTraceInv, NextTraceInv, Invariance, PTL DEF Spec

-----------------------------------------------------------------------------
(***************************************************************************)
(* The parts of the state a ChunkStore has, next to running, command and   *)
(* reply.                                                                  *)
(***************************************************************************)
Held    == [c \in Chunks |-> IF c \in database THEN disk[c] ELSE None]
Open    == {t \in Transfers : command[t] # NoCommand /\ server[t] \notin {"end", "closed"}}
Reached == {t \in Transfers : link[t] # "none"}
Severed == {t \in Transfers : link[t] = "reset"}

StoreVars == <<running, Held, command, Open, Reached, Severed, reply>>
StoreNext == [Store!Next]_StoreVars

\* A step of a server that keeps its chunks.
LEMMA HeldKept == ASSUME UNCHANGED <<database, disk>> PROVE Held' = Held
BY DEF Held

\* A step that touches no connection and no handler of the server.
LEMMA LinksKept ==
  ASSUME UNCHANGED <<command, server, link>>
  PROVE  UNCHANGED <<Open, Reached, Severed>>
BY DEF Open, Reached, Severed

LEMMA QuietStep ==
  ASSUME UNCHANGED <<running, database, disk, command, server, link, reply>>
  PROVE  StoreNext
BY HeldKept, LinksKept DEF StoreNext, StoreVars

\* A handler of the server that has done what was asked for.
LEMMA Processed ==
  ASSUME NEW t \in Transfers, TypeOK, UNCHANGED <<command, link>>,
         NEW l \in {"end", "closed"}, ServerGoes(t, l)
  PROVE  Open' = Open \ {t} /\ UNCHANGED <<Reached, Severed>>
BY DEF Open, Reached, Severed, ServerGoes, TypeOK

\* Which requests can be.
LEMMA IsProcessable ==
  ASSUME NEW t \in Transfers, ExchangeInv, TraceInv, link[t] = "accepted", server[t] = "body"
  PROVE  running /\ t \in (Open \cap Reached) \ Severed
BY DEF ExchangeInv, TraceInv, Open, Reached, Severed

LEMMA InitImplements == Init => Store!Init
BY ChunkServerAssumption DEF Init, Store!Init, Store!Nothing, NoCommand

LEMMA HaltImplements ==
  ASSUME TypeOK, ExchangeInv, TraceInv, running, Halt
  PROVE  StoreNext
<1>1. Held' = [c \in Chunks |-> None] /\ running' = FALSE
  BY DEF Halt, Held
<1>2. Reached' = Reached /\ Severed' = Reached /\ UNCHANGED <<command, reply>>
  BY DEF Halt, Reached, Severed, clientVars
<1>3. Open' = Open \ Reached
  BY DEF Halt, Reached, Open, clientVars, TypeOK, ExchangeInv
<1> QED  BY <1>1, <1>2, <1>3
  DEF StoreNext, StoreVars, Held, Open, Reached, Severed, Store!Next, Store!Stop, Store!Nothing

LEMMA NextImplements == TypeOK /\ ExchangeInv /\ TraceInv /\ [Next]_vars => StoreNext
<1> SUFFICES ASSUME TypeOK, ExchangeInv, TraceInv, [Next]_vars
             PROVE  StoreNext
  OBVIOUS
<1> USE ChunkServerAssumption
<1>1. ASSUME NEW t \in Transfers, NEW op \in {"DEPOSIT_CHUNK", "RETRIEVE_CHUNK"}, NEW c \in Chunks, Begin(t, op, c)
      PROVE  StoreNext
  <2>1. Held' = Held /\ UNCHANGED <<running, Reached, Severed, reply>>
    BY <1>1, HeldKept DEF Begin, serverVars, Reached, Severed
  <2>2. command[t] = NoCommand /\ server[t] = "none"
    BY <1>1 DEF Begin, ExchangeInv
  <2>3. command' = [command EXCEPT ![t] = [op |-> op, chunk |-> c]]
    BY <1>1 DEF Begin
  <2>4. command'[t] # NoCommand
    BY <2>3 DEF NoCommand, TypeOK
  <2>5. Open' = Open \cup {t}
    BY <1>1, <2>2, <2>3, <2>4 DEF Begin, serverVars, Open, TypeOK
  <2>6. Store!Ask(t, op, c)
    BY <2>1, <2>2, <2>3, <2>5 DEF Store!Ask, Held, Open, Reached, Severed
  <2> QED  BY <2>6 DEF StoreNext, Store!Next
<1>2. ASSUME NEW t \in Transfers, Connected(t) PROVE StoreNext
  <2>1. Held' = Held /\ running /\ UNCHANGED <<running, command, reply>>
    BY <1>2, HeldKept DEF Connected, serverVars
  <2>2. t \in Open \ Reached
    BY <1>2 DEF Connected, ExchangeInv, Open, Reached
  <2>3. Reached' = Reached \cup {t} /\ UNCHANGED <<Severed, Open>>
    BY <1>2, <2>2 DEF Connected, serverVars, TypeOK, Reached, Severed, Open
  <2>4. Store!Reach(t)
    BY <2>1, <2>2, <2>3 DEF Store!Reach, Held, Open, Reached, Severed
  <2> QED  BY <2>4 DEF StoreNext, Store!Next
<1>3. ASSUME NEW t \in Transfers,
             ConnectFails(t) \/ SendBody(t) \/ EndDeposit(t) \/ ReceiveData(t) \/ EndRetrieve(t)
      PROVE  StoreNext
  <2>1. UNCHANGED <<running, database, disk, command, server, link, reply>>
    BY <1>3 DEF ConnectFails, SendBody, EndDeposit, ReceiveData, EndRetrieve, serverVars
  <2> QED  BY <2>1, QuietStep
<1>4. ASSUME NEW t \in Transfers, Accept(t) PROVE StoreNext
  <2>1. Held' = Held /\ UNCHANGED <<running, command, reply>>
    BY <1>4, HeldKept DEF Accept, clientVars
  <2>2. UNCHANGED <<Open, Reached, Severed>>
    BY <1>4 DEF Accept, ServerGoes, clientVars, TypeOK, ExchangeInv, Open, Reached, Severed
  <2> QED  BY <2>1, <2>2 DEF StoreNext, StoreVars
<1>5. ASSUME NEW t \in Transfers, AcceptThrows(t) PROVE StoreNext
  BY <1>5, HaltImplements DEF AcceptThrows
<1>6. ASSUME NEW t \in Transfers, ProcessCmd(t) PROVE StoreNext
  <2>1. Held' = Held /\ UNCHANGED <<running, command, reply>>
    BY <1>6, HeldKept DEF ProcessCmd, clientVars
  <2>2. UNCHANGED <<Open, Reached, Severed>>
    BY <1>6 DEF ProcessCmd, ServerGoes, clientVars, TypeOK, Open, Reached, Severed
  <2> QED  BY <2>1, <2>2 DEF StoreNext, StoreVars
<1>7. ASSUME NEW t \in Transfers, DisplayData(t) PROVE StoreNext
  <2>1. Chunk(t) \in Chunks
    BY <1>7 DEF DisplayData, Op, Chunk, TypeOK, NoCommand
  <2>2. PICK v \in {t, Spoilt} : disk' = [disk EXCEPT ![Chunk(t)] = v]
    BY <1>7 DEF DisplayData
  <2>3. Held' = [Held EXCEPT ![Chunk(t)] = v]
    BY <1>7, <2>1, <2>2 DEF DisplayData, Save, Held, TypeOK
  <2>4. Open' = Open \ {t} /\ UNCHANGED <<running, command, Reached, Severed, reply>>
    BY <1>7, Processed DEF DisplayData, clientVars
  <2>5. running /\ t \in (Open \cap Reached) \ Severed
    BY <1>7, IsProcessable DEF DisplayData, Arrived
  <2>6. Store!Apply(t)
    BY <1>7, <2>2, <2>3, <2>4, <2>5
       DEF DisplayData, Op, Chunk, Store!Apply, Store!Processable, Held, Open, Reached, Severed
  <2> QED  BY <2>6 DEF StoreNext, Store!Next
<1>8. ASSUME NEW t \in Transfers, SendData(t) PROVE StoreNext
  <2>1. Chunk(t) \in Chunks
    BY <1>8 DEF SendData, Op, Chunk, TypeOK, NoCommand
  <2>2. Held' = Held /\ UNCHANGED <<running, command>>
    BY <1>8, HeldKept DEF SendData, clientVars
  <2>3. Open' = Open \ {t} /\ UNCHANGED <<Reached, Severed>>
    BY <1>8, Processed DEF SendData, clientVars
  <2>4. running /\ t \in (Open \cap Reached) \ Severed
    BY <1>8, IsProcessable DEF SendData, Arrived
  <2>5. CASE Known(Chunk(t))
    <3>1. Held[Chunk(t)] = disk[Chunk(t)] /\ disk[Chunk(t)] # None
      BY <2>1, <2>5 DEF Known, Held, ExchangeInv
    <3>2. reply' = [reply EXCEPT ![t] = Held[Chunk(t)]]
      BY <1>8, <2>5, <3>1 DEF SendData
    <3>3. Store!Answer(t)
      BY <1>8, <2>2, <2>3, <2>4, <3>1, <3>2
         DEF SendData, Op, Chunk, Store!Answer, Store!Processable, Held, Open, Reached, Severed
    <3> QED  BY <3>3 DEF StoreNext, Store!Next
  <2>6. CASE ~Known(Chunk(t))
    <3>1. Held[Chunk(t)] = None /\ UNCHANGED reply
      BY <1>8, <2>1, <2>6 DEF SendData, Known, Held
    <3>2. Store!Refuse(t)
      BY <1>8, <2>2, <2>3, <2>4, <3>1
         DEF SendData, Op, Chunk, Store!Refuse, Store!Processable, Held, Open, Reached, Severed
    <3> QED  BY <3>2 DEF StoreNext, Store!Next
  <2> QED  BY <2>5, <2>6
<1>9. ASSUME NEW t \in Transfers, End(t) PROVE StoreNext
  <2>1. Held' = Held /\ UNCHANGED <<running, command, reply>>
    BY <1>9, HeldKept DEF End, clientVars
  <2>2. UNCHANGED <<Open, Reached, Severed>>
    BY <1>9 DEF End, ServerGoes, clientVars, TypeOK, Open, Reached, Severed
  <2> QED  BY <2>1, <2>2 DEF StoreNext, StoreVars
<1>10. ASSUME NEW t \in Transfers, ReadFails(t) PROVE StoreNext
  <2>1. Held' = Held /\ UNCHANGED <<running, command, reply>>
    BY <1>10, HeldKept DEF ReadFails, clientVars
  <2>2. Open' = Open \ {t} /\ UNCHANGED <<Reached, Severed>>
    BY <1>10, Processed DEF ReadFails, clientVars
  <2>3. CASE t \notin Open
    BY <2>1, <2>2, <2>3 DEF StoreNext, StoreVars
  <2>4. CASE t \in Open
    <3>1. t \in Open \cap Severed
      BY <1>10, <2>4 DEF ReadFails, Severed
    <3>2. Store!Drop(t)
      BY <2>1, <2>2, <3>1 DEF Store!Drop, Held, Open, Reached, Severed
    <3> QED  BY <3>2 DEF StoreNext, Store!Next
  <2> QED  BY <2>3, <2>4
<1>11. ASSUME NEW t \in Transfers, Reset(t) PROVE StoreNext
  <2>1. Held' = Held /\ UNCHANGED <<running, command, reply>>
    BY <1>11, HeldKept DEF Reset, serverVars, clientVars
  <2>2. t \in Reached \ Severed /\ Severed' = Severed \cup {t} /\ UNCHANGED <<Open, Reached>>
    BY <1>11 DEF Reset, serverVars, clientVars, TypeOK, Open, Reached, Severed
  <2>3. Store!Cut(t)
    BY <2>1, <2>2 DEF Store!Cut, Held, Open, Reached, Severed
  <2> QED  BY <2>3 DEF StoreNext, Store!Next
<1>12. ASSUME AcceptFails PROVE StoreNext
  <2>1. UNCHANGED <<running, database, disk, command, server, link, reply>>
    BY <1>12 DEF AcceptFails, clientVars
  <2> QED  BY <2>1, QuietStep
<1>13. ASSUME Stopped PROVE StoreNext
  BY <1>13, HaltImplements DEF Stopped
<1>14. ASSUME Start PROVE StoreNext
  <2>1. Held' = Held /\ UNCHANGED <<command, Open, Reached, Severed, reply>>
    BY <1>14, HeldKept, LinksKept DEF Start, clientVars
  <2>2. Store!Start
    BY <1>14, <2>1 DEF Start, Store!Start, Held, Open, Reached, Severed
  <2> QED  BY <2>2 DEF StoreNext, Store!Next
<1>15. CASE UNCHANGED vars
  BY <1>15, QuietStep DEF vars, serverVars, clientVars
<1> QED
  BY <1>1, <1>2, <1>3, <1>4, <1>5, <1>6, <1>7, <1>8, <1>9, <1>10, <1>11,
     <1>12, <1>13, <1>14, <1>15
     DEF Next, ClientStep, ServerStep

(***************************************************************************)
(* To its clients the server is a ChunkStore: a request that reaches it on *)
(* a connection that holds is processed once, a deposit whole, a retrieval *)
(* with the chunk it asked for; only a lost connection loses a request;    *)
(* and a server that was stopped holds nothing, whatever is on its disk,   *)
(* until a deposit is processed again.                                     *)
(***************************************************************************)
THEOREM ImplementsChunkStore == Spec => KeepsChunks
<1>1. StoreNext => [Store!Next]_(Store!vars)
  BY DEF StoreNext, StoreVars, Store!vars, Held, Open, Reached, Severed
<1> QED  BY <1>1, InitImplements, NextImplements, InitTraceInv, NextTraceInv, Invariance, PTL
         DEF Spec, KeepsChunks, Store!Spec

=============================================================================
