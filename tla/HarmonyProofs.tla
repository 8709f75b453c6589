---------------------------- MODULE HarmonyProofs ----------------------------
(***************************************************************************)
(* Safety of Harmony, for any callers, chunk servers, keys and hashes, and *)
(* any number of calls and tries.                                          *)
(***************************************************************************)
EXTENDS Harmony, TLAPS

-----------------------------------------------------------------------------
LEMMA KeyFacts ==
  /\ Swarm \in Keys /\ Swarm.type = "CHUNKSERVER"
  /\ \A k \in Keys \ {Swarm} : k.type \in {"CHUNK", "ATTRIBUTE"}
  /\ \A k \in Keys : Hash[k] \in Hashes
  /\ Callers \cap Servers = {} /\ MaxCalls \in Nat /\ MaxTries \in Nat
<1>1. \A k \in Keys \ {Swarm} : k.type \in {"CHUNK", "ATTRIBUTE"}
  <2>1. \A k \in Keys : k \in Instruction /\ (k.type = "CHUNKSERVER" <=> k = Swarm)
    BY HarmonyAssumption, Zenon
  <2> QED  BY <2>1 DEF Instruction
<1>2. /\ Swarm \in Keys /\ Swarm.type = "CHUNKSERVER"
      /\ Callers \cap Servers = {} /\ MaxCalls \in Nat /\ MaxTries \in Nat
  BY HarmonyAssumption, Zenon
<1>3. \A k \in Keys : Hash[k] \in Hashes
  BY DEF Hashes
<1> QED  BY <1>1, <1>2, <1>3

LEMMA ErasedIsAValue == Erased \in Values /\ NoResponse.value \in Values
BY DEF Erased, Values, NoResponse, Response

\* What OnFlush puts, and what init puts.
LEMMA ValuesHaveType ==
  /\ \A k \in Keys \ {Swarm}, n \in Nat : Value(k, n) \in Values
  /\ \A list \in Seq(Servers) : Value(Swarm, list) \in Values
BY KeyFacts DEF Value, Values

\* What init has read, if it can be read.
LEMMA ReadableList ==
  ASSUME NEW v \in Values, Readable(Swarm, v)
  PROVE  v.data \in Seq(Servers)
<1>1. Swarm.type = "CHUNKSERVER"
  BY KeyFacts
<1> QED  BY <1>1 DEF Readable, Values, Erased

LEMMA InitTypeOK == Init => TypeOK
BY KeyFacts, ErasedIsAValue DEF Init, TypeOK, CallTypeOK, ReplyTypeOK, TableTypeOK, CountTypeOK, NoResponse, Response, Procs

LEMMA StoredHasType == \A v \in Values : Stored(v) \in Values \cup {None}
BY DEF Stored

LEMMA RequestHasType ==
  ASSUME CallTypeOK, NEW p \in Procs, NEW op \in {"get", "put"}, NEW k \in Keys, NEW v \in Values,
         p \in Servers => k = Swarm, Request(p, op, k, v)
  PROVE  CallTypeOK'
<1>1. [op |-> op, key |-> k, value |-> v] \in [op : {"get", "put"}, key : Keys, value : Values]
  OBVIOUS
<1> QED  BY <1>1 DEF Request, CallTypeOK

LEMMA FinishHasType ==
  ASSUME CallTypeOK, ReplyTypeOK, NEW p \in Procs, NEW ending \in {"returned", "thrown"}, Finish(p, ending)
  PROVE  CallTypeOK' /\ ReplyTypeOK'
<1>1. NoResponse \in [err : {"E_SUCCESS", "E_NOT_FOUND", "E_TIMEOUT", "dht"}, value : Values]
  BY ErasedIsAValue DEF NoResponse, Response
<1> QED  BY <1>1 DEF Finish, CallTypeOK, ReplyTypeOK

LEMMA NextTypeOK == TypeOK /\ [Next]_vars => TypeOK'
<1> SUFFICES ASSUME TypeOK, [Next]_vars
             PROVE  TypeOK'
  OBVIOUS
<1> USE KeyFacts, ErasedIsAValue DEF TypeOK, Procs, netVars, joinVars
<1>1. ASSUME NEW c \in Callers, NEW k \in Keys \ {Swarm}, Get(c, k) PROVE TypeOK'
  <2>1. CallTypeOK'
    BY <1>1, RequestHasType DEF Get
  <2>2. CountTypeOK'
    BY <1>1 DEF Get, Count, CountTypeOK
  <2> QED  BY <1>1, <2>1, <2>2 DEF Get, ReplyTypeOK, TableTypeOK
<1>2. ASSUME NEW c \in Callers, NEW k \in Keys \ {Swarm}, Put(c, k) PROVE TypeOK'
  <2>1. PICK v \in Values : Request(c, "put", k, v)
    <3>1. calls \in Nat
      BY DEF CountTypeOK
    <3> QED  BY <1>2, <3>1, ValuesHaveType DEF Put
  <2>2. CallTypeOK'
    BY <2>1, RequestHasType
  <2>3. CountTypeOK'
    BY <1>2 DEF Put, Count, CountTypeOK
  <2> QED  BY <1>2, <2>2, <2>3 DEF Put, ReplyTypeOK, TableTypeOK
<1>3. ASSUME NEW c \in Callers, Answer(c) PROVE TypeOK'
  <2>1. CallTypeOK' /\ ReplyTypeOK'
    BY <1>3, FinishHasType DEF Answer
  <2> QED  BY <1>3, <2>1 DEF Answer, TableTypeOK, CountTypeOK
<1>4. ASSUME NEW s \in Servers, Join(s) PROVE TypeOK'
  <2>1. CallTypeOK'
    BY <1>4, RequestHasType DEF Join
  <2>2. (joined \cup raced)' \subseteq Servers
    BY <1>4 DEF Join, Joining, CountTypeOK
  <2>3. calls' \in 0..MaxCalls
    BY <1>4 DEF Join, Count, CountTypeOK
  <2> QED  BY <1>4, <2>1, <2>2, <2>3 DEF Join, ReplyTypeOK, TableTypeOK, CountTypeOK
<1>5. ASSUME NEW s \in Servers, JoinRead(s) PROVE TypeOK'
  <2>1. ASSUME NEW list \in Seq(Servers), AddHost(s, list)
        PROVE  CallTypeOK' /\ ReplyTypeOK'
    <3>1. Append(list, s) \in Seq(Servers)
      OBVIOUS
    <3>2. Value(Swarm, Append(list, s)) \in Values
      BY <3>1, ValuesHaveType
    <3>3. CallTypeOK'
      BY <2>1, <3>2, RequestHasType DEF AddHost
    <3>4. NoResponse \in [err : {"E_SUCCESS", "E_NOT_FOUND", "E_TIMEOUT", "dht"}, value : Values]
      BY DEF NoResponse, Response
    <3> QED  BY <2>1, <3>3, <3>4 DEF AddHost, ReplyTypeOK
  <2>2. ASSUME Outcome(s) = "returned" /\ AddHost(s, reply[s].value.data)
        PROVE  CallTypeOK' /\ ReplyTypeOK'
    <3>1. reply[s].value.data \in Seq(Servers)
      <4>1. call[s].key = Swarm /\ call[s].op = "get" /\ reply[s].value \in Values
        BY <1>5 DEF JoinRead, CallTypeOK, ReplyTypeOK
      <4>2. Readable(Swarm, reply[s].value)
        BY <2>2, <4>1 DEF Outcome
      <4> QED  BY <4>1, <4>2, ReadableList
    <3> QED  BY <2>1, <2>2, <3>1
  <2>3. ASSUME AddHost(s, <<>>)
        PROVE  CallTypeOK' /\ ReplyTypeOK'
    <3>1. <<>> \in Seq(Servers)
      OBVIOUS
    <3> QED  BY <2>1, <2>3, <3>1
  <2>4. ASSUME Finish(s, "thrown")
        PROVE  CallTypeOK' /\ ReplyTypeOK'
    BY <2>4, FinishHasType
  <2>5. CallTypeOK' /\ ReplyTypeOK'
    BY <1>5, <2>2, <2>3, <2>4 DEF JoinRead
  <2>6. raced' \subseteq Servers
    BY <1>5 DEF JoinRead, CountTypeOK
  <2> QED  BY <1>5, <2>5, <2>6 DEF JoinRead, TableTypeOK, CountTypeOK
<1>6. ASSUME NEW s \in Servers, JoinStored(s) PROVE TypeOK'
  <2>1. CallTypeOK' /\ ReplyTypeOK'
    BY <1>6, FinishHasType DEF JoinStored
  <2> QED  BY <1>6, <2>1 DEF JoinStored, TableTypeOK, CountTypeOK
<1>7. ASSUME NEW p \in Procs, Execute(p) PROVE TypeOK'
  <2> DEFINE Replies == [err : {"E_SUCCESS", "E_NOT_FOUND", "E_TIMEOUT", "dht"}, value : Values]
  <2>1. CallTypeOK'
    BY <1>7 DEF Execute, Lookup, Store, Refuse, CallTypeOK
  <2>2. call[p].key \in Keys /\ call[p].value \in Values
    BY DEF CallTypeOK
  <2>3. \A e \in {"E_SUCCESS", "E_NOT_FOUND", "E_TIMEOUT", "dht"}, v \in Values : Response(e, v) \in Replies
    BY DEF Response
  <2>4. CASE Lookup(p)
    <3>1. table[Hash[call[p].key]] \in Values \cup {None}
      BY <2>2 DEF TableTypeOK
    <3>2. \E r \in Replies : reply' = [reply EXCEPT ![p] = r]
      <4> HIDE DEF Replies
      <4> QED  BY <2>3, <2>4, <3>1 DEF Lookup, Failures
    <3> QED  BY <1>7, <2>1, <2>4, <3>2 DEF Execute, Lookup, ReplyTypeOK, TableTypeOK, CountTypeOK
  <2>5. CASE Store(p) \/ Refuse(p)
    <3>1. \E r \in Replies : reply' = [reply EXCEPT ![p] = r]
      <4> HIDE DEF Replies
      <4> QED  BY <2>3, <2>5 DEF Store, Refuse, Failures
    <3>2. table' \in [Hashes -> Values \cup {None}]
      BY <2>2, <2>5, StoredHasType DEF Store, Refuse, TableTypeOK
    <3> QED  BY <1>7, <2>1, <3>1, <3>2 DEF Execute, ReplyTypeOK, TableTypeOK, CountTypeOK
  <2> QED  BY <1>7, <2>4, <2>5 DEF Execute
<1>8. ASSUME NEW p \in Procs, Retry(p) PROVE TypeOK'
  <2>1. CallTypeOK' /\ ReplyTypeOK'
    BY <1>8 DEF Retry, CallTypeOK, ReplyTypeOK, NoResponse, Response
  <2>2. Attempt(p) \in [by : Procs, key : Keys, value : Values]
    BY DEF Attempt, CallTypeOK
  <2>3. late' \subseteq [by : Procs, key : Keys, value : Values]
    BY <1>8, <2>2 DEF Retry, TableTypeOK
  <2>4. tries' \in 0..MaxTries
    BY <1>8 DEF Retry, CountTypeOK
  <2> QED  BY <1>8, <2>1, <2>3, <2>4 DEF Retry, TableTypeOK, CountTypeOK
<1>9. ASSUME NEW q \in late, ExecuteLate(q) PROVE TypeOK'
  <2>1. Hash[q.key] \in Hashes /\ Stored(q.value) \in Values \cup {None}
    BY StoredHasType DEF TableTypeOK
  <2>2. TableTypeOK'
    BY <1>9, <2>1 DEF ExecuteLate, TableTypeOK
  <2> QED  BY <1>9, <2>2 DEF ExecuteLate, CallTypeOK, ReplyTypeOK, CountTypeOK
<1>10. CASE UNCHANGED vars
  BY <1>10 DEF vars, CallTypeOK, ReplyTypeOK, TableTypeOK, CountTypeOK
<1> QED
  BY <1>1, <1>2, <1>3, <1>4, <1>5, <1>6, <1>7, <1>8, <1>9, <1>10 DEF Next

(***************************************************************************)
(* The state always has its type: an entry, an answer and a late request   *)
(* hold values some put can have made, and a list is a list of servers.    *)
(***************************************************************************)
THEOREM TypeCorrect == Spec => []TypeOK
BY InitTypeOK, NextTypeOK, PTL DEF Spec

-----------------------------------------------------------------------------
LEMMA InitSuccess == Init => SuccessMeansApplied
BY DEF Init, SuccessMeansApplied

LEMMA NextSuccess == TypeOK /\ SuccessMeansApplied /\ [Next]_vars => SuccessMeansApplied'
<1> SUFFICES ASSUME TypeOK, SuccessMeansApplied, [Next]_vars
             PROVE  SuccessMeansApplied'
  OBVIOUS
<1> USE DEF TypeOK, CallTypeOK, ReplyTypeOK, SuccessMeansApplied, Procs
<1>1. ASSUME NEW c \in Callers, NEW k \in Keys \ {Swarm}, Get(c, k) PROVE SuccessMeansApplied'
  BY <1>1 DEF Get, Resting, Count, Request
<1>2. ASSUME NEW c \in Callers, NEW k \in Keys \ {Swarm}, Put(c, k) PROVE SuccessMeansApplied'
  BY <1>2 DEF Put, Resting, Count, Request
<1>3. ASSUME NEW c \in Callers, Answer(c) PROVE SuccessMeansApplied'
  BY <1>3 DEF Answer, Finish
<1>4. ASSUME NEW s \in Servers, Join(s) PROVE SuccessMeansApplied'
  BY <1>4 DEF Join, Resting, Count, Request
<1>5. ASSUME NEW s \in Servers, JoinRead(s) PROVE SuccessMeansApplied'
  BY <1>5 DEF JoinRead, AddHost, Finish, Request
<1>6. ASSUME NEW s \in Servers, JoinStored(s) PROVE SuccessMeansApplied'
  BY <1>6 DEF JoinStored, Finish
<1>7. ASSUME NEW p \in Procs, Execute(p) PROVE SuccessMeansApplied'
  BY <1>7 DEF Execute, Lookup, Store, Refuse, Failures, Response
<1>8. ASSUME NEW p \in Procs, Retry(p) PROVE SuccessMeansApplied'
  BY <1>8 DEF Retry, Attempt, NoResponse, Response
<1>9. ASSUME NEW q \in late, ExecuteLate(q) PROVE SuccessMeansApplied'
  BY <1>9 DEF ExecuteLate
<1>10. CASE UNCHANGED vars
  BY <1>10 DEF vars
<1> QED
  BY <1>1, <1>2, <1>3, <1>4, <1>5, <1>6, <1>7, <1>8, <1>9, <1>10 DEF Next

LEMMA Invariance == Spec => [](TypeOK /\ SuccessMeansApplied)
BY InitTypeOK, InitSuccess, NextTypeOK, NextSuccess, PTL DEF Spec

-----------------------------------------------------------------------------
(***************************************************************************)
(* The state an AtLeastOnce has.                                           *)
(***************************************************************************)
Entry   == [k \in Alone |-> table[Hash[k]]]
Open    == [p \in Procs |-> OpenPut(p)]
Applied == {p \in applied : OpenPut(p) # None}
Left    == {[key |-> q.key, value |-> Stored(q.value)] : q \in {r \in late : r.key \in Alone}}
Result  == [p \in Procs |->
  IF call[p].op = "put" /\ call[p].key \in Alone /\ pc[p] \in {"returned", "thrown"}
  THEN pc[p] ELSE "none"]

ServiceNext == [Service!Next]_<<Entry, Open, Applied, Left, Result>>

\* An entry is written by puts of its own key.
LEMMA EntryWritten ==
  ASSUME TypeOK, NEW k \in Keys, NEW v, table' = [table EXCEPT ![Hash[k]] = v]
  PROVE  Entry' = IF k \in Alone THEN [Entry EXCEPT ![k] = v] ELSE Entry
<1>1. Hash[k] \in Hashes /\ DOMAIN table = Hashes
  BY KeyFacts DEF TypeOK, TableTypeOK
<1>2. \A l \in Alone : l \in Keys /\ Hash[l] \in Hashes /\ (Hash[l] = Hash[k] => l = k)
  BY KeyFacts DEF Alone
<1> QED  BY <1>1, <1>2 DEF Entry

LEMMA OpenPutIsPut ==
  ASSUME TypeOK, NEW p \in Procs, pc[p] \in {"sent", "executed"}, call[p].op = "put", call[p].key \in Alone
  PROVE  OpenPut(p) = [key |-> call[p].key, value |-> Stored(call[p].value)] /\ OpenPut(p) # None
<1>1. call[p].key \in Keys /\ Stored(call[p].value) \in Values \cup {None}
  BY StoredHasType DEF TypeOK, CallTypeOK
<1>2. [key |-> call[p].key, value |-> Stored(call[p].value)] \in [key : Keys, value : Values \cup {None}]
  BY <1>1
<1> QED  BY <1>2, NoneAssumption DEF OpenPut

LEMMA RequestStep ==
  ASSUME TypeOK, NEW p \in Procs, NEW op \in {"get", "put"}, NEW k \in Keys, NEW v \in Values,
         Request(p, op, k, v), UNCHANGED netVars, OpenPut(p) = None
  PROVE  ServiceNext
<1> DEFINE e == IF op = "put" /\ k \in Alone THEN [key |-> k, value |-> Stored(v)] ELSE None
<1>1. Open' = [Open EXCEPT ![p] = e]
  BY DEF Open, OpenPut, Request, TypeOK, CallTypeOK
<1>2. Result' = [Result EXCEPT ![p] = "none"]
  BY DEF Result, Request, TypeOK, CallTypeOK
<1>3. Applied' = Applied
  BY DEF Applied, OpenPut, Request, TypeOK, CallTypeOK
<1>4. Entry' = Entry /\ Left' = Left
  BY DEF Entry, Left, netVars
<1>5. CASE op = "put" /\ k \in Alone
  <2>1. e \in [key : Alone, value : Values \cup {None}]
    BY <1>5, StoredHasType
  <2>2. Open[p] = None /\ Open'[p] = e
    BY <1>1 DEF Open
  <2>3. Service!Begin(p)
    <3> HIDE DEF e
    <3> QED  BY <1>1, <1>2, <1>3, <1>4, <2>1, <2>2 DEF Service!Begin, Service!Put, Entry, Open, Applied, Left, Result
  <2> QED  BY <2>3 DEF ServiceNext, Service!Next
<1>6. CASE ~(op = "put" /\ k \in Alone)
  <2>1. Open' = Open /\ Open[p] = None
    BY <1>1, <1>6 DEF Open
  <2>2. Service!Rest(p)
    BY <1>2, <1>3, <1>4, <2>1 DEF Service!Rest, Entry, Open, Applied, Left, Result
  <2> QED  BY <2>2 DEF ServiceNext, Service!Next
<1> QED  BY <1>5, <1>6

LEMMA FinishStep ==
  ASSUME TypeOK, NEW p \in Procs, NEW ending \in {"returned", "thrown"}, pc[p] = "executed",
         Finish(p, ending), UNCHANGED netVars,
         ending = "returned" /\ call[p].op = "put" => p \in applied
  PROVE  ServiceNext
<1>1. Open' = [Open EXCEPT ![p] = None]
  BY DEF Open, OpenPut, Finish, TypeOK, CallTypeOK
<1>2. Result' = [Result EXCEPT ![p] =
        IF call[p].op = "put" /\ call[p].key \in Alone THEN ending ELSE "none"] /\ Result[p] = "none"
  BY DEF Result, Finish, TypeOK, CallTypeOK
<1>3. Applied' = Applied \ {p}
  BY DEF Applied, OpenPut, Finish, TypeOK, CallTypeOK
<1>4. Entry' = Entry /\ Left' = Left
  BY DEF Entry, Left, netVars
<1>5. CASE call[p].op = "put" /\ call[p].key \in Alone
  <2>1. Open[p] # None /\ (p \in applied => p \in Applied)
    BY <1>5, OpenPutIsPut DEF Open, Applied
  <2>2. Result' = [Result EXCEPT ![p] = ending]
    BY <1>2, <1>5
  <2>3. Service!End(p)
    BY <1>1, <1>3, <1>4, <1>5, <2>1, <2>2 DEF Service!End, Entry, Open, Applied, Left, Result
  <2> QED  BY <2>3 DEF ServiceNext, Service!Next
<1>6. CASE ~(call[p].op = "put" /\ call[p].key \in Alone)
  <2>1. OpenPut(p) = None
    BY <1>6 DEF OpenPut
  <2>2. Open' = Open /\ Applied' = Applied
    BY <1>1, <1>3, <2>1 DEF Open, Applied
  <2>3. Result' = Result
    BY <1>2, <1>6 DEF Result
  <2> QED  BY <1>4, <2>2, <2>3 DEF ServiceNext
<1> QED  BY <1>5, <1>6

LEMMA ExecuteStep ==
  ASSUME TypeOK, NEW p \in Procs, Execute(p)
  PROVE  ServiceNext
<1>1. Open' = Open /\ Result' = Result /\ Left' = Left
  BY DEF Open, OpenPut, Result, Left, Execute, TypeOK, CallTypeOK
<1>2. call[p].key \in Keys /\ pc[p] = "sent"
  BY DEF Execute, TypeOK, CallTypeOK
<1>3. CASE Lookup(p) \/ Refuse(p)
  <2>1. Entry' = Entry /\ Applied' = Applied
    BY <1>1, <1>3 DEF Lookup, Refuse, Entry, Applied, Open, OpenPut, Execute, TypeOK, CallTypeOK
  <2> QED  BY <1>1, <2>1 DEF ServiceNext
<1>4. CASE Store(p) /\ call[p].key \notin Alone
  <2>1. Entry' = Entry
    BY <1>2, <1>4, EntryWritten DEF Store
  <2>2. Applied' = Applied
    BY <1>4 DEF Store, Applied, OpenPut, Execute, TypeOK, CallTypeOK
  <2> QED  BY <1>1, <2>1, <2>2 DEF ServiceNext
<1>5. CASE Store(p) /\ call[p].key \in Alone
  <2>1. Entry' = [Entry EXCEPT ![call[p].key] = Stored(call[p].value)]
    BY <1>2, <1>5, EntryWritten DEF Store
  <2>2. /\ Open[p] = [key |-> call[p].key, value |-> Stored(call[p].value)]
        /\ Open[p] # None
    BY <1>2, <1>5, OpenPutIsPut DEF Store, Open
  <2>3. \A r \in Procs : OpenPut(r)' = OpenPut(r)
    BY DEF OpenPut, Execute, TypeOK, CallTypeOK
  <2>4. Applied' = Applied \cup {p}
    <3>1. OpenPut(p) # None
      BY <2>2 DEF Open
    <3>2. applied' = applied \cup {p} /\ applied \subseteq Procs
      BY <1>5 DEF Store, TypeOK, CallTypeOK
    <3> QED  BY <2>3, <3>1, <3>2 DEF Applied
  <2>5. Service!Apply(p)
    <3>1. Open[p].key = call[p].key /\ Open[p].value = Stored(call[p].value)
      BY <2>2
    <3>2. Entry' = [Entry EXCEPT ![Open[p].key] = Open[p].value]
      BY <2>1, <3>1
    <3> QED  BY <1>1, <2>2, <2>4, <3>2 DEF Service!Apply, Entry, Open, Applied, Left, Result
  <2> QED  BY <2>5 DEF ServiceNext, Service!Next
<1> QED  BY <1>3, <1>4, <1>5 DEF Execute

LEMMA RetryStep ==
  ASSUME TypeOK, NEW p \in Procs, Retry(p)
  PROVE  ServiceNext
<1>1. Open' = Open /\ Result' = Result /\ Entry' = Entry
  BY DEF Open, OpenPut, Result, Entry, Retry, TypeOK, CallTypeOK
<1>2. Applied' = Applied
  BY DEF Applied, OpenPut, Retry, TypeOK, CallTypeOK
<1>3. CASE late' = late
  <2>1. Left' = Left
    BY <1>3 DEF Left
  <2> QED  BY <1>1, <1>2, <2>1 DEF ServiceNext
<1>4. CASE late' = late \cup {Attempt(p)} /\ pc[p] = "sent" /\ call[p].op = "put"
  <2>1. Attempt(p).key = call[p].key /\ Attempt(p).value = call[p].value
    BY DEF Attempt
  <2>2. CASE call[p].key \in Alone
    <3>1. Left' = Left \cup {[key |-> call[p].key, value |-> Stored(call[p].value)]}
      BY <1>4, <2>1, <2>2 DEF Left
    <3>2. Open[p] # None /\ Left' = Left \cup {Open[p]}
      BY <1>4, <2>2, <3>1, OpenPutIsPut DEF Open
    <3>3. Service!GiveUpTry(p)
      BY <1>1, <1>2, <3>2 DEF Service!GiveUpTry, Entry, Open, Applied, Left, Result
    <3> QED  BY <3>3 DEF ServiceNext, Service!Next
  <2>3. CASE call[p].key \notin Alone
    <3>1. Left' = Left
      BY <1>4, <2>1, <2>3 DEF Left
    <3> QED  BY <1>1, <1>2, <3>1 DEF ServiceNext
  <2> QED  BY <2>2, <2>3
<1> QED  BY <1>3, <1>4 DEF Retry

LEMMA LateStep ==
  ASSUME TypeOK, NEW q \in late, ExecuteLate(q)
  PROVE  ServiceNext
<1>1. Open' = Open /\ Result' = Result /\ Applied' = Applied
  BY DEF Open, OpenPut, Result, Applied, ExecuteLate
<1>2. q.key \in Keys /\ late' = late \ {q}
  BY DEF TypeOK, TableTypeOK, ExecuteLate
<1>3. CASE q.key \in Alone
  <2> DEFINE e == [key |-> q.key, value |-> Stored(q.value)]
  <2>1. e \in Left
    BY <1>3 DEF Left
  <2>2. Left' \in {Left, Left \ {e}}
    <3>1. Left' \subseteq Left /\ Left \ {e} \subseteq Left'
      BY <1>2 DEF Left
    <3> HIDE DEF e
    <3> QED  BY <3>1
  <2>3. Entry' = [Entry EXCEPT ![e.key] = e.value]
    BY <1>2, <1>3, EntryWritten DEF ExecuteLate
  <2>4. Service!ApplyLate(e)
    <3> HIDE DEF e
    <3> QED  BY <1>1, <2>1, <2>2, <2>3 DEF Service!ApplyLate, Entry, Open, Applied, Left, Result
  <2>5. \E x \in Left : Service!ApplyLate(x)
    <3> HIDE DEF e
    <3> QED  BY <2>1, <2>4
  <2> QED  BY <2>5 DEF ServiceNext, Service!Next, Left
<1>4. CASE q.key \notin Alone
  <2>1. Entry' = Entry
    BY <1>2, <1>4, EntryWritten DEF ExecuteLate
  <2>2. Left' = Left
    BY <1>2, <1>4 DEF Left
  <2> QED  BY <1>1, <2>1, <2>2 DEF ServiceNext
<1> QED  BY <1>3, <1>4

LEMMA InitImplements == Init => Service!Init
BY DEF Init, Service!Init, OpenPut, Alone, Hashes

LEMMA NextImplements == TypeOK /\ SuccessMeansApplied /\ [Next]_vars => ServiceNext
<1> SUFFICES ASSUME TypeOK, SuccessMeansApplied, [Next]_vars
             PROVE  ServiceNext
  OBVIOUS
<1> USE KeyFacts, ErasedIsAValue, ValuesHaveType
<1>1. ASSUME NEW c \in Callers, NEW k \in Keys \ {Swarm}, Get(c, k) PROVE ServiceNext
  <2>1. OpenPut(c) = None /\ c \in Procs
    BY <1>1 DEF Get, Resting, OpenPut, Procs
  <2> QED  BY <1>1, <2>1, RequestStep DEF Get
<1>2. ASSUME NEW c \in Callers, NEW k \in Keys \ {Swarm}, Put(c, k) PROVE ServiceNext
  <2>1. OpenPut(c) = None /\ c \in Procs /\ calls \in Nat
    BY <1>2 DEF Put, Resting, OpenPut, Procs, TypeOK, CountTypeOK
  <2> QED  BY <1>2, <2>1, RequestStep DEF Put
<1>3. ASSUME NEW c \in Callers, Answer(c) PROVE ServiceNext
  <2>1. c \in Procs /\ (Outcome(c) = "returned" => reply[c].err = "E_SUCCESS")
    BY DEF Procs, Outcome
  <2> QED  BY <1>3, <2>1, FinishStep DEF Answer, SuccessMeansApplied
<1>4. ASSUME NEW s \in Servers, Join(s) PROVE ServiceNext
  <2>1. OpenPut(s) = None /\ s \in Procs
    BY <1>4 DEF Join, Resting, OpenPut, Procs
  <2> QED  BY <1>4, <2>1, RequestStep DEF Join
<1>5. ASSUME NEW s \in Servers, JoinRead(s) PROVE ServiceNext
  <2>1. OpenPut(s) = None /\ s \in Procs /\ UNCHANGED netVars
    BY <1>5 DEF JoinRead, OpenPut, Procs
  <2>2. ASSUME NEW list \in Seq(Servers), AddHost(s, list)
        PROVE  ServiceNext
    <3>1. Append(list, s) \in Seq(Servers)
      OBVIOUS
    <3>2. Value(Swarm, Append(list, s)) \in Values
      BY <3>1, ValuesHaveType
    <3> QED  BY <2>1, <2>2, <3>2, RequestStep DEF AddHost
  <2>3. CASE Outcome(s) = "returned" /\ AddHost(s, reply[s].value.data)
    <3>1. call[s].key = Swarm /\ call[s].op = "get" /\ reply[s].value \in Values
      BY <1>5, <2>1 DEF JoinRead, TypeOK, CallTypeOK, ReplyTypeOK
    <3>2. Readable(Swarm, reply[s].value)
      BY <2>3, <3>1 DEF Outcome
    <3>3. reply[s].value.data \in Seq(Servers)
      BY <3>1, <3>2, ReadableList
    <3> QED  BY <2>2, <2>3, <3>3
  <2>4. CASE AddHost(s, <<>>)
    <3>1. <<>> \in Seq(Servers)
      OBVIOUS
    <3> QED  BY <2>2, <2>4, <3>1
  <2>5. CASE Finish(s, "thrown")
    BY <1>5, <2>1, <2>5, FinishStep DEF JoinRead
  <2> QED  BY <1>5, <2>3, <2>4, <2>5 DEF JoinRead
<1>6. ASSUME NEW s \in Servers, JoinStored(s) PROVE ServiceNext
  <2>1. s \in Procs /\ (Outcome(s) = "returned" => reply[s].err = "E_SUCCESS")
    BY DEF Procs, Outcome
  <2> QED  BY <1>6, <2>1, FinishStep DEF JoinStored, SuccessMeansApplied
<1>7. ASSUME NEW p \in Procs, Execute(p) PROVE ServiceNext
  BY <1>7, ExecuteStep
<1>8. ASSUME NEW p \in Procs, Retry(p) PROVE ServiceNext
  BY <1>8, RetryStep
<1>9. ASSUME NEW q \in late, ExecuteLate(q) PROVE ServiceNext
  BY <1>9, LateStep
<1>10. CASE UNCHANGED vars
  BY <1>10 DEF vars, netVars, ServiceNext, Entry, Open, Applied, Left, Result, OpenPut
<1> QED
  BY <1>1, <1>2, <1>3, <1>4, <1>5, <1>6, <1>7, <1>8, <1>9, <1>10 DEF Next

(***************************************************************************)
(* The table behind get and put keeps the promise of AtLeastOnce for every *)
(* key that shares its hash with no other, whatever is lost, repeated or   *)
(* late: it holds what a put of that key stored, and a put that returned   *)
(* was executed.                                                           *)
(***************************************************************************)
THEOREM ImplementsAtLeastOnce == Spec => KeepsEntries
<1>1. ServiceNext => [Service!Next]_<<[k \in Alone |-> table[Hash[k]]], [p \in Procs |-> OpenPut(p)],
        {p \in applied : OpenPut(p) # None},
        {[key |-> q.key, value |-> Stored(q.value)] : q \in {r \in late : r.key \in Alone}},
        [p \in Procs |->
          IF call[p].op = "put" /\ call[p].key \in Alone /\ pc[p] \in {"returned", "thrown"}
          THEN pc[p] ELSE "none"]>>
  BY DEF ServiceNext, Entry, Open, Applied, Left, Result
<1> QED  BY <1>1, InitImplements, NextImplements, Invariance, PTL DEF Spec, KeepsEntries, Service!Spec

-----------------------------------------------------------------------------
(***************************************************************************)
(* The list of the swarm.                                                  *)
(***************************************************************************)
LEMMA AppendLists ==
  ASSUME NEW list \in Seq(Servers), NEW s \in Servers
  PROVE  ToSet(Append(list, s)) = ToSet(list) \cup {s}
<1> DEFINE longer == Append(list, s)
<1>1. /\ DOMAIN list = 1..Len(list) /\ Len(list) \in Nat
      /\ DOMAIN longer = 1..(Len(list) + 1)
      /\ \A i \in 1..Len(list) : longer[i] = list[i]
      /\ longer[Len(list) + 1] = s
  OBVIOUS
<1>2. DOMAIN longer = DOMAIN list \cup {Len(list) + 1}
  BY <1>1
<1> HIDE DEF longer
<1>3. ToSet(longer) = ToSet(list) \cup {s}
  BY <1>1, <1>2 DEF ToSet
<1> QED  BY <1>3 DEF longer

LEMMA AppendedLists ==
  ASSUME NEW list \in Seq(Servers), NEW s \in Servers
  PROVE  /\ Value(Swarm, Append(list, s)) # Erased
         /\ \A u : u = s \/ u \in ToSet(list) => Lists(Value(Swarm, Append(list, s)), u)
<1>1. Value(Swarm, Append(list, s)).data = Append(list, s)
  BY DEF Value
<1>2. Value(Swarm, Append(list, s)) # Erased
  BY KeyFacts DEF Value, Erased
<1> QED  BY <1>1, <1>2, AppendLists DEF Lists

\* Nobody else writes the entry of a swarm that has its hash to itself.
LEMMA SwarmWritten ==
  ASSUME TypeOK, Swarm \in Alone, NEW k \in Keys, NEW v, table' = [table EXCEPT ![Hash[k]] = v]
  PROVE  table'[Hash[Swarm]] = IF k = Swarm THEN v ELSE table[Hash[Swarm]]
BY KeyFacts DEF Alone, TypeOK, TableTypeOK

LEMMA SwarmKept ==
  ASSUME TypeOK, Swarm \in Alone, NEW k \in Keys, k # Swarm, NEW v, table' = [table EXCEPT ![Hash[k]] = v]
  PROVE  table'[Hash[Swarm]] = table[Hash[Swarm]]
BY SwarmWritten

LEMMA InitJoinInv == Init => JoinInv
BY KeyFacts DEF Init, JoinInv, SwarmCalls, JoinsAlone, PutsList, ReadsList, JoinedAreListed, Joining, LateJoins, Procs

LEMMA NextSwarmCalls == TypeOK /\ SwarmCalls /\ [Next]_vars => SwarmCalls'
<1> SUFFICES ASSUME TypeOK, SwarmCalls, [Next]_vars
             PROVE  SwarmCalls'
  OBVIOUS
<1> USE KeyFacts DEF TypeOK, CallTypeOK, SwarmCalls, Procs
<1>1. ASSUME NEW c \in Callers, NEW k \in Keys \ {Swarm}, Get(c, k) PROVE SwarmCalls'
  BY <1>1 DEF Get, Resting, Count, Request
<1>2. ASSUME NEW c \in Callers, NEW k \in Keys \ {Swarm}, Put(c, k) PROVE SwarmCalls'
  BY <1>2 DEF Put, Resting, Count, Request
<1>3. ASSUME NEW c \in Callers, Answer(c) PROVE SwarmCalls'
  BY <1>3 DEF Answer, Finish
<1>4. ASSUME NEW s \in Servers, Join(s) PROVE SwarmCalls'
  BY <1>4 DEF Join, Resting, Count, Request
<1>5. ASSUME NEW s \in Servers, JoinRead(s) PROVE SwarmCalls'
  BY <1>5 DEF JoinRead, AddHost, Finish, Request
<1>6. ASSUME NEW s \in Servers, JoinStored(s) PROVE SwarmCalls'
  BY <1>6 DEF JoinStored, Finish
<1>7. ASSUME NEW p \in Procs, Execute(p) PROVE SwarmCalls'
  BY <1>7 DEF Execute, Lookup, Store, Refuse, Failures, Response
<1>8. ASSUME NEW p \in Procs, Retry(p) PROVE SwarmCalls'
  BY <1>8 DEF Retry, Attempt, NoResponse, Response
<1>9. ASSUME NEW q \in late, ExecuteLate(q) PROVE SwarmCalls'
  BY <1>9 DEF ExecuteLate
<1>10. CASE UNCHANGED vars
  BY <1>10 DEF vars
<1> QED
  BY <1>1, <1>2, <1>3, <1>4, <1>5, <1>6, <1>7, <1>8, <1>9, <1>10 DEF Next

SwarmInv == JoinsAlone /\ PutsList /\ ReadsList /\ JoinedAreListed

LEMMA NextSwarmInv ==
  TypeOK /\ TypeOK' /\ SuccessMeansApplied /\ SwarmCalls /\ Swarm \in Alone /\ SwarmInv /\ [Next]_vars => SwarmInv'
<1> SUFFICES ASSUME TypeOK, TypeOK', SuccessMeansApplied, SwarmCalls, Swarm \in Alone, SwarmInv, [Next]_vars
             PROVE  SwarmInv'
  OBVIOUS
<1> USE KeyFacts DEF CallTypeOK, TypeOK, SwarmCalls, Procs, netVars, joinVars,
          SwarmInv, JoinsAlone, PutsList, ReadsList, JoinedAreListed, Joining, LateJoins
<1>1. ASSUME NEW c \in Callers, NEW k \in Keys \ {Swarm}, Get(c, k) PROVE SwarmInv'
  BY <1>1 DEF Get, Resting, Count, Request
<1>2. ASSUME NEW c \in Callers, NEW k \in Keys \ {Swarm}, Put(c, k) PROVE SwarmInv'
  BY <1>2 DEF Put, Resting, Count, Request
<1>3. ASSUME NEW c \in Callers, Answer(c) PROVE SwarmInv'
  BY <1>3 DEF Answer, Finish
<1>4. ASSUME NEW s \in Servers, Join(s) PROVE SwarmInv'
  BY <1>4 DEF Join, Resting, Count, Request
<1>5. ASSUME NEW s \in Servers, JoinRead(s) PROVE SwarmInv'
  <2>1. /\ s \in Joining /\ s \notin joined /\ call[s].op = "get" /\ call[s].key = Swarm /\ pc[s] = "executed"
        /\ reply[s].value \in Values
        /\ UNCHANGED <<table, late, joined>>
    BY <1>5 DEF JoinRead, ReplyTypeOK
  <2>2. raced \subseteq raced'
    BY <1>5 DEF JoinRead
  <2>3. ASSUME NEW list \in Seq(Servers), AddHost(s, list), joined \ raced' \subseteq ToSet(list)
        PROVE  SwarmInv'
    <3> DEFINE v == Value(Swarm, Append(list, s))
    <3>1. Lists(v, s) /\ \A u \in joined \ raced' : Lists(v, u)
      BY <2>3, AppendedLists
    <3>2. call'[s].op = "put" /\ call'[s].value = v /\ pc'[s] = "sent"
      BY <2>3 DEF AddHost, Request
    <3>3. /\ \A r \in Procs \ {s} : call'[r] = call[r] /\ pc'[r] = pc[r] /\ reply'[r] = reply[r]
          /\ applied' = applied \ {s}
      BY <2>3 DEF AddHost, Request, ReplyTypeOK
    <3>4. Joining' = Joining /\ LateJoins' = LateJoins
      BY <2>1, <3>2, <3>3
    <3>5. JoinsAlone'
      BY <2>1, <2>2, <3>2, <3>3, <3>4
    <3>6. PutsList'
      <4> HIDE DEF v
      <4> QED  BY <2>1, <2>2, <3>1, <3>2, <3>3, <3>4
    <3>7. ReadsList' /\ JoinedAreListed'
      BY <2>1, <2>2, <3>2, <3>3, <3>4
    <3> QED  BY <3>5, <3>6, <3>7
  <2>4. CASE Outcome(s) = "returned" /\ AddHost(s, reply[s].value.data)
    <3>1. Readable(Swarm, reply[s].value) /\ reply[s].err = "E_SUCCESS"
      BY <2>1, <2>4 DEF Outcome
    <3>2. reply[s].value.data \in Seq(Servers)
      BY <2>1, <3>1, ReadableList
    <3>3. joined \ raced' \subseteq ToSet(reply[s].value.data)
      BY <2>1, <2>2, <3>1
    <3> QED  BY <2>3, <2>4, <3>2, <3>3
  <2>5. CASE Outcome(s) = "key_missing_error" /\ AddHost(s, <<>>)
        /\ raced' = IF reply[s].err = "E_NOT_FOUND" THEN raced ELSE raced \cup (Servers \ {s})
    <3>1. <<>> \in Seq(Servers)
      OBVIOUS
    <3>2. joined \subseteq Servers
      BY DEF CountTypeOK
    <3>3. joined \ raced' = {}
      BY <2>1, <2>5, <3>2
    <3> QED  BY <2>3, <2>5, <3>1, <3>3
  <2>6. CASE Finish(s, "thrown")
    <3>1. Joining' = Joining \ {s} /\ LateJoins' = LateJoins
      BY <2>1, <2>6 DEF Finish
    <3>2. \A r \in Procs \ {s} : call'[r] = call[r] /\ pc'[r] = pc[r] /\ reply'[r] = reply[r]
      BY <2>6 DEF Finish, ReplyTypeOK
    <3>3. applied' = applied \ {s}
      BY <2>6 DEF Finish
    <3>4. JoinsAlone' /\ PutsList' /\ ReadsList' /\ JoinedAreListed'
      BY <2>1, <2>2, <3>1, <3>2, <3>3
    <3> QED  BY <3>4
  <2> QED  BY <1>5, <2>4, <2>5, <2>6 DEF JoinRead
<1>6. ASSUME NEW s \in Servers, JoinStored(s) PROVE SwarmInv'
  <2>1. /\ s \in Joining /\ call[s].op = "put" /\ pc[s] = "executed"
        /\ Joining' = Joining \ {s} /\ LateJoins' = LateJoins
        /\ UNCHANGED <<table, late, raced, call>> /\ applied' = applied \ {s}
        /\ \A r \in Procs \ {s} : pc'[r] = pc[r] /\ reply'[r] = reply[r]
    BY <1>6 DEF JoinStored, Finish, ReplyTypeOK
  <2>2. CASE joined' = joined
    BY <2>1, <2>2
  <2>3. CASE joined' = joined \cup {s} /\ Outcome(s) = "returned"
    <3>1. s \in applied
      BY <2>1, <2>3 DEF Outcome, SuccessMeansApplied
    <3>2. CASE s \in raced
      BY <2>1, <2>3, <3>2
    <3>3. CASE s \notin raced
      <4>1. /\ table[Hash[Swarm]] = call[s].value /\ Lists(call[s].value, s) /\ Joining = {s}
            /\ \A q \in LateJoins : q.value = call[s].value
        BY <2>1, <3>1, <3>3
      <4>2. call[s].value # None
        BY NoneAssumption
      <4>3. JoinedAreListed'
        BY <2>1, <2>3, <4>1, <4>2 DEF Lists
      <4>4. JoinsAlone' /\ PutsList' /\ ReadsList'
        BY <2>1, <2>3, <4>1
      <4> QED  BY <4>3, <4>4
    <3> QED  BY <3>2, <3>3
  <2> QED  BY <1>6, <2>2, <2>3 DEF JoinStored
<1>7. ASSUME NEW p \in Procs, Execute(p) PROVE SwarmInv'
  <2>1. /\ UNCHANGED <<call, late, joined, raced>> /\ pc[p] = "sent" /\ pc'[p] = "executed"
        /\ \A r \in Procs \ {p} : pc'[r] = pc[r]
        /\ Joining' = Joining /\ LateJoins' = LateJoins
    BY <1>7 DEF Execute
  <2>2. \A r \in Procs \ {p} : reply'[r] = reply[r]
    BY <1>7 DEF Execute, Lookup, Store, Refuse, ReplyTypeOK
  <2>3. JoinsAlone' /\ PutsList'
    BY <2>1
  <2>4. CASE Lookup(p)
    <3>1. UNCHANGED <<table, applied>> /\ call[p].op = "get"
      BY <2>4 DEF Lookup
    <3>2. p \in Servers =>
            /\ reply'[p].err = "E_SUCCESS" =>
                 table[Hash[Swarm]] # None /\ reply'[p].value = table[Hash[Swarm]]
            /\ reply'[p].err = "E_NOT_FOUND" => table[Hash[Swarm]] = None
      BY <2>4 DEF Lookup, Failures, Response, ReplyTypeOK
    <3>3. ReadsList' /\ JoinedAreListed'
      BY <2>1, <2>2, <3>1, <3>2
    <3> QED  BY <2>3, <3>3
  <2>5. CASE Refuse(p)
    <3>1. UNCHANGED <<table, applied>> /\ call[p].op = "put"
      BY <2>5 DEF Refuse
    <3>2. ReadsList' /\ JoinedAreListed'
      BY <2>1, <2>2, <3>1
    <3> QED  BY <2>3, <3>2
  <2>6. CASE Store(p) /\ p \in Servers
    <3>1. p \in Joining /\ call[p].op = "put" /\ applied' = applied \cup {p}
      BY <2>1, <2>6 DEF Store
    <3>2. table'[Hash[Swarm]] = call[p].value /\ call[p].value # None
      <4>1. call[p].key = Swarm /\ call[p].value # Erased /\ call[p].value \in Values
        BY <2>6, <3>1 DEF Lists
      <4>2. table' = [table EXCEPT ![Hash[Swarm]] = Stored(call[p].value)]
        BY <2>6, <4>1 DEF Store
      <4>3. table'[Hash[Swarm]] = Stored(call[p].value)
        <5> HIDE DEF TypeOK, Stored
        <5> QED  BY <4>2, SwarmWritten
      <4> QED  BY <4>1, <4>3, NoneAssumption DEF Stored
    <3>3. JoinedAreListed'
      BY <2>1, <3>1, <3>2 DEF Lists
    <3>4. ReadsList'
      BY <2>1, <2>2, <3>1, <3>2
    <3> QED  BY <2>3, <3>3, <3>4
  <2>7. CASE Store(p) /\ p \in Callers
    <3>1. call[p].key \in Keys \ {Swarm} /\ applied' = applied \cup {p} /\ p \notin Servers
      BY <2>1, <2>7 DEF Store
    <3>2. table'[Hash[Swarm]] = table[Hash[Swarm]]
      <4>1. table' = [table EXCEPT ![Hash[call[p].key]] = Stored(call[p].value)]
        BY <2>7 DEF Store
      <4> HIDE DEF TypeOK
      <4> QED  BY <3>1, <4>1, SwarmKept
    <3>3. JoinedAreListed'
      BY <2>1, <3>2
    <3>4. ReadsList'
      BY <2>1, <2>2, <3>1, <3>2
    <3> QED  BY <2>3, <3>3, <3>4
  <2> QED  BY <1>7, <2>4, <2>5, <2>6, <2>7 DEF Execute
<1>8. ASSUME NEW p \in Procs, Retry(p) PROVE SwarmInv'
  BY <1>8 DEF Retry, Attempt, NoResponse, Response
<1>9. ASSUME NEW q \in late, ExecuteLate(q) PROVE SwarmInv'
  <2>1. /\ UNCHANGED <<pc, call, reply, applied, joined, raced>>
        /\ Joining' = Joining /\ LateJoins' = LateJoins \ {q} /\ q.key \in Keys /\ q.value \in Values
    BY <1>9 DEF ExecuteLate, TableTypeOK
  <2>2. JoinsAlone' /\ PutsList'
    BY <2>1
  <2>3. CASE q.key = Swarm
    <3>1. q \in LateJoins
      BY <2>3
    <3>2. table'[Hash[Swarm]] = Stored(q.value)
      <4>1. table' = [table EXCEPT ![Hash[Swarm]] = Stored(q.value)]
        BY <1>9, <2>3 DEF ExecuteLate
      <4> HIDE DEF TypeOK
      <4> QED  BY <4>1, SwarmWritten
    <3>3. \A u \in joined \ raced : Lists(q.value, u)
      BY <3>1
    <3>4. JoinedAreListed'
      BY <2>1, <3>2, <3>3, NoneAssumption DEF Lists, Stored
    <3>5. \A s \in Joining \ raced : q.value = call[s].value /\ q.value # Erased
      BY <3>1 DEF Lists
    <3>6. ReadsList'
      BY <2>1, <3>2, <3>5 DEF Stored
    <3> QED  BY <2>2, <3>4, <3>6
  <2>4. CASE q.key # Swarm
    <3>1. table'[Hash[Swarm]] = table[Hash[Swarm]]
      <4>1. table' = [table EXCEPT ![Hash[q.key]] = Stored(q.value)]
        BY <1>9 DEF ExecuteLate
      <4>2. q.key \in Keys
        BY <2>1
      <4> HIDE DEF TypeOK
      <4> QED  BY <2>4, <4>1, <4>2, SwarmKept
    <3>2. ReadsList' /\ JoinedAreListed'
      BY <2>1, <3>1
    <3> QED  BY <2>2, <3>2
  <2> QED  BY <2>3, <2>4
<1>10. CASE UNCHANGED vars
  BY <1>10 DEF vars
<1> QED
  BY <1>1, <1>2, <1>3, <1>4, <1>5, <1>6, <1>7, <1>8, <1>9, <1>10 DEF Next

LEMMA JoinInvariance == Spec => []JoinInv
<1>1. JoinInv <=> SwarmCalls /\ (Swarm \in Alone => SwarmInv)
  BY DEF JoinInv, SwarmInv, JoinedAreListed
<1>2. TypeOK /\ TypeOK' /\ SuccessMeansApplied /\ JoinInv /\ [Next]_vars => JoinInv'
  BY NextSwarmCalls, NextSwarmInv DEF JoinInv, SwarmInv, JoinedAreListed, Alone
<1> QED  BY <1>2, InitJoinInv, Invariance, PTL DEF Spec

(***************************************************************************)
(* A chunk server whose init has returned stays in the list of its swarm,  *)
(* with any number of servers, although the list is read and written back  *)
(* without a lock, unless its join overlapped another, a request of one    *)
(* came late, or a failed read was taken for an empty swarm.               *)
(***************************************************************************)
THEOREM JoinedServersAreListed == Spec => []JoinedAreListed
<1>1. JoinInv => JoinedAreListed
  BY DEF JoinInv
<1> QED  BY <1>1, JoinInvariance, PTL

=============================================================================
