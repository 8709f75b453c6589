------------------------------ MODULE Harmony ------------------------------
(***************************************************************************)
(* xmlrpc::harmony, the client of the DHT: get and put over an XML-RPC     *)
(* call that is repeated until it is answered, and what is built on them:  *)
(* the values kept by the file system, and the list of a swarm's chunk     *)
(* servers, to which chunkserver_harmony::init adds its host.              *)
(*                                                                         *)
(* The service behind the call is not in the repository: it has a table by *)
(* the number sent as key, and answers with one of the HarmonyErrors.  A   *)
(* request of which the client has seen a transport error may never have   *)
(* arrived, may have been executed, or may still be on its way.            *)
(***************************************************************************)
EXTENDS Integers, SequencesExt, FiniteSets

CONSTANTS Callers,   \* threads of a mounted file system
          Servers,   \* hosts of chunk servers
          Keys,      \* the serialised instructions in use
          Swarm,     \* the one with the list of chunk servers
          Hash,      \* what is sent of a key
          MaxCalls,  \* bound on the calls and joins begun
          MaxTries,  \* bound on the tries that are given up
          None

Procs == Callers \cup Servers

\* class instruction, which get_key serialises: a type and an argument.
Instruction == [type : {"CHUNKSERVER", "CHUNK", "ATTRIBUTE"}, argument : STRING]

ASSUME HarmonyAssumption ==
  /\ Swarm \in Keys /\ Keys \subseteq Instruction
  /\ \A k \in Keys : k.type = "CHUNKSERVER" <=> k = Swarm
  /\ Hash \in [Keys -> 0..(2^16 - 1)]
  /\ Callers \cap Servers = {} /\ MaxCalls \in Nat /\ MaxTries \in Nat

VARIABLES table,   \* the entries of the service, by hash
          pc,      \* where a thread is in its last call
          call,    \* that call
          reply,   \* the answer on its way back
          late,    \* puts the service may still receive after a try was given up
          applied, \* history: processes whose put was executed
          joined,  \* history: hosts whose init has returned
          raced,   \* history: hosts that something else may have removed
          calls, tries

netVars  == <<table, late>>
joinVars == <<joined, raced>>
vars == <<table, pc, call, reply, late, applied, joinVars, calls, tries>>

-----------------------------------------------------------------------------
(***************************************************************************)
(* A value is what get_value serialises, with the type of its instruction. *)
(* The empty string, which OnErase puts, is no entry.                      *)
(***************************************************************************)
\* Mutant of Value: the instruction keeps its default type.
ValueUntyped(k, data) == [type |-> "NOOP", data |-> data]

Value(k, data) == [type |-> k.type, data |-> data]
Erased == [type |-> "EMPTY", data |-> <<>>]

Values == [type : {"CHUNKSERVER"}, data : Seq(Servers)]
          \cup [type : {"CHUNK", "ATTRIBUTE"}, data : Nat] \cup {Erased}

ASSUME NoneAssumption == None \notin Values \cup [key : Keys, value : Values \cup {None}]

Stored(v) == IF v = Erased THEN None ELSE v

\* set_value: an archive of another type is not read.
Readable(k, v) == v.type = k.type

-----------------------------------------------------------------------------
Request(p, op, k, v) ==
  /\ call' = [call EXCEPT ![p] = [op |-> op, key |-> k, value |-> v]]
  /\ pc' = [pc EXCEPT ![p] = "sent"]
  /\ applied' = applied \ {p}

Resting(p) == pc[p] \in {"idle", "returned", "thrown"}
Count == calls < MaxCalls /\ calls' = calls + 1

\* harmony::get, by PreRead
Get(p, k) ==
  /\ Resting(p) /\ Count
  /\ Request(p, "get", k, Erased)
  /\ UNCHANGED <<netVars, reply, joinVars, tries>>

\* harmony::put, by OnFlush with a value never put before, or by OnErase
Put(p, k) ==
  /\ Resting(p) /\ Count
  /\ Request(p, "put", k, Value(k, calls)) \/ Request(p, "put", k, Erased)
  /\ UNCHANGED <<netVars, reply, joinVars, tries>>

-----------------------------------------------------------------------------
(***************************************************************************)
(* The service.  err is its answer's XML_ERROR_TAG, and stands for the     *)
(* first element of the response as well, when that is not 0 ("dht").      *)
(***************************************************************************)
Response(e, v) == [err |-> e, value |-> v]
NoResponse == Response("E_SUCCESS", Erased)

Failures == {Response("E_TIMEOUT", Erased), Response("dht", Erased)}

Lookup(p) ==
  /\ call[p].op = "get"
  /\ LET v == table[Hash[call[p].key]] IN
       \E r \in {IF v = None THEN Response("E_NOT_FOUND", Erased) ELSE Response("E_SUCCESS", v)}
                \cup Failures :
         reply' = [reply EXCEPT ![p] = r]
  /\ UNCHANGED <<table, applied>>

Store(p) ==
  /\ call[p].op = "put"
  /\ table' = [table EXCEPT ![Hash[call[p].key]] = Stored(call[p].value)]
  /\ applied' = applied \cup {p}
  /\ \E r \in {Response("E_SUCCESS", Erased)} \cup Failures : reply' = [reply EXCEPT ![p] = r]

Refuse(p) ==
  /\ call[p].op = "put"
  /\ \E r \in Failures : reply' = [reply EXCEPT ![p] = r]
  /\ UNCHANGED <<table, applied>>

Execute(p) ==
  /\ pc[p] = "sent"
  /\ pc' = [pc EXCEPT ![p] = "executed"]
  /\ Lookup(p) \/ Store(p) \/ Refuse(p)
  /\ UNCHANGED <<call, late, joinVars, calls, tries>>

ExecuteLate(q) ==
  /\ table' = [table EXCEPT ![Hash[q.key]] = Stored(q.value)]
  /\ late' = late \ {q}
  /\ UNCHANGED <<pc, call, reply, applied, joinVars, calls, tries>>

-----------------------------------------------------------------------------
(***************************************************************************)
(* girerr::error, and goto RetryPut: the request was lost, it is late, or  *)
(* its answer was lost.                                                    *)
(***************************************************************************)
Attempt(p) == [by |-> p, key |-> call[p].key, value |-> call[p].value]

Joining == {s \in Servers : pc[s] \in {"sent", "executed"}}
LateJoins == {q \in late : q.key = Swarm}

Retry(p) ==
  /\ pc[p] \in {"sent", "executed"} /\ tries < MaxTries
  /\ tries' = tries + 1
  /\ pc' = [pc EXCEPT ![p] = "sent"]
  /\ late' \in {late, IF pc[p] = "sent" /\ call[p].op = "put" THEN late \cup {Attempt(p)} ELSE late}
  /\ reply' = [reply EXCEPT ![p] = NoResponse]
  /\ UNCHANGED <<table, call, applied, joinVars, calls>>

-----------------------------------------------------------------------------
(***************************************************************************)
(* The answer has arrived.  dht_error goes before key_missing_error, which *)
(* every err but E_SUCCESS becomes; reading the value comes last.          *)
(***************************************************************************)
\* Mutant of Outcome: a put does not look at the err of the answer.
OutcomeErrUnread(p) ==
  IF reply[p].err = "dht" THEN "dht_error"
  ELSE IF call[p].op = "get" /\ reply[p].err # "E_SUCCESS" THEN "key_missing_error"
  ELSE IF call[p].op = "get" /\ ~Readable(call[p].key, reply[p].value) THEN "archive_exception"
  ELSE "returned"

Outcome(p) ==
  IF reply[p].err = "dht" THEN "dht_error"
  ELSE IF reply[p].err # "E_SUCCESS" THEN "key_missing_error"
  ELSE IF call[p].op = "get" /\ ~Readable(call[p].key, reply[p].value) THEN "archive_exception"
  ELSE "returned"

Finish(p, ending) ==
  /\ pc' = [pc EXCEPT ![p] = ending] /\ applied' = applied \ {p}
  /\ reply' = [reply EXCEPT ![p] = NoResponse] /\ UNCHANGED call

Answer(p) ==
  /\ p \in Callers /\ pc[p] = "executed"
  /\ Finish(p, IF Outcome(p) = "returned" THEN "returned" ELSE "thrown")
  /\ UNCHANGED <<netVars, joinVars, calls, tries>>

-----------------------------------------------------------------------------
(***************************************************************************)
(* chunkserver_harmony::init, at every start of a chunk server.  A host is *)
(* in a race if its join overlaps another or a late put of one.            *)
(***************************************************************************)
Join(s) ==
  /\ Resting(s) /\ Count
  /\ Request(s, "get", Swarm, Erased)
  /\ joined' = joined \ {s}
  /\ raced' = IF Joining # {} \/ LateJoins # {} THEN raced \cup Joining \cup {s} ELSE raced \ {s}
  /\ UNCHANGED <<netVars, reply, tries>>

\* Mutant of AddHost: the list is not the one that was read.
AddHostAlone(s, list) ==
  /\ Request(s, "put", Swarm, Value(Swarm, <<s>>))
  /\ reply' = [reply EXCEPT ![s] = NoResponse]

\* append and set_pair, with the list that was read.
AddHost(s, list) ==
  /\ Request(s, "put", Swarm, Value(Swarm, Append(list, s)))
  /\ reply' = [reply EXCEPT ![s] = NoResponse]

\* A key_missing_error is taken to mean that the swarm has no server yet.
JoinRead(s) ==
  /\ pc[s] = "executed" /\ call[s].op = "get"
  /\ \/ Outcome(s) = "returned" /\ AddHost(s, reply[s].value.data) /\ UNCHANGED raced
     \/ /\ Outcome(s) = "key_missing_error" /\ AddHost(s, <<>>)
        /\ raced' = IF reply[s].err = "E_NOT_FOUND" THEN raced ELSE raced \cup (Servers \ {s})
     \/ Outcome(s) \in {"dht_error", "archive_exception"} /\ Finish(s, "thrown") /\ UNCHANGED raced
  /\ UNCHANGED <<netVars, joined, calls, tries>>

JoinStored(s) ==
  /\ pc[s] = "executed" /\ call[s].op = "put"
  /\ Finish(s, IF Outcome(s) = "returned" THEN "returned" ELSE "thrown")
  /\ joined' = IF Outcome(s) = "returned" THEN joined \cup {s} ELSE joined
  /\ UNCHANGED <<netVars, raced, calls, tries>>

-----------------------------------------------------------------------------
Hashes == {Hash[k] : k \in Keys}

Init ==
  /\ table = [h \in Hashes |-> None] /\ late = {}
  /\ pc = [p \in Procs |-> "idle"]
  /\ call = [p \in Procs |-> [op |-> "get", key |-> Swarm, value |-> Erased]]
  /\ reply = [p \in Procs |-> NoResponse]
  /\ applied = {} /\ joined = {} /\ raced = {} /\ calls = 0 /\ tries = 0

Next ==
  \/ \E c \in Callers, k \in Keys \ {Swarm} : Get(c, k) \/ Put(c, k)
  \/ \E c \in Callers : Answer(c)
  \/ \E s \in Servers : Join(s) \/ JoinRead(s) \/ JoinStored(s)
  \/ \E p \in Procs : Execute(p) \/ Retry(p)
  \/ \E q \in late : ExecuteLate(q)

Spec == Init /\ [][Next]_vars
-----------------------------------------------------------------------------
CallTypeOK ==
  /\ pc \in [Procs -> {"idle", "sent", "executed", "returned", "thrown"}]
  /\ call \in [Procs -> [op : {"get", "put"}, key : Keys, value : Values]]
  /\ \A s \in Servers : call[s].key = Swarm
  /\ applied \subseteq Procs

ReplyTypeOK ==
  reply \in [Procs -> [err : {"E_SUCCESS", "E_NOT_FOUND", "E_TIMEOUT", "dht"}, value : Values]]

TableTypeOK ==
  /\ table \in [Hashes -> Values \cup {None}]
  /\ late \subseteq [by : Procs, key : Keys, value : Values]

CountTypeOK ==
  /\ joined \cup raced \subseteq Servers
  /\ calls \in 0..MaxCalls /\ tries \in 0..MaxTries

TypeOK == CallTypeOK /\ ReplyTypeOK /\ TableTypeOK /\ CountTypeOK

\* The keys that share their 16 bits with no other.
Alone == {k \in Keys : \A l \in Keys : Hash[l] = Hash[k] => l = k}

(***************************************************************************)
(* Whatever is lost, late or repeated, an entry whose hash belongs to one  *)
(* key holds what a put of that key has stored, and put returns only if it *)
(* was executed.  A put that was retried can store its old value again     *)
(* after a newer one; nothing weaker than AtLeastOnce excludes it.         *)
(***************************************************************************)
OpenPut(p) ==
  IF pc[p] \in {"sent", "executed"} /\ call[p].op = "put" /\ call[p].key \in Alone
  THEN [key |-> call[p].key, value |-> Stored(call[p].value)] ELSE None

Service == INSTANCE AtLeastOnce WITH
  Keys <- Alone, Values <- Values \cup {None},
  entry <- [k \in Alone |-> table[Hash[k]]],
  open <- [p \in Procs |-> OpenPut(p)],
  applied <- {p \in applied : OpenPut(p) # None},
  left <- {[key |-> q.key, value |-> Stored(q.value)] : q \in {r \in late : r.key \in Alone}},
  result <- [p \in Procs |->
    IF call[p].op = "put" /\ call[p].key \in Alone /\ pc[p] \in {"returned", "thrown"}
    THEN pc[p] ELSE "none"]

KeepsEntries == Service!Spec

\* What makes it so: put is answered with E_SUCCESS only if it was executed.
SuccessMeansApplied ==
  \A p \in Procs :
    pc[p] = "executed" /\ call[p].op = "put" /\ reply[p].err = "E_SUCCESS" => p \in applied

(***************************************************************************)
(* A chunk server whose init has returned is in the list of its swarm,     *)
(* unless its join overlapped another (both read the same list), a late    *)
(* request of one was executed, or a server whose read failed for another  *)
(* reason than E_NOT_FOUND took itself to be the first.                    *)
(***************************************************************************)
JoinedAreListed ==
  Swarm \in Alone =>
    \A s \in joined \ raced :
      table[Hash[Swarm]] # None /\ s \in ToSet(table[Hash[Swarm]].data)

\* What makes it so.  First, who speaks of the swarm.
SwarmCalls == \A c \in Callers : pc[c] \in {"sent", "executed"} => call[c].key # Swarm

\* A host outside raced joins alone, and what is late is its own put.
JoinsAlone ==
  \A s \in Joining \ raced :
    /\ Joining = {s}
    /\ \A q \in LateJoins : call[s].op = "put" /\ q.value = call[s].value

Lists(v, s) == v # Erased /\ s \in ToSet(v.data)

\* What may still be stored lists whoever is listed, and who stores it.
PutsList ==
  /\ \A s \in Joining : call[s].op = "put" =>
       Lists(call[s].value, s) /\ \A u \in joined \ raced : Lists(call[s].value, u)
  /\ \A q \in LateJoins, u \in joined \ raced : Lists(q.value, u)

\* What was read does, too, and a host that stored its list sees it kept.
ReadsList ==
  \A s \in Joining :
    /\ s \notin joined
    /\ pc[s] = "executed" /\ call[s].op = "get" =>
         /\ reply[s].err = "E_SUCCESS" => joined \ raced \subseteq ToSet(reply[s].value.data)
         /\ reply[s].err = "E_NOT_FOUND" => joined \ raced = {}
    /\ call[s].op = "put" /\ s \in applied \ raced => table[Hash[Swarm]] = call[s].value

JoinInv ==
  SwarmCalls /\ (Swarm \in Alone => JoinsAlone /\ PutsList /\ ReadsList) /\ JoinedAreListed

=============================================================================
