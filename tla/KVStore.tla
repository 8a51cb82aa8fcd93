------------------------------- MODULE KVStore -------------------------------
(***************************************************************************)
(* What the cache promises its callers (core/cache), whatever lies below    *)
(* it: one store in use at a time.  As long as the store in use is not      *)
(* exchanged, every call takes effect at one moment between its start and   *)
(* its answer (`get_and_delete`: at two, the reading and the deleting), and *)
(* an entry vanishes only if it was given a time to live.                   *)
(*                                                                         *)
(* When the store is exchanged, the new one holds what it happens to hold.  *)
(* A call caught in between is `stray` until it is answered or sent again:  *)
(* it cannot change the store in use, may be applied a second time, and     *)
(* reads the other store.                                                   *)
(***************************************************************************)
EXTENDS Naturals

CONSTANTS
  Clients,    \* coroutines that use the cache
  Keys,
  Entries,    \* what may be stored
  Temporary,  \* the entries stored with a time to live
  None

VARIABLES
  kv,       \* the contents of the store in use
  backend,  \* which store that is
  stray,    \* the calls caught by an exchange of the store
  request   \* the call of each client

vars == <<kv, backend, stray, request>>

Kinds == {"set", "get", "delete", "ping", "take"}
Backends == {"redis", "local"}

\* A take is get_and_delete: it has two effects, the others have one.
Effects(kind) == IF kind = "take" THEN 2 ELSE 1

Found == Entries \cup {None}
Contents == [Keys -> Found]

NoRequest == [state |-> "none", kind |-> None, key |-> None, entry |-> None,
              stage |-> 0, res |-> None]
Busy == {c \in Clients : request[c].state = "busy"}

Init ==
  /\ kv = [k \in Keys |-> None]
  /\ backend \in Backends
  /\ stray = {}
  /\ request = [c \in Clients |-> NoRequest]

Start(c, kind, k, e) ==
  /\ c \notin Busy
  /\ e \in IF kind = "set" THEN Entries ELSE {None}
  /\ request' = [request EXCEPT ![c] = [NoRequest EXCEPT
       !.state = "busy", !.kind = kind, !.key = k, !.entry = e]]
  /\ UNCHANGED <<kv, backend, stray>>

\* The next effect of a request on the contents of a store, and what it reads.
Effect(r, contents) ==
  CASE r.kind = "set" -> [contents EXCEPT ![r.key] = r.entry]
    [] r.kind = "delete" \/ (r.kind = "take" /\ r.stage = 1) ->
         [contents EXCEPT ![r.key] = None]
    [] OTHER -> contents
Reads(r) == r.kind = "get" \/ (r.kind = "take" /\ r.stage = 0)

Apply(c) ==
  LET r == request[c] IN
  /\ c \in Busy \ stray
  /\ r.stage < Effects(r.kind)
  /\ kv' = Effect(r, kv)
  /\ request' = [request EXCEPT ![c].stage = @ + 1,
                                ![c].res = IF Reads(r) THEN kv[r.key] ELSE @]
  /\ UNCHANGED <<backend, stray>>

\* A stray call takes effect on the store that is not in use.
StrayApply(c) ==
  LET r == request[c] IN
  /\ c \in Busy \cap stray
  /\ r.stage < Effects(r.kind)
  /\ \E seen \in IF Reads(r) THEN Found ELSE {r.res} :
       request' = [request EXCEPT ![c].stage = @ + 1, ![c].res = seen]
  /\ UNCHANGED <<kv, backend, stray>>

\* A stray call turns to the store in use: its last effect may be repeated.
Redone(c) == {request, [request EXCEPT ![c].stage = IF @ > 0 THEN @ - 1 ELSE 0]}
Rejoin(c) ==
  /\ c \in Busy \cap stray
  /\ stray' = stray \ {c}
  /\ request' \in Redone(c)
  /\ UNCHANGED <<kv, backend>>

Return(c) ==
  /\ c \in Busy
  /\ request[c].stage = Effects(request[c].kind)
  /\ request' = [request EXCEPT ![c] =
       [NoRequest EXCEPT !.state = "returned", !.res = request[c].res]]
  /\ stray' = stray \ {c}
  /\ UNCHANGED <<kv, backend>>

\* A call that raises has had all, some or none of its effects.
Raise(c) ==
  /\ c \in Busy
  /\ request' = [request EXCEPT ![c] = [NoRequest EXCEPT !.state = "raised"]]
  /\ stray' = stray \ {c}
  /\ UNCHANGED <<kv, backend>>

Expire(k) ==
  /\ kv[k] \in Temporary
  /\ kv' = [kv EXCEPT ![k] = None]
  /\ UNCHANGED <<backend, stray, request>>

\* Another store is put in use, by a call that is then made again.
Exchange ==
  /\ backend' \in Backends \ {backend}
  /\ kv' \in Contents
  /\ stray' \in SUBSET Busy
  /\ \E c \in Busy : request' \in Redone(c)

\* The process is restarted and chooses its store anew.
Restart ==
  /\ backend' \in Backends
  /\ IF backend' = backend THEN kv' = kv ELSE kv' \in Contents
  /\ stray' = {}
  /\ request' = [c \in Clients |-> NoRequest]

Next ==
  \/ \E c \in Clients :
       \/ \E kind \in Kinds, k \in Keys, e \in Entries \cup {None} : Start(c, kind, k, e)
       \/ Apply(c) \/ StrayApply(c) \/ Rejoin(c) \/ Return(c) \/ Raise(c)
  \/ \E k \in Keys : Expire(k)
  \/ Exchange
  \/ Restart

Spec == Init /\ [][Next]_vars
=============================================================================
