-------------------------------- MODULE Cache --------------------------------
(***************************************************************************)
(* The cache (core/cache): a CacheClient that works on Redis or on a local  *)
(* SQLite file, chooses between them on first use, and goes over to the     *)
(* file when Redis fails, if the configuration says so.                     *)
(*                                                                         *)
(* A client is a coroutine with at most one call under way; an action is    *)
(* the code between two awaits, or what Redis or the SQLite thread does.    *)
(* Redis may fail any call at any time, before or after carrying it out.    *)
(* A key stands for a key in a logical database (db, or namespace); an      *)
(* entry for a value together with whether it was stored with a time to     *)
(* live; that time passes whenever it likes.  The SQLite file is assumed to *)
(* work; closing a Redis connection, whose errors are suppressed, is part   *)
(* of the step before it.                                                   *)
(***************************************************************************)
EXTENDS Naturals, Sequences

CONSTANTS
  Clients, Keys, Entries, Temporary, None,  \* see KVStore
  MaxRestarts                               \* bound: restarts of the process

ASSUME EntryAssumption == Temporary \subseteq Entries
ASSUME RestartAssumption == MaxRestarts \in Nat

Kinds == {"set", "get", "delete", "ping", "take"}
Backends == {"redis", "local"}
Configs == [cache_backend : Backends \cup {"auto"}, cache_fallback_enabled : BOOLEAN]

VARIABLES
  plugin_config,
  active,       \* active_backend_kind
  queue,        \* who holds backend_lock across an await, then who waits for it
  initialized,  \* LocalCache._initialized
  store,        \* the contents of Redis and of the SQLite file
  call,         \* the call of each client
  restarts      \* history: restarts so far

choice == <<active, queue, initialized>>
vars == <<plugin_config, choice, store, call, restarts>>

(***************************************************************************)
(* A call.  pc: "probing" and "probed" (the answer of _probe_redis is there *)
(* but the coroutine has not resumed), "waiting" for the lock, in           *)
(* "initialising" it holds the lock, "sent" to the backend `target`.        *)
(***************************************************************************)
NoCall == [pc |-> "idle", kind |-> None, key |-> None, entry |-> None, want |-> None,
           target |-> None, second |-> FALSE, applied |-> FALSE, res |-> None]
Awaiting == {"probing", "probed", "waiting", "initialising", "sent"}
Errors == {"unreachable", "rejected"}
Calls ==
  [pc : Awaiting \cup {"idle", "returned", "raised"}, kind : Kinds \cup {None},
   key : Keys \cup {None}, entry : Entries \cup {None}, want : Backends \cup {None},
   target : Backends \cup {None}, second : BOOLEAN, applied : BOOLEAN,
   res : Entries \cup Errors \cup {None}]
UnderWay(c) == call[c].pc \in Awaiting

\* None is no value of the program.
ASSUME NoneAssumption == None \notin Entries \cup Keys \cup Backends \cup Kinds \cup Errors

Init ==
  /\ plugin_config \in Configs
  /\ active = None
  /\ queue = <<>>
  /\ initialized = FALSE
  /\ store = [b \in Backends |-> [k \in Keys |-> None]]
  /\ call = [c \in Clients |-> NoCall]
  /\ restarts = 0

-----------------------------------------------------------------------------
(* The choice of the backend.  r is the call of client c as it stands.       *)

Put(c, r) == call' = [call EXCEPT ![c] = r]
Sent(r, kind) == [r EXCEPT !.pc = "sent", !.target = kind, !.want = None, !.applied = FALSE]
Raised(why) == [NoCall EXCEPT !.pc = "raised", !.res = why]

\* The body of _switch_backend, where `others` wait for the lock c has.
SwitchLocked(c, r, kind, others) ==
  \/ /\ kind = "redis" \/ active = "local" \/ initialized
     /\ active' = kind
     /\ queue' = others
     /\ Put(c, Sent(r, kind))
  \/ /\ kind = "local" /\ active # "local" /\ ~initialized
     /\ queue' = <<c>> \o others
     /\ Put(c, [r EXCEPT !.pc = "initialising", !.want = kind])
     /\ UNCHANGED active

\* Mutant of SwitchBackend: each call locks a lock of its own.
SwitchBackend_OwnLock(c, r, kind) ==
  UNCHANGED initialized /\ SwitchLocked(c, r, kind, <<>>)

SwitchBackend(c, r, kind) ==
  /\ UNCHANGED initialized
  /\ \/ queue = <<>> /\ SwitchLocked(c, r, kind, <<>>)
     \/ /\ queue # <<>>
        /\ queue' = Append(queue, c)
        /\ Put(c, [r EXCEPT !.pc = "waiting", !.want = kind])
        /\ UNCHANGED active

\* Mutant of ResolveBackend: the choice made before is not remembered.
ResolveBackend_Forgets(c, r) ==
  \/ /\ plugin_config.cache_backend \in Backends
     /\ SwitchBackend(c, r, plugin_config.cache_backend)
  \/ /\ plugin_config.cache_backend = "auto"
     /\ Put(c, [r EXCEPT !.pc = "probing"])
     /\ UNCHANGED choice

\* _resolve_backend up to its first await.
ResolveBackend(c, r) ==
  \/ /\ plugin_config.cache_backend \in Backends
     /\ SwitchBackend(c, r, plugin_config.cache_backend)
  \/ /\ plugin_config.cache_backend = "auto" /\ active # None
     /\ Put(c, Sent(r, active))
     /\ UNCHANGED choice
  \/ /\ plugin_config.cache_backend = "auto" /\ active = None
     /\ Put(c, [r EXCEPT !.pc = "probing"])
     /\ UNCHANGED choice

\* Mutant of CanFallbackToLocal: it asks for the backend in use now instead of
\* the one the call was made to.
CanFallbackToLocal_AsksActive(c) ==
  /\ active = "redis"
  /\ plugin_config.cache_backend = "auto"
  /\ plugin_config.cache_fallback_enabled

CanFallbackToLocal(c) ==
  /\ call[c].target = "redis"
  /\ plugin_config.cache_backend = "auto"
  /\ plugin_config.cache_fallback_enabled

-----------------------------------------------------------------------------
(* What a client's coroutine does.                                           *)

\* CacheClient.set, get, delete, ping, and get_and_delete.
Call(c, kind, k, e) ==
  /\ ~UnderWay(c)
  /\ e \in IF kind = "set" THEN Entries ELSE {None}
  /\ ResolveBackend(c, [NoCall EXCEPT !.kind = kind, !.key = k, !.entry = e])
  /\ UNCHANGED <<plugin_config, store, restarts>>

\* The rest of _resolve_backend, when the probe's coroutine returns.
ProbeReturns(c) ==
  /\ call[c].pc = "probed"
  /\ \/ call[c].want # None /\ SwitchBackend(c, call[c], call[c].want)
     \/ call[c].want = None /\ Put(c, Raised("unreachable")) /\ UNCHANGED choice
  /\ UNCHANGED <<plugin_config, store, restarts>>

LockAcquired(c) ==
  /\ queue # <<>> /\ Head(queue) = c
  /\ call[c].pc = "waiting"
  /\ SwitchLocked(c, call[c], call[c].want, Tail(queue))
  /\ UNCHANGED <<plugin_config, initialized, store, restarts>>

\* Mutant of Initialized: the lock is not given back.
Initialized_KeepsLock(c) ==
  /\ call[c].pc = "initialising"
  /\ initialized' = TRUE
  /\ active' = call[c].want
  /\ Put(c, Sent(call[c], call[c].want))
  /\ UNCHANGED <<plugin_config, queue, store, restarts>>

\* The SQLite thread has created the table; the rest of _switch_backend.
Initialized(c) ==
  /\ call[c].pc = "initialising"
  /\ initialized' = TRUE
  /\ active' = call[c].want
  /\ queue' = Tail(queue)
  /\ Put(c, Sent(call[c], call[c].want))
  /\ UNCHANGED <<plugin_config, store, restarts>>

\* The backend's answer is there.  get_and_delete goes on with its delete.
Answered(c) ==
  LET r == call[c] IN
  /\ r.pc = "sent" /\ r.applied
  /\ \/ /\ r.kind = "take" /\ ~r.second
        /\ ResolveBackend(c, [r EXCEPT !.second = TRUE, !.applied = FALSE, !.target = None])
     \/ /\ r.kind # "take" \/ r.second
        /\ Put(c, [NoCall EXCEPT !.pc = "returned", !.res = r.res])
        /\ UNCHANGED choice
  /\ UNCHANGED <<plugin_config, store, restarts>>

\* A connection error, a timeout or an OSError; the call may have been
\* carried out.  The except clause of _call_backend.
RedisFails(c) ==
  /\ call[c].pc = "sent" /\ call[c].target = "redis"
  /\ \/ CanFallbackToLocal(c) /\ SwitchBackend(c, call[c], "local")
     \/ ~CanFallbackToLocal(c) /\ Put(c, Raised("unreachable")) /\ UNCHANGED choice
  /\ UNCHANGED <<plugin_config, store, restarts>>

-----------------------------------------------------------------------------
(* What Redis, the SQLite thread and time do.                                *)

\* probe turns the recoverable errors into False.
ProbeAnswers(c) ==
  /\ call[c].pc = "probing"
  /\ \E reachable \in BOOLEAN :
       Put(c, [call[c] EXCEPT
         !.pc = "probed",
         !.want = IF reachable THEN "redis"
                  ELSE IF plugin_config.cache_fallback_enabled THEN "local" ELSE None])
  /\ UNCHANGED <<plugin_config, choice, store, restarts>>

\* An answer that is not a recoverable error: the call, or the probe, raises.
RedisRejects(c) ==
  /\ \/ call[c].pc = "probing"
     \/ call[c].pc = "sent" /\ call[c].target = "redis" /\ ~call[c].applied
  /\ Put(c, Raised("rejected"))
  /\ UNCHANGED <<plugin_config, choice, store, restarts>>

\* Redis or SQLite carries out what was sent to it.
Reads(r) == r.kind = "get" \/ (r.kind = "take" /\ ~r.second)
\* Mutant of Carried: the insertion does nothing if the key is there.
Carried_NoOverwrite(r, contents) ==
  CASE r.kind = "set" /\ contents[r.key] = None -> [contents EXCEPT ![r.key] = r.entry]
    [] r.kind = "delete" \/ (r.kind = "take" /\ r.second) -> [contents EXCEPT ![r.key] = None]
    [] OTHER -> contents

Carried(r, contents) ==
  CASE r.kind = "set" -> [contents EXCEPT ![r.key] = r.entry]
    [] r.kind = "delete" \/ (r.kind = "take" /\ r.second) -> [contents EXCEPT ![r.key] = None]
    [] OTHER -> contents

CarryOut(c) ==
  LET r == call[c] IN
  /\ r.pc = "sent" /\ ~r.applied
  /\ store' = [store EXCEPT ![r.target] = Carried(r, @)]
  /\ Put(c, [r EXCEPT !.applied = TRUE,
                      !.res = IF Reads(r) THEN store[r.target][r.key] ELSE @])
  /\ UNCHANGED <<plugin_config, choice, restarts>>

\* The time to live of an entry has passed.
Expire(b, k) ==
  /\ store[b][k] \in Temporary
  /\ store' = [store EXCEPT ![b][k] = None]
  /\ UNCHANGED <<plugin_config, choice, call, restarts>>

\* Redis and the file outlive the process, nothing else does.
Restart ==
  /\ restarts < MaxRestarts
  /\ restarts' = restarts + 1
  /\ active' = None
  /\ queue' = <<>>
  /\ initialized' = FALSE
  /\ call' = [c \in Clients |-> NoCall]
  /\ UNCHANGED <<plugin_config, store>>

Continue(c) ==
  \/ ProbeReturns(c) \/ LockAcquired(c) \/ Initialized(c) \/ Answered(c) \/ RedisFails(c)
  \/ ProbeAnswers(c) \/ RedisRejects(c) \/ CarryOut(c)

Next ==
  \/ \E c \in Clients :
       \/ \E kind \in Kinds, k \in Keys, e \in Entries \cup {None} : Call(c, kind, k, e)
       \/ Continue(c)
  \/ \E b \in Backends, k \in Keys : Expire(b, k)
  \/ Restart

Spec == Init /\ [][Next]_vars

\* The event loop resumes a coroutine whose await is over, Redis answers or
\* the connection times out, the SQLite thread ends.
FairSpec == Spec /\ \A c \in Clients : WF_vars(Continue(c))

-----------------------------------------------------------------------------
(* Properties.                                                               *)

\* backend_lock is held or awaited exactly by the calls that say so, each once,
\* and only its holder creates the table.
LockQueue ==
  /\ queue \in Seq(Clients)
  /\ \A i, j \in 1..Len(queue) : queue[i] = queue[j] => i = j
  /\ {queue[i] : i \in 1..Len(queue)} = {c \in Clients : call[c].pc \in {"waiting", "initialising"}}
  /\ \A i \in 1..Len(queue) : call[queue[i]].pc = "initialising" => i = 1

\* The variables have the types of the program's, and the lock's queue agrees
\* with the calls.
TypeOK ==
  /\ plugin_config \in Configs
  /\ active \in Backends \cup {None}
  /\ initialized \in BOOLEAN
  /\ store \in [Backends -> [Keys -> Entries \cup {None}]]
  /\ restarts \in 0..MaxRestarts
  /\ call \in [Clients -> Calls]
  /\ LockQueue

\* The store in use, and what a caller sees of a call.
InUse == IF plugin_config.cache_backend = "local" \/ active = "local" THEN "local" ELSE "redis"
Progress(r) == (IF r.second THEN 1 ELSE 0) + (IF r.applied THEN 1 ELSE 0)
Request(r) ==
  [state |-> CASE r.pc = "idle" -> "none"
               [] r.pc \in {"returned", "raised"} -> r.pc
               [] OTHER -> "busy",
   kind |-> r.kind, key |-> r.key, entry |-> r.entry, stage |-> Progress(r),
   res |-> IF r.pc = "raised" THEN None ELSE r.res]

Requests == [c \in Clients |-> Request(call[c])]
Stray == {c \in Clients : call[c].target \notin {None, InUse}}

KV == INSTANCE KVStore WITH
  kv <- store[InUse], backend <- InUse, stray <- Stray, request <- Requests

\* The cache is the store KVStore describes: exact while the backend stays,
\* and when it is exchanged only the calls caught by the exchange are affected,
\* however probes, failures, the lock and other calls interleave.
ImplementsKVStore == KV!Spec

\* With fallback enabled no caller is told that Redis is unreachable, not even
\* one whose call fails while another call has already changed the backend.
FallbackAnswers ==
  plugin_config = [cache_backend |-> "auto", cache_fallback_enabled |-> TRUE] =>
    \A c \in Clients : call[c].pc = "raised" => call[c].res # "unreachable"

\* The choice comes to rest: even if Redis comes and goes for ever, the
\* backend is exchanged finitely often, and from then on no call is at the
\* backend that is not in use.
ChoiceSettles ==
  /\ <>[][active' = active]_active
  /\ <>[](Stray = {})

\* Every call returns or raises, also the ones that queue for the lock.
CallsEnd == \A c \in Clients : UnderWay(c) ~> ~UnderWay(c)
=============================================================================
