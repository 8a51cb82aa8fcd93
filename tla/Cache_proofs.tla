----------------------------- MODULE Cache_proofs -----------------------------
(***************************************************************************)
(* What Cache keeps true for any number of clients, keys, entries and       *)
(* restarts: its type invariant, and that it implements KVStore.            *)
(***************************************************************************)
EXTENDS Cache, TLAPS

-----------------------------------------------------------------------------
(* Type correctness.  Two facts make the types inductive: which fields of a *)
(* call are set at which place (a `target` before the call is sent is that  *)
(* of an attempt that failed), and what a configuration rules out.          *)

Locking == {"waiting", "initialising"}

Shape(r) ==
  /\ r.pc \in Awaiting =>
       r.kind \in Kinds /\ r.key \in Keys /\ (r.kind = "set" => r.entry \in Entries)
  /\ r.pc = "sent" => r.target \in Backends /\ r.want = None
  /\ r.pc \in Locking => r.want \in Backends
  /\ r.pc = "initialising" => r.want = "local"
  /\ r.pc \in Locking /\ r.target # None => r.target = "redis" /\ r.want = "local"
  /\ r.pc \notin Locking \cup {"sent"} => r.target = None
  /\ r.applied => r.target # None
  /\ r.second => r.kind = "take"

\* What a call may be under configuration b.
Fits(r, b) ==
  /\ r.pc \in {"probing", "probed"} => b = "auto"
  /\ r.want # None /\ b # "auto" => r.want = b

Types ==
  /\ plugin_config \in Configs
  /\ active \in Backends \cup {None}
  /\ initialized \in BOOLEAN
  /\ store \in [Backends -> [Keys -> Entries \cup {None}]]
  /\ restarts \in 0..MaxRestarts
  /\ call \in [Clients -> Calls]

CallInv ==
  \A c \in Clients : Shape(call[c]) /\ Fits(call[c], plugin_config.cache_backend)

TypeInv ==
  /\ Types /\ CallInv
  /\ plugin_config.cache_backend = "redis" => active # "local"

\* A call as it may stand.
Proper(r) == r \in Calls /\ Shape(r) /\ Fits(r, plugin_config.cache_backend)

LEMMA NoCallProper ==
  /\ NoCall \in Calls /\ Shape(NoCall) /\ \A b : Fits(NoCall, b)
  /\ \A why \in Errors : Raised(why) \in Calls /\ Shape(Raised(why))
                         /\ \A b : Fits(Raised(why), b)
BY NoneAssumption DEF NoCall, Raised, Errors, Calls, Shape, Fits, Awaiting, Locking, Backends

LEMMA TypeInit == Init => TypeInv
<1> SUFFICES ASSUME Init PROVE TypeInv
  OBVIOUS
<1>3. store \in [Backends -> [Keys -> Entries \cup {None}]]
  BY DEF Init
<1>4. restarts \in 0..MaxRestarts
  BY RestartAssumption DEF Init
<1>5. call \in [Clients -> Calls]
  BY NoCallProper DEF Init
<1>1. Types
  BY <1>3, <1>4, <1>5 DEF Init, Types
<1>2. CallInv
  BY NoCallProper DEF Init, CallInv
<1> QED
  BY <1>1, <1>2, NoneAssumption DEF Init, TypeInv, Backends

\* Every call of a state with the invariant is proper.
LEMMA CallsProper ==
  ASSUME TypeInv, NEW c \in Clients
  PROVE  Proper(call[c])
BY DEF TypeInv, Types, CallInv, Proper

\* One call goes on: the others are as they were.
LEMMA OneCall ==
  ASSUME TypeInv, NEW c \in Clients, NEW r, Proper(r), Put(c, r),
         UNCHANGED plugin_config
  PROVE  /\ call' \in [Clients -> Calls] /\ CallInv'
         /\ call'[c] = r /\ \A d \in Clients \ {c} : call'[d] = call[d]
<1>1. call \in [Clients -> Calls] /\ r \in Calls
  BY DEF TypeInv, Types, Proper
<1>2. /\ call' \in [Clients -> Calls]
      /\ call'[c] = r /\ \A d \in Clients \ {c} : call'[d] = call[d]
  BY <1>1 DEF Put
<1>3. CallInv'
  BY <1>2 DEF TypeInv, CallInv, Proper
<1> QED
  BY <1>2, <1>3

\* One call is replaced by another one, and the rest keeps its type.
LEMMA PutType ==
  ASSUME TypeInv, NEW c \in Clients, NEW r, Proper(r), Put(c, r),
         UNCHANGED <<plugin_config, restarts>>,
         store' \in [Backends -> [Keys -> Entries \cup {None}]],
         active' \in Backends \cup {None}, initialized' \in BOOLEAN,
         plugin_config.cache_backend = "redis" => active' # "local"
  PROVE  TypeInv'
<1>1. call' \in [Clients -> Calls] /\ CallInv'
  BY OneCall
<1>2. Types'
  BY <1>1 DEF TypeInv, Types
<1> QED
  BY <1>1, <1>2 DEF TypeInv

\* A call for which a backend may be chosen, and what choosing `kind` does:
\* the call is sent there, or is at the lock and the choice still stands.
Ready(r) ==
  /\ r \in Calls
  /\ r.kind \in Kinds /\ r.key \in Keys /\ (r.kind = "set" => r.entry \in Entries)
  /\ r.applied => r.target # None
  /\ r.second => r.kind = "take"

AtLock(r, place, kind) == [r EXCEPT !.pc = place, !.want = kind]

Moves(c, r, kind) ==
  \/ active' = kind /\ Put(c, Sent(r, kind))
  \/ /\ active' = active
     /\ \E place \in Locking :
          (place = "initialising" => kind = "local") /\ Put(c, AtLock(r, place, kind))

LEMMA SwitchLockedMoves ==
  ASSUME NEW c, NEW r, NEW kind, NEW others, SwitchLocked(c, r, kind, others)
  PROVE  Moves(c, r, kind)
BY DEF SwitchLocked, Moves, Locking, AtLock

LEMMA SwitchMoves ==
  ASSUME NEW c, NEW r, NEW kind, SwitchBackend(c, r, kind)
  PROVE  Moves(c, r, kind) /\ initialized' = initialized
BY SwitchLockedMoves DEF SwitchBackend, Moves, Locking, AtLock

LEMMA ResolveMoves ==
  ASSUME NEW c, NEW r, ResolveBackend(c, r)
  PROVE  /\ initialized' = initialized
         /\ \/ /\ plugin_config.cache_backend \in Backends
               /\ Moves(c, r, plugin_config.cache_backend)
            \/ /\ plugin_config.cache_backend = "auto" /\ active # None
               /\ active' = active /\ Put(c, Sent(r, active))
            \/ /\ plugin_config.cache_backend = "auto"
               /\ active' = active /\ Put(c, [r EXCEPT !.pc = "probing"])
BY SwitchMoves DEF ResolveBackend, choice

LEMMA SentProper ==
  ASSUME NEW r, Ready(r), NEW kind \in Backends
  PROVE  Proper(Sent(r, kind))
<1>1. r \in Calls
  BY DEF Ready
<1>2. Sent(r, kind) \in Calls
  BY <1>1 DEF Sent, Calls, Awaiting
<1>3. /\ Sent(r, kind).pc = "sent" /\ Sent(r, kind).target = kind /\ Sent(r, kind).want = None
      /\ Sent(r, kind).applied = FALSE /\ Sent(r, kind).second = r.second
      /\ Sent(r, kind).kind = r.kind /\ Sent(r, kind).key = r.key
      /\ Sent(r, kind).entry = r.entry
  BY <1>1 DEF Sent, Calls
<1> QED
  BY <1>2, <1>3, NoneAssumption DEF Ready, Proper, Shape, Fits, Locking, Backends

LEMMA AtLockProper ==
  ASSUME NEW r, Ready(r), NEW place \in Locking, NEW kind \in Backends,
         place = "initialising" => kind = "local",
         plugin_config.cache_backend # "auto" => kind = plugin_config.cache_backend,
         r.target # None => r.target = "redis" /\ kind = "local"
  PROVE  Proper(AtLock(r, place, kind))
<1>1. r \in Calls
  BY DEF Ready
<1>2. AtLock(r, place, kind) \in Calls
  BY <1>1 DEF AtLock, Calls, Awaiting, Locking
<1>3. /\ AtLock(r, place, kind).pc = place /\ AtLock(r, place, kind).want = kind
      /\ AtLock(r, place, kind).target = r.target /\ AtLock(r, place, kind).applied = r.applied
      /\ AtLock(r, place, kind).second = r.second /\ AtLock(r, place, kind).kind = r.kind
      /\ AtLock(r, place, kind).key = r.key /\ AtLock(r, place, kind).entry = r.entry
  BY <1>1 DEF AtLock, Calls
<1> QED
  BY <1>2, <1>3 DEF Ready, Proper, Shape, Fits, Locking

LEMMA MovesType ==
  ASSUME TypeInv, NEW c \in Clients, NEW r, Ready(r), NEW kind \in Backends,
         Moves(c, r, kind),
         plugin_config.cache_backend # "auto" => kind = plugin_config.cache_backend,
         r.target # None => r.target = "redis" /\ kind = "local",
         UNCHANGED <<plugin_config, store, restarts>>, initialized' \in BOOLEAN
  PROVE  TypeInv'
<1>1. CASE active' = kind /\ Put(c, Sent(r, kind))
  <2>1. Proper(Sent(r, kind))
    BY SentProper
  <2> QED
    BY <1>1, <2>1, PutType DEF TypeInv, Types
<1>2. CASE \E place \in Locking :
             /\ place = "initialising" => kind = "local"
             /\ active' = active /\ Put(c, AtLock(r, place, kind))
  <2>1. PICK place \in Locking :
          /\ place = "initialising" => kind = "local"
          /\ active' = active /\ Put(c, AtLock(r, place, kind))
    BY <1>2
  <2>2. Proper(AtLock(r, place, kind))
    BY <2>1, AtLockProper
  <2> QED
    BY <2>1, <2>2, PutType DEF TypeInv, Types
<1> QED
  BY <1>1, <1>2 DEF Moves

\* A call that has not been sent anywhere yet, or has come back.
LEMMA ResolveType ==
  ASSUME TypeInv, NEW c \in Clients, NEW r, Ready(r), r.target = None, r.want = None,
         ResolveBackend(c, r), UNCHANGED <<plugin_config, store, restarts>>
  PROVE  TypeInv'
<1>1. initialized' \in BOOLEAN
  BY ResolveMoves DEF TypeInv, Types
<1>2. CASE /\ plugin_config.cache_backend \in Backends
           /\ Moves(c, r, plugin_config.cache_backend)
  BY <1>1, <1>2, MovesType
<1>3. CASE /\ plugin_config.cache_backend = "auto" /\ active # None
           /\ active' = active /\ Put(c, Sent(r, active))
  <2>1. active \in Backends
    BY <1>3 DEF TypeInv, Types
  <2> QED
    BY <1>1, <1>3, <2>1, SentProper, PutType DEF TypeInv, Types
<1>4. CASE /\ plugin_config.cache_backend = "auto"
           /\ active' = active /\ Put(c, [r EXCEPT !.pc = "probing"])
  <2> DEFINE p == [r EXCEPT !.pc = "probing"]
  <2>1. r \in Calls
    BY DEF Ready
  <2>2. /\ p \in Calls /\ p.pc = "probing" /\ p.target = None /\ p.want = None
        /\ p.applied = r.applied /\ p.second = r.second
        /\ p.kind = r.kind /\ p.key = r.key /\ p.entry = r.entry
    BY <2>1 DEF Calls, Awaiting
  <2>3. Proper(p)
    BY <1>4, <2>2, NoneAssumption DEF Ready, Proper, Shape, Fits, Locking, Backends
  <2> HIDE DEF p
  <2> QED
    BY <1>1, <1>4, <2>3, PutType DEF p, TypeInv, Types
<1> QED
  BY <1>2, <1>3, <1>4, ResolveMoves

LEMMA CallReady ==
  ASSUME TypeInv, NEW c \in Clients, UnderWay(c)
  PROVE  Ready(call[c])
BY CallsProper DEF Proper, Shape, Ready, UnderWay

LEMMA CallType ==
  ASSUME TypeInv, NEW c \in Clients, NEW kind \in Kinds, NEW k \in Keys,
         NEW e \in Entries \cup {None}, Call(c, kind, k, e)
  PROVE  TypeInv'
<1> DEFINE r == [NoCall EXCEPT !.kind = kind, !.key = k, !.entry = e]
<1>1. /\ r \in Calls /\ r.kind = kind /\ r.key = k /\ r.entry = e /\ r.target = None
      /\ r.want = None /\ r.applied = FALSE /\ r.second = FALSE
  BY NoCallProper DEF NoCall, Calls
<1>2. Ready(r)
  BY <1>1 DEF Call, Ready
<1> HIDE DEF r
<1> QED
  BY <1>1, <1>2, ResolveType DEF Call, r

LEMMA ProbeReturnsType ==
  ASSUME TypeInv, NEW c \in Clients, ProbeReturns(c)
  PROVE  TypeInv'
<1>1. Proper(call[c]) /\ Ready(call[c])
  BY CallsProper, CallReady DEF ProbeReturns, UnderWay, Awaiting
<1>2. plugin_config.cache_backend = "auto" /\ call[c].target = None
  BY <1>1 DEF ProbeReturns, Proper, Fits, Shape, Locking
<1>3. CASE call[c].want # None /\ SwitchBackend(c, call[c], call[c].want)
  <2>1. call[c].want \in Backends
    BY <1>1, <1>3 DEF Proper, Calls
  <2>2. initialized' \in BOOLEAN /\ Moves(c, call[c], call[c].want)
    BY <1>3, SwitchMoves DEF TypeInv, Types
  <2> QED
    BY <1>1, <1>2, <2>1, <2>2, MovesType DEF ProbeReturns
<1>4. CASE Put(c, Raised("unreachable")) /\ UNCHANGED choice
  <2>1. Proper(Raised("unreachable"))
    BY NoCallProper DEF Proper, Errors
  <2> QED
    BY <1>4, <2>1, PutType DEF ProbeReturns, choice, TypeInv, Types
<1> QED
  BY <1>3, <1>4 DEF ProbeReturns

LEMMA LockAcquiredType ==
  ASSUME TypeInv, NEW c \in Clients, LockAcquired(c)
  PROVE  TypeInv'
<1>1. Proper(call[c]) /\ Ready(call[c])
  BY CallsProper, CallReady DEF LockAcquired, UnderWay, Awaiting
<1>2. /\ call[c].want \in Backends
      /\ plugin_config.cache_backend # "auto" => call[c].want = plugin_config.cache_backend
      /\ call[c].target # None => call[c].target = "redis" /\ call[c].want = "local"
  BY <1>1, NoneAssumption DEF LockAcquired, Proper, Shape, Fits, Locking
<1>3. initialized' \in BOOLEAN /\ Moves(c, call[c], call[c].want)
  BY SwitchLockedMoves DEF LockAcquired, TypeInv, Types
<1> QED
  BY <1>1, <1>2, <1>3, MovesType DEF LockAcquired

LEMMA InitializedType ==
  ASSUME TypeInv, NEW c \in Clients, Initialized(c)
  PROVE  TypeInv'
<1>1. Proper(call[c]) /\ Ready(call[c])
  BY CallsProper, CallReady DEF Initialized, UnderWay, Awaiting
<1>2. /\ call[c].want = "local" /\ call[c].want \in Backends
      /\ plugin_config.cache_backend # "auto" => call[c].want = plugin_config.cache_backend
      /\ call[c].target # None => call[c].target = "redis" /\ call[c].want = "local"
  BY <1>1, NoneAssumption DEF Initialized, Proper, Shape, Fits, Locking, Backends
<1>3. initialized' \in BOOLEAN /\ Moves(c, call[c], call[c].want)
  BY DEF Initialized, Moves
<1> QED
  BY <1>1, <1>2, <1>3, MovesType DEF Initialized

\* get_and_delete before its delete.
Halfway(r) == [r EXCEPT !.second = TRUE, !.applied = FALSE, !.target = None]

LEMMA HalfwayReady ==
  ASSUME TypeInv, NEW c \in Clients, call[c].pc = "sent", call[c].kind = "take"
  PROVE  /\ Ready(Halfway(call[c]))
         /\ Halfway(call[c]).target = None /\ Halfway(call[c]).want = call[c].want
         /\ Halfway(call[c]).second = TRUE /\ Halfway(call[c]).applied = FALSE
         /\ Halfway(call[c]).kind = call[c].kind /\ Halfway(call[c]).key = call[c].key
         /\ Halfway(call[c]).entry = call[c].entry /\ Halfway(call[c]).res = call[c].res
<1>1. Ready(call[c]) /\ call[c] \in Calls
  BY CallReady DEF UnderWay, Awaiting, Ready
<1>2. /\ Halfway(call[c]) \in Calls
      /\ Halfway(call[c]).target = None /\ Halfway(call[c]).want = call[c].want
      /\ Halfway(call[c]).second = TRUE /\ Halfway(call[c]).applied = FALSE
      /\ Halfway(call[c]).kind = call[c].kind /\ Halfway(call[c]).key = call[c].key
      /\ Halfway(call[c]).entry = call[c].entry /\ Halfway(call[c]).res = call[c].res
  BY <1>1 DEF Halfway, Calls
<1> QED
  BY <1>1, <1>2 DEF Ready

LEMMA ReturnedProper ==
  ASSUME TypeInv, NEW c \in Clients
  PROVE  Proper([NoCall EXCEPT !.pc = "returned", !.res = call[c].res])
<1> DEFINE r == [NoCall EXCEPT !.pc = "returned", !.res = call[c].res]
<1>1. call[c].res \in Entries \cup Errors \cup {None}
  BY CallsProper DEF Proper, Calls
<1>2. /\ r \in Calls /\ r.pc = "returned" /\ r.target = None /\ r.want = None
      /\ r.applied = FALSE /\ r.second = FALSE
  BY <1>1, NoCallProper DEF NoCall, Calls
<1> HIDE DEF r
<1>3. Proper(r)
  BY <1>2, NoneAssumption DEF Proper, Shape, Fits, Awaiting, Locking, Backends
<1> QED
  BY <1>3 DEF r

LEMMA AnsweredType ==
  ASSUME TypeInv, NEW c \in Clients, Answered(c)
  PROVE  TypeInv'
<1>1. CASE call[c].kind = "take" /\ ResolveBackend(c, Halfway(call[c]))
  <2>1. call[c].want = None
    BY CallsProper DEF Proper, Shape, Answered
  <2> QED
    BY <1>1, <2>1, HalfwayReady, ResolveType DEF Answered
<1>2. CASE /\ Put(c, [NoCall EXCEPT !.pc = "returned", !.res = call[c].res])
           /\ UNCHANGED choice
  BY <1>2, ReturnedProper, PutType DEF Answered, choice, TypeInv, Types
<1> QED
  BY <1>1, <1>2 DEF Answered, Halfway

LEMMA RedisFailsType ==
  ASSUME TypeInv, NEW c \in Clients, RedisFails(c)
  PROVE  TypeInv'
<1>1. Ready(call[c])
  BY CallReady DEF RedisFails, UnderWay, Awaiting
<1>2. CASE CanFallbackToLocal(c) /\ SwitchBackend(c, call[c], "local")
  <2>1. initialized' \in BOOLEAN /\ Moves(c, call[c], "local")
    BY <1>2, SwitchMoves DEF TypeInv, Types
  <2>2. plugin_config.cache_backend = "auto" /\ call[c].target = "redis"
    BY <1>2 DEF CanFallbackToLocal
  <2> QED
    BY <1>1, <2>1, <2>2, MovesType DEF RedisFails, Backends
<1>3. CASE Put(c, Raised("unreachable")) /\ UNCHANGED choice
  <2>1. Proper(Raised("unreachable"))
    BY NoCallProper DEF Proper, Errors
  <2> QED
    BY <1>3, <2>1, PutType DEF RedisFails, choice, TypeInv, Types
<1> QED
  BY <1>2, <1>3 DEF RedisFails

LEMMA ProbeAnswersType ==
  ASSUME TypeInv, NEW c \in Clients, ProbeAnswers(c)
  PROVE  TypeInv'
<1>1. Proper(call[c]) /\ call[c] \in Calls /\ call[c].pc = "probing"
  BY CallsProper DEF ProbeAnswers, Proper
<1>2. PICK w \in Backends \cup {None} : Put(c, [call[c] EXCEPT !.pc = "probed", !.want = w])
  BY DEF ProbeAnswers, Backends
<1> DEFINE r == [call[c] EXCEPT !.pc = "probed", !.want = w]
<1>3. /\ r \in Calls /\ r.pc = "probed" /\ r.want = w
      /\ r.target = call[c].target /\ r.applied = call[c].applied
      /\ r.second = call[c].second /\ r.kind = call[c].kind /\ r.key = call[c].key
      /\ r.entry = call[c].entry
  BY <1>1 DEF Calls, Awaiting
<1> HIDE DEF r
<1>4. plugin_config.cache_backend = "auto"
  BY <1>1 DEF Proper, Fits
<1>5. Proper(r)
  BY <1>1, <1>3, <1>4 DEF Proper, Shape, Fits, Awaiting, Locking
<1> QED
  BY <1>2, <1>5, PutType DEF r, ProbeAnswers, choice, TypeInv, Types

LEMMA RedisRejectsType ==
  ASSUME TypeInv, NEW c \in Clients, RedisRejects(c)
  PROVE  TypeInv'
<1>1. Proper(Raised("rejected"))
  BY NoCallProper DEF Proper, Errors
<1> QED
  BY <1>1, PutType DEF RedisRejects, choice, TypeInv, Types

\* What carrying out a proper call makes of the contents of a store.
LEMMA CarriedType ==
  ASSUME NEW r, Ready(r), NEW contents \in [Keys -> Entries \cup {None}]
  PROVE  Carried(r, contents) \in [Keys -> Entries \cup {None}]
BY DEF Carried, Ready

LEMMA CarryOutType ==
  ASSUME TypeInv, NEW c \in Clients, CarryOut(c)
  PROVE  TypeInv'
<1> DEFINE r == call[c]
           read == IF Reads(r) THEN store[r.target][r.key] ELSE r.res
           new == [r EXCEPT !.applied = TRUE, !.res = read]
<1>1. Proper(r) /\ Ready(r) /\ r \in Calls /\ r.pc = "sent" /\ r.target \in Backends
  BY CallsProper, CallReady DEF CarryOut, UnderWay, Awaiting, Proper, Shape
<1>2. store \in [Backends -> [Keys -> Entries \cup {None}]]
  BY DEF TypeInv, Types
<1>3. store' \in [Backends -> [Keys -> Entries \cup {None}]]
  <2>1. Carried(r, store[r.target]) \in [Keys -> Entries \cup {None}]
    BY <1>1, <1>2, CarriedType
  <2>2. store' = [store EXCEPT ![r.target] = Carried(r, store[r.target])]
    BY DEF CarryOut
  <2> HIDE DEF r
  <2> QED
    BY <1>1, <1>2, <2>1, <2>2
<1>4. read \in Entries \cup Errors \cup {None}
  BY <1>1, <1>2 DEF Ready, Calls
<1>5. Put(c, new)
  BY DEF CarryOut
<1> HIDE DEF read
<1>6. /\ new \in Calls /\ new.pc = "sent" /\ new.want = r.want /\ new.target = r.target
      /\ new.second = r.second /\ new.kind = r.kind /\ new.key = r.key /\ new.entry = r.entry
  BY <1>1, <1>4 DEF Calls
<1> HIDE DEF new
<1>7. Proper(new)
  BY <1>1, <1>6, NoneAssumption DEF Proper, Shape, Fits, Locking
<1> QED
  BY <1>3, <1>5, <1>7, PutType DEF CarryOut, choice, TypeInv, Types

LEMMA ExpireType ==
  ASSUME TypeInv, NEW b \in Backends, NEW k \in Keys, Expire(b, k)
  PROVE  TypeInv'
<1>1. store' \in [Backends -> [Keys -> Entries \cup {None}]]
  <2>1. store \in [Backends -> [Keys -> Entries \cup {None}]]
    BY DEF TypeInv, Types
  <2>2. [store[b] EXCEPT ![k] = None] \in [Keys -> Entries \cup {None}]
    BY <2>1
  <2> QED
    BY <2>1, <2>2 DEF Expire
<1> QED
  BY <1>1 DEF Expire, choice, TypeInv, Types, CallInv

LEMMA RestartType ==
  ASSUME TypeInv, Restart
  PROVE  TypeInv'
<1>1. call' \in [Clients -> Calls] /\ CallInv'
  BY NoCallProper DEF Restart, CallInv
<1>2. restarts' \in 0..MaxRestarts
  BY RestartAssumption DEF TypeInv, Types, Restart
<1>3. Types'
  BY <1>1, <1>2 DEF TypeInv, Types, Restart
<1> QED
  BY <1>1, <1>3, NoneAssumption DEF TypeInv, Restart, Backends

LEMMA TypeStep == TypeInv /\ [Next]_vars => TypeInv'
<1> SUFFICES ASSUME TypeInv, [Next]_vars PROVE TypeInv'
  OBVIOUS
<1>1. ASSUME NEW c \in Clients, NEW kind \in Kinds, NEW k \in Keys,
             NEW e \in Entries \cup {None}, Call(c, kind, k, e)
      PROVE  TypeInv'
  BY <1>1, CallType
<1>2. ASSUME NEW c \in Clients, Continue(c) PROVE TypeInv'
  BY <1>2, ProbeReturnsType, LockAcquiredType, InitializedType, AnsweredType,
     RedisFailsType, ProbeAnswersType, RedisRejectsType, CarryOutType DEF Continue
<1>3. ASSUME NEW b \in Backends, NEW k \in Keys, Expire(b, k) PROVE TypeInv'
  BY <1>3, ExpireType
<1>4. CASE UNCHANGED vars
  BY <1>4 DEF vars, choice, TypeInv, Types, CallInv
<1> QED
  BY <1>1, <1>2, <1>3, <1>4, RestartType DEF Next

\* Every reachable state has the types of the program's variables, and each
\* call is in one of the shapes _call_backend can leave it in.
THEOREM TypeCorrect == Spec => []TypeInv
<1>1. Init => TypeInv
  BY TypeInit
<1>2. TypeInv /\ [Next]_vars => TypeInv'
  BY TypeStep
<1> QED
  BY <1>1, <1>2, PTL DEF Spec

-----------------------------------------------------------------------------
(* The lock's queue.  Five things happen to it: nothing, the lock is taken, *)
(* a call joins, the first one leaves, and the first one takes the lock.    *)

\* LockQueue in terms of the members, for a queue q and calls f.
Queued(q, f) ==
  /\ q \in Seq(Clients)
  /\ \A i, j \in 1..Len(q) : q[i] = q[j] => i = j
  /\ \A i \in 1..Len(q) : f[q[i]].pc \in Locking
  /\ \A c \in Clients : f[c].pc \in Locking => \E i \in 1..Len(q) : q[i] = c
  /\ \A i \in 1..Len(q) : f[q[i]].pc = "initialising" => i = 1

LEMMA QueuedIsLockQueue ==
  /\ LockQueue <=> Queued(queue, call)
  /\ LockQueue' <=> Queued(queue', call')
<1>1. ASSUME NEW q \in Seq(Clients), NEW f
      PROVE  {q[i] : i \in 1..Len(q)} = {c \in Clients : f[c].pc \in Locking}
             <=> /\ \A i \in 1..Len(q) : f[q[i]].pc \in Locking
                 /\ \A c \in Clients : f[c].pc \in Locking => \E i \in 1..Len(q) : q[i] = c
  <2>1. \A i \in 1..Len(q) : q[i] \in Clients
    OBVIOUS
  <2> QED
    BY <2>1, Zenon
<1>2. LockQueue <=> Queued(queue, call)
  BY <1>1, Zenon DEF LockQueue, Queued, Locking
<1>3. LockQueue' <=> Queued(queue', call')
  BY <1>1, Zenon DEF LockQueue, Queued, Locking
<1> QED
  BY <1>2, <1>3

\* One call of f is replaced by r.
With(f, c, r) == [f EXCEPT ![c] = r]

LEMMA WithIs ==
  ASSUME NEW f \in [Clients -> Calls], NEW c \in Clients, NEW r
  PROVE  With(f, c, r)[c] = r /\ \A d \in Clients \ {c} : With(f, c, r)[d] = f[d]
BY DEF With

LEMMA QueueSame ==
  ASSUME NEW q, NEW f \in [Clients -> Calls], Queued(q, f), NEW c \in Clients, NEW r,
         f[c].pc \notin Locking, r.pc \notin Locking
  PROVE  Queued(q, With(f, c, r))
<1>1. \A i \in 1..Len(q) : q[i] \in Clients \ {c}
  BY DEF Queued
<1> QED
  BY <1>1, WithIs DEF Queued

LEMMA QueueTaken ==
  ASSUME NEW f \in [Clients -> Calls], Queued(<<>>, f), NEW c \in Clients, NEW r,
         r.pc \in Locking
  PROVE  Queued(<<c>>, With(f, c, r))
<1>1. \A d \in Clients : f[d].pc \notin Locking
  BY DEF Queued
<1> QED
  BY <1>1, WithIs DEF Queued

LEMMA QueueJoined ==
  ASSUME NEW q, NEW f \in [Clients -> Calls], Queued(q, f), NEW c \in Clients, NEW r,
         f[c].pc \notin Locking, r.pc = "waiting"
  PROVE  Queued(Append(q, c), With(f, c, r))
<1> DEFINE q2 == Append(q, c)
           g == With(f, c, r)
<1>1. q \in Seq(Clients) /\ q2 \in Seq(Clients) /\ Len(q2) = Len(q) + 1
      /\ q2[Len(q) + 1] = c /\ \A i \in 1..Len(q) : q2[i] = q[i]
  BY DEF Queued
<1>2. \A i \in 1..Len(q) : q[i] \in Clients \ {c}
  BY DEF Queued
<1>3. g[c] = r /\ \A d \in Clients \ {c} : g[d] = f[d]
  BY WithIs
<1>4. \A i \in 1..Len(q2) : i \in 1..Len(q) \/ i = Len(q) + 1
  BY <1>1
<1>5. \A i, j \in 1..Len(q) : q[i] = q[j] => i = j
  BY DEF Queued
<1> HIDE DEF q2, g
<1>6. \A i, j \in 1..Len(q2) : q2[i] = q2[j] => i = j
  BY <1>1, <1>2, <1>4, <1>5
<1>7. \A i \in 1..Len(q2) : /\ g[q2[i]].pc \in Locking
                            /\ g[q2[i]].pc = "initialising" => i = 1
  BY <1>1, <1>2, <1>3, <1>4 DEF Queued, Locking
<1>8. \A d \in Clients : g[d].pc \in Locking => \E i \in 1..Len(q2) : q2[i] = d
  BY <1>1, <1>3 DEF Queued
<1>9. Queued(q2, g)
  BY <1>1, <1>6, <1>7, <1>8 DEF Queued
<1> QED
  BY <1>9 DEF q2, g

LEMMA QueueLeft ==
  ASSUME NEW q, NEW f \in [Clients -> Calls], Queued(q, f), q # <<>>,
         NEW r, r.pc \notin Locking
  PROVE  Queued(Tail(q), With(f, Head(q), r))
<1> DEFINE c == Head(q)
           q2 == Tail(q)
           g == With(f, c, r)
<1>1. q \in Seq(Clients) /\ Len(q) > 0 /\ q2 \in Seq(Clients) /\ Len(q2) = Len(q) - 1
      /\ c = q[1] /\ c \in Clients /\ \A i \in 1..Len(q2) : q2[i] = q[i + 1]
  BY DEF Queued
<1>2. \A i, j \in 1..Len(q) : q[i] = q[j] => i = j
  BY DEF Queued
<1>3. g[c] = r /\ \A d \in Clients \ {c} : g[d] = f[d]
  BY <1>1, WithIs
<1> HIDE DEF q2, g, c
<1>4. \A i \in 1..Len(q2) : i + 1 \in 1..Len(q) /\ q2[i] \in Clients \ {c}
  BY <1>1, <1>2
<1>5. \A i, j \in 1..Len(q2) : q2[i] = q2[j] => i = j
  BY <1>1, <1>2, <1>4
<1>6. \A i \in 1..Len(q2) : g[q2[i]].pc \in Locking /\ g[q2[i]].pc # "initialising"
  BY <1>1, <1>3, <1>4 DEF Queued
<1>7. ASSUME NEW d \in Clients, g[d].pc \in Locking
      PROVE  \E i \in 1..Len(q2) : q2[i] = d
  <2>1. d # c /\ f[d].pc \in Locking
    BY <1>3, <1>7
  <2>2. PICK i \in 1..Len(q) : q[i] = d
    BY <2>1 DEF Queued
  <2>3. i # 1 /\ i - 1 \in 1..Len(q2) /\ q2[i - 1] = d
    BY <1>1, <2>1, <2>2
  <2> QED
    BY <2>3
<1>8. Queued(q2, g)
  BY <1>1, <1>5, <1>6, <1>7 DEF Queued
<1> QED
  BY <1>8 DEF q2, g, c

LEMMA QueueHeld ==
  ASSUME NEW q, NEW f \in [Clients -> Calls], Queued(q, f), q # <<>>,
         NEW r, r.pc \in Locking
  PROVE  Queued(<<Head(q)>> \o Tail(q), With(f, Head(q), r))
<1> DEFINE c == Head(q)
           g == With(f, c, r)
<1>1. q \in Seq(Clients) /\ Len(q) > 0 /\ <<c>> \o Tail(q) = q /\ c = q[1] /\ c \in Clients
  BY DEF Queued
<1>2. g[c] = r /\ \A d \in Clients \ {c} : g[d] = f[d]
  BY <1>1, WithIs
<1> HIDE DEF g, c
<1>3. \A i \in 1..Len(q) : /\ g[q[i]].pc \in Locking
                           /\ g[q[i]].pc = "initialising" => i = 1
  BY <1>1, <1>2 DEF Queued
<1>4. \A d \in Clients : g[d].pc \in Locking => \E i \in 1..Len(q) : q[i] = d
  BY <1>1, <1>2 DEF Queued
<1>5. Queued(q, g)
  BY <1>1, <1>3, <1>4 DEF Queued
<1> QED
  BY <1>1, <1>5 DEF g, c

\* A call that does not wait for the lock chooses a backend.
LEMMA SwitchQueue ==
  ASSUME TypeInv, LockQueue, NEW c \in Clients, call[c].pc \notin Locking,
         NEW r \in Calls, NEW kind, SwitchBackend(c, r, kind)
  PROVE  LockQueue'
<1>1. Queued(queue, call) /\ call \in [Clients -> Calls]
  BY QueuedIsLockQueue DEF TypeInv, Types
<1>2. Sent(r, kind).pc \notin Locking
  BY DEF Sent, Calls, Locking
<1>3. \A place : [r EXCEPT !.pc = place, !.want = kind].pc = place
  BY DEF Calls
<1>4. CASE queue = <<>> /\ SwitchLocked(c, r, kind, <<>>)
  <2>1. CASE queue' = <<>> /\ Put(c, Sent(r, kind))
    BY <1>1, <1>2, <1>4, <2>1, QueueSame, QueuedIsLockQueue DEF Put, With
  <2>2. CASE /\ queue' = <<c>> \o <<>>
             /\ Put(c, [r EXCEPT !.pc = "initialising", !.want = kind])
    <3>1. queue' = <<c>>
      BY <2>2
    <3> DEFINE held == [r EXCEPT !.pc = "initialising", !.want = kind]
    <3>3. held.pc \in Locking
      BY <1>3 DEF Locking
    <3>4. Queued(<<>>, call) /\ call' = With(call, c, held)
      BY <1>1, <1>4, <2>2 DEF Put, With
    <3> HIDE DEF held
    <3>2. Queued(<<c>>, call')
      BY <1>1, <3>3, <3>4, QueueTaken
    <3> QED
      BY <3>1, <3>2, QueuedIsLockQueue
  <2> QED
    BY <1>4, <2>1, <2>2 DEF SwitchLocked
<1>5. CASE /\ queue' = Append(queue, c)
           /\ Put(c, [r EXCEPT !.pc = "waiting", !.want = kind])
  BY <1>1, <1>3, <1>5, QueueJoined, QueuedIsLockQueue DEF Put, With
<1> QED
  BY <1>4, <1>5 DEF SwitchBackend

\* A call goes on without the lock.
LEMMA PutQueue ==
  ASSUME TypeInv, LockQueue, NEW c \in Clients, call[c].pc \notin Locking,
         NEW r, r.pc \notin Locking, Put(c, r), queue' = queue
  PROVE  LockQueue'
BY QueueSame, QueuedIsLockQueue DEF Put, With, TypeInv, Types

LEMMA ResolveQueue ==
  ASSUME TypeInv, LockQueue, NEW c \in Clients, call[c].pc \notin Locking,
         NEW r \in Calls, ResolveBackend(c, r)
  PROVE  LockQueue'
<1>1. CASE SwitchBackend(c, r, plugin_config.cache_backend)
  BY <1>1, SwitchQueue
<1>2. CASE Put(c, Sent(r, active)) /\ UNCHANGED choice
  <2>1. Sent(r, active).pc \notin Locking
    BY DEF Sent, Calls, Locking
  <2> QED
    BY <1>2, <2>1, PutQueue DEF choice
<1>3. CASE Put(c, [r EXCEPT !.pc = "probing"]) /\ UNCHANGED choice
  <2>1. [r EXCEPT !.pc = "probing"].pc \notin Locking
    BY DEF Calls, Locking
  <2> QED
    BY <1>3, <2>1, PutQueue DEF choice
<1> QED
  BY <1>1, <1>2, <1>3 DEF ResolveBackend

LEMMA RaisedQueue ==
  ASSUME TypeInv, LockQueue, NEW c \in Clients, call[c].pc \notin Locking,
         NEW why, Put(c, Raised(why)), queue' = queue
  PROVE  LockQueue'
<1>1. Raised(why).pc \notin Locking
  BY DEF Raised, NoCall, Locking
<1> QED
  BY <1>1, PutQueue

LEMMA ContinueQueue ==
  ASSUME TypeInv, LockQueue, NEW c \in Clients, Continue(c)
  PROVE  LockQueue'
<1>1. /\ Queued(queue, call) /\ call \in [Clients -> Calls] /\ call[c] \in Calls
  BY QueuedIsLockQueue DEF TypeInv, Types
<1>2. ASSUME ProbeReturns(c) PROVE LockQueue'
  BY <1>1, <1>2, SwitchQueue, RaisedQueue DEF ProbeReturns, Locking, choice
<1>3. ASSUME LockAcquired(c) PROVE LockQueue'
  <2>1. queue # <<>> /\ Head(queue) = c
    BY <1>3 DEF LockAcquired
  <2>2. CASE queue' = Tail(queue) /\ Put(c, Sent(call[c], call[c].want))
    <3>1. Sent(call[c], call[c].want).pc \notin Locking
      BY <1>1 DEF Sent, Calls, Locking
    <3> QED
      BY <1>1, <2>1, <2>2, <3>1, QueueLeft, QueuedIsLockQueue DEF Put, With
  <2>3. CASE /\ queue' = <<c>> \o Tail(queue)
             /\ Put(c, [call[c] EXCEPT !.pc = "initialising", !.want = call[c].want])
    <3>1. [call[c] EXCEPT !.pc = "initialising", !.want = call[c].want].pc \in Locking
      BY <1>1 DEF Calls, Locking
    <3> QED
      BY <1>1, <2>1, <2>3, <3>1, QueueHeld, QueuedIsLockQueue DEF Put, With
  <2> QED
    BY <1>3, <2>2, <2>3 DEF LockAcquired, SwitchLocked
<1>4. ASSUME Initialized(c) PROVE LockQueue'
  <2>1. PICK i \in 1..Len(queue) : queue[i] = c /\ i = 1
    BY <1>1, <1>4 DEF Initialized, Queued, Locking
  <2>2. queue # <<>> /\ Head(queue) = c
    BY <1>1, <2>1 DEF Queued
  <2>3. Sent(call[c], call[c].want).pc \notin Locking
    BY <1>1 DEF Sent, Calls, Locking
  <2> QED
    BY <1>1, <1>4, <2>2, <2>3, QueueLeft, QueuedIsLockQueue DEF Initialized, Put, With
<1>5. ASSUME Answered(c) PROVE LockQueue'
  <2>1. call[c].pc \notin Locking /\ call[c].pc = "sent"
    BY <1>5 DEF Answered, Locking
  <2>2. CASE call[c].kind = "take" /\ ResolveBackend(c, Halfway(call[c]))
    BY <2>1, <2>2, HalfwayReady, ResolveQueue DEF Ready
  <2>3. CASE /\ Put(c, [NoCall EXCEPT !.pc = "returned", !.res = call[c].res])
             /\ UNCHANGED choice
    <3>1. [NoCall EXCEPT !.pc = "returned", !.res = call[c].res].pc \notin Locking
      BY DEF NoCall, Locking
    <3> QED
      BY <2>1, <2>3, <3>1, PutQueue DEF choice
  <2> QED
    BY <1>5, <2>2, <2>3 DEF Answered, Halfway
<1>6. ASSUME RedisFails(c) PROVE LockQueue'
  BY <1>1, <1>6, SwitchQueue, RaisedQueue DEF RedisFails, Locking, choice
<1>7. ASSUME ProbeAnswers(c) PROVE LockQueue'
  <2>1. \A w : [call[c] EXCEPT !.pc = "probed", !.want = w].pc \notin Locking
    BY <1>1 DEF Calls, Locking
  <2> QED
    BY <1>7, <2>1, PutQueue DEF ProbeAnswers, Locking, choice
<1>8. ASSUME RedisRejects(c) PROVE LockQueue'
  BY <1>8, RaisedQueue DEF RedisRejects, Locking, choice
<1>9. ASSUME CarryOut(c) PROVE LockQueue'
  <2>1. \A x : [call[c] EXCEPT !.applied = TRUE, !.res = x].pc = call[c].pc
    BY <1>1 DEF Calls
  <2> QED
    BY <1>9, <2>1, PutQueue DEF CarryOut, Locking, choice
<1> QED
  BY <1>2, <1>3, <1>4, <1>5, <1>6, <1>7, <1>8, <1>9 DEF Continue

LEMMA LockQueueInit == Init => LockQueue
<1> SUFFICES ASSUME Init PROVE Queued(queue, call)
  BY QueuedIsLockQueue
<1>1. queue = <<>> /\ \A c \in Clients : call[c].pc \notin Locking
  BY DEF Init, NoCall, Locking
<1> QED
  BY <1>1 DEF Queued

LEMMA LockQueueStep == TypeInv /\ LockQueue /\ [Next]_vars => LockQueue'
<1> SUFFICES ASSUME TypeInv, LockQueue, [Next]_vars PROVE LockQueue'
  OBVIOUS
<1>1. ASSUME NEW c \in Clients, NEW kind \in Kinds, NEW k \in Keys,
             NEW e \in Entries \cup {None}, Call(c, kind, k, e)
      PROVE  LockQueue'
  <2>1. [NoCall EXCEPT !.kind = kind, !.key = k, !.entry = e] \in Calls
    BY NoCallProper DEF NoCall, Calls
  <2>2. call[c].pc \notin Locking
    BY <1>1 DEF Call, UnderWay, Awaiting, Locking
  <2> QED
    BY <1>1, <2>1, <2>2, ResolveQueue DEF Call
<1>2. ASSUME NEW c \in Clients, Continue(c) PROVE LockQueue'
  BY <1>2, ContinueQueue
<1>3. CASE queue' = queue /\ call' = call
  BY <1>3, QueuedIsLockQueue
<1>4. CASE Restart
  <2>1. queue' = <<>> /\ \A c \in Clients : call'[c].pc \notin Locking
    BY <1>4 DEF Restart, NoCall, Locking
  <2> QED
    BY <2>1, QueuedIsLockQueue DEF Queued
<1> QED
  BY <1>1, <1>2, <1>3, <1>4 DEF Next, Expire, choice, vars

\* TypeOK holds for any number of clients: in particular the queue of
\* backend_lock is always that of the calls that hold or await it.
THEOREM TypeSafe == Spec => []TypeOK
<1>1. TypeInv /\ LockQueue => TypeOK
  BY DEF TypeInv, Types, TypeOK
<1>2. TypeInv /\ LockQueue /\ [Next]_vars => LockQueue'
  BY LockQueueStep
<1> QED
  BY <1>1, <1>2, TypeCorrect, LockQueueInit, PTL DEF Spec

\* FallbackAnswers is inductive once it is said of the probe as well: with the
\* fallback on, a probe that returned has found a backend.
Probed == \A c \in Clients : call[c].pc = "probed" => call[c].want # None
FallbackOn == plugin_config = [cache_backend |-> "auto", cache_fallback_enabled |-> TRUE]
FallbackInv == FallbackOn => FallbackAnswers /\ Probed

LEMMA FallbackStep == TypeInv /\ TypeInv' /\ FallbackInv /\ [Next]_vars => FallbackInv'
<1> SUFFICES ASSUME TypeInv, TypeInv', FallbackOn', FallbackInv, [Next]_vars
             PROVE  FallbackAnswers' /\ Probed'
  BY DEF FallbackInv
<1>1. FallbackOn
  BY DEF FallbackOn, Next, Call, Continue, ProbeReturns, LockAcquired, Initialized, Answered,
     RedisFails, ProbeAnswers, RedisRejects, CarryOut, Expire, Restart, vars
<1>2. FallbackAnswers /\ Probed
  BY <1>1 DEF FallbackInv
<1>3. ASSUME NEW c \in Clients, NEW r, Put(c, r),
             r.pc = "raised" => r.res # "unreachable", r.pc = "probed" => r.want # None
      PROVE  FallbackAnswers' /\ Probed'
  <2>1. \A d \in Clients : call'[d] = r \/ call'[d] = call[d]
    BY <1>3 DEF Put, TypeInv, Types
  <2>2. \A d \in Clients : /\ call'[d].pc = "raised" => call'[d].res # "unreachable"
                           /\ call'[d].pc = "probed" => call'[d].want # None
    BY <1>1, <1>2, <1>3, <2>1 DEF FallbackAnswers, FallbackOn, Probed
  <2> QED
    BY <2>2 DEF FallbackAnswers, Probed
<1>4. ASSUME NEW c \in Clients, NEW r \in Calls, NEW kind, Moves(c, r, kind)
      PROVE  FallbackAnswers' /\ Probed'
  <2>1. Sent(r, kind).pc = "sent"
    BY DEF Sent, Calls
  <2>2. \A place \in Locking : AtLock(r, place, kind).pc \notin {"raised", "probed"}
    BY DEF AtLock, Calls, Locking
  <2>3. PICK new : Put(c, new) /\ new.pc \notin {"raised", "probed"}
    BY <1>4, <2>1, <2>2 DEF Moves
  <2> QED
    BY <2>3, <1>3
<1>5. ASSUME NEW c \in Clients, NEW r \in Calls, ResolveBackend(c, r)
      PROVE  FallbackAnswers' /\ Probed'
  <2>1. Sent(r, active).pc = "sent" /\ [r EXCEPT !.pc = "probing"].pc = "probing"
    BY DEF Sent, Calls
  <2> QED
    BY <1>3, <1>4, <1>5, <2>1, ResolveMoves
<1>6. ASSUME NEW c \in Clients, Continue(c) PROVE FallbackAnswers' /\ Probed'
  <2>1. call[c] \in Calls
    BY DEF TypeInv, Types
  <2>2. CASE ProbeReturns(c)
    BY <1>2, <1>4, <2>1, <2>2, SwitchMoves DEF ProbeReturns, Probed
  <2>3. CASE LockAcquired(c)
    BY <1>4, <2>1, <2>3, SwitchLockedMoves DEF LockAcquired
  <2>4. CASE Initialized(c)
    BY <1>4, <2>1, <2>4 DEF Initialized, Moves
  <2>5. CASE Answered(c)
    <3>1. CASE call[c].kind = "take" /\ ResolveBackend(c, Halfway(call[c]))
      BY <1>5, <2>5, <3>1, HalfwayReady DEF Answered, Ready
    <3>2. CASE Put(c, [NoCall EXCEPT !.pc = "returned", !.res = call[c].res])
      <4>1. [NoCall EXCEPT !.pc = "returned", !.res = call[c].res].pc = "returned"
        BY DEF NoCall
      <4> QED
        BY <1>3, <3>2, <4>1
    <3> QED
      BY <2>5, <3>1, <3>2 DEF Answered, Halfway
  <2>6. CASE RedisFails(c)
    <3>1. CASE ~CanFallbackToLocal(c)
      BY <1>1, <2>6, <3>1 DEF RedisFails, CanFallbackToLocal, FallbackOn
    <3> QED
      BY <1>4, <2>1, <2>6, <3>1, SwitchMoves DEF RedisFails
  <2>7. CASE ProbeAnswers(c)
    <3>1. PICK w \in Backends : Put(c, [call[c] EXCEPT !.pc = "probed", !.want = w])
      BY <1>1, <2>7 DEF ProbeAnswers, FallbackOn, Backends
    <3>2. /\ [call[c] EXCEPT !.pc = "probed", !.want = w].pc = "probed"
          /\ [call[c] EXCEPT !.pc = "probed", !.want = w].want = w
      BY <2>1 DEF Calls
    <3> QED
      BY <1>3, <3>1, <3>2, NoneAssumption
  <2>8. CASE RedisRejects(c)
    <3>1. Raised("rejected").pc = "raised" /\ Raised("rejected").res = "rejected"
      BY DEF Raised, NoCall
    <3> QED
      BY <1>3, <2>8, <3>1 DEF RedisRejects
  <2>9. CASE CarryOut(c)
    <3>1. \A x : [call[c] EXCEPT !.applied = TRUE, !.res = x].pc = call[c].pc
      BY <2>1 DEF Calls
    <3> QED
      BY <1>3, <2>9, <3>1 DEF CarryOut
  <2> QED
    BY <1>6, <2>2, <2>3, <2>4, <2>5, <2>6, <2>7, <2>8, <2>9 DEF Continue
<1>7. ASSUME NEW c \in Clients, NEW kind \in Kinds, NEW k \in Keys,
             NEW e \in Entries \cup {None}, Call(c, kind, k, e)
      PROVE  FallbackAnswers' /\ Probed'
  <2>1. [NoCall EXCEPT !.kind = kind, !.key = k, !.entry = e] \in Calls
    BY NoCallProper DEF NoCall, Calls
  <2> QED
    BY <1>5, <1>7, <2>1 DEF Call
<1>8. CASE Restart
  BY <1>8 DEF Restart, NoCall, FallbackAnswers, Probed
<1>9. CASE call' = call
  BY <1>1, <1>2, <1>9 DEF FallbackAnswers, Probed, FallbackOn
<1> QED
  BY <1>6, <1>7, <1>8, <1>9 DEF Next, Expire, vars

\* With the fallback on no call ever raises because Redis is unreachable,
\* whatever other calls do to the backend meanwhile.
THEOREM FallbackAlwaysAnswers == Spec => []FallbackAnswers
<1>1. Init => FallbackInv
  BY DEF Init, NoCall, FallbackInv, FallbackAnswers, Probed
<1>2. TypeInv /\ TypeInv' /\ FallbackInv /\ [Next]_vars => FallbackInv'
  BY FallbackStep
<1>3. FallbackInv => FallbackAnswers
  BY DEF FallbackInv, FallbackAnswers, FallbackOn
<1> QED
  BY <1>1, <1>2, <1>3, TypeCorrect, PTL DEF Spec

-----------------------------------------------------------------------------
(***************************************************************************)
(* Cache implements KVStore, for any number of clients, keys and entries:   *)
(* every step of a cache in a state with the type invariant is a step of    *)
(* the store callers see, or changes nothing they see.                      *)
(***************************************************************************)

KVDone == [KV!Next]_(KV!vars)

-----------------------------------------------------------------------------
(* What callers see of a call that goes on.                                  *)

\* A request, and whether it is at the store that is not in use.
Astray(r) == r.target \notin {None, InUse}
Ongoing(r) == r.pc \in Awaiting

LEMMA RequestIs ==
  ASSUME NEW r, Ongoing(r)
  PROVE  Request(r) = [state |-> "busy", kind |-> r.kind, key |-> r.key, entry |-> r.entry,
                       stage |-> Progress(r), res |-> r.res]
BY DEF Request, Ongoing, Awaiting

\* What the EXCEPTs of KVStore make of a request that is not there yet.
Started(state, kind, key, entry) ==
  [KV!NoRequest EXCEPT !.state = state, !.kind = kind, !.key = key, !.entry = entry]
Ended(state, res) == [KV!NoRequest EXCEPT !.state = state, !.res = res]

LEMMA StartedIs ==
  ASSUME NEW state, NEW kind, NEW key, NEW entry
  PROVE  Started(state, kind, key, entry) =
           [state |-> state, kind |-> kind, key |-> key, entry |-> entry,
            stage |-> 0, res |-> None]
<1>1. PICK none, zero : /\ none = "none" /\ zero = 0
                        /\ KV!NoRequest = [state |-> none, kind |-> None, key |-> None,
                                           entry |-> None, stage |-> zero, res |-> None]
  BY DEF KV!NoRequest
<1> DEFINE n1 == [KV!NoRequest EXCEPT !.state = state]
           n2 == [n1 EXCEPT !.kind = kind]
           n3 == [n2 EXCEPT !.key = key]
<1>2. n1 = [state |-> state, kind |-> None, key |-> None, entry |-> None,
            stage |-> zero, res |-> None]
  BY <1>1
<1>3. Started(state, kind, key, entry) = [n3 EXCEPT !.entry = entry]
  BY <1>1 DEF Started
<1> HIDE DEF n1
<1>4. n2 = [state |-> state, kind |-> kind, key |-> None, entry |-> None,
            stage |-> zero, res |-> None]
  BY <1>2
<1> HIDE DEF n2
<1>5. n3 = [state |-> state, kind |-> kind, key |-> key, entry |-> None,
            stage |-> zero, res |-> None]
  BY <1>4
<1> HIDE DEF n3
<1>6. [n3 EXCEPT !.entry = entry]
        = [state |-> state, kind |-> kind, key |-> key, entry |-> entry,
           stage |-> zero, res |-> None]
  BY <1>5
<1> QED
  BY <1>1, <1>3, <1>6

LEMMA EndedIs ==
  ASSUME NEW state, NEW res
  PROVE  Ended(state, res) = [state |-> state, kind |-> None, key |-> None, entry |-> None,
                              stage |-> 0, res |-> res]
<1>1. PICK none, zero : /\ none = "none" /\ zero = 0
                        /\ KV!NoRequest = [state |-> none, kind |-> None, key |-> None,
                                           entry |-> None, stage |-> zero, res |-> None]
  BY DEF KV!NoRequest
<1> DEFINE n1 == [KV!NoRequest EXCEPT !.state = state]
<1>2. n1 = [state |-> state, kind |-> None, key |-> None, entry |-> None,
            stage |-> zero, res |-> None]
  BY <1>1
<1>3. Ended(state, res) = [n1 EXCEPT !.res = res]
  BY <1>1 DEF Ended
<1> HIDE DEF n1
<1>4. [n1 EXCEPT !.res = res] = [state |-> state, kind |-> None, key |-> None, entry |-> None,
                                 stage |-> zero, res |-> res]
  BY <1>2
<1> QED
  BY <1>1, <1>3, <1>4

LEMMA RequestsIs ==
  /\ \A c \in Clients : Requests[c] = Request(call[c])
  /\ \A c \in Clients : Requests'[c] = Request(call'[c])
  /\ DOMAIN Requests = Clients /\ DOMAIN Requests' = Clients
BY DEF Requests

\* Putting back what is there changes nothing.
LEMMA SamePut ==
  ASSUME NEW c \in Clients, Requests' = [Requests EXCEPT ![c] = Requests[c]]
  PROVE  Requests' = Requests
<1> DEFINE f == Requests
<1>1. f = [d \in Clients |-> f[d]]
  BY DEF Requests
<1> HIDE DEF f
<1>2. [f EXCEPT ![c] = f[c]] = f
  BY <1>1
<1> QED
  BY <1>2 DEF f

\* One call is replaced.
LEMMA PutSeen ==
  ASSUME TypeInv, NEW c \in Clients, NEW r, Put(c, r)
  PROVE  /\ Requests' = [Requests EXCEPT ![c] = Request(r)]
         /\ InUse' = InUse => Stray' = (Stray \ {c}) \cup (IF Astray(r) THEN {c} ELSE {})
<1>1. /\ call'[c] = r /\ \A d \in Clients \ {c} : call'[d] = call[d]
  BY DEF Put, TypeInv, Types
<1>2. Requests' = [Requests EXCEPT ![c] = Request(r)]
  BY <1>1 DEF Requests
<1>3. ASSUME InUse' = InUse
      PROVE  Stray' = (Stray \ {c}) \cup (IF Astray(r) THEN {c} ELSE {})
  BY <1>1, <1>3 DEF Stray, Astray
<1> QED
  BY <1>2, <1>3

LEMMA BusyIs ==
  ASSUME TypeInv, NEW c \in Clients
  PROVE  /\ c \in KV!Busy <=> Ongoing(call[c])
         /\ c \in Stray => Ongoing(call[c])
<1>1. Proper(call[c]) /\ call[c] \in Calls
  BY CallsProper DEF Proper
<1>2. Request(call[c]).state = "busy" <=> Ongoing(call[c])
  BY <1>1 DEF Request, Ongoing, Awaiting, Calls
<1>3. c \in Stray => Ongoing(call[c])
  BY <1>1 DEF Stray, Proper, Shape, Ongoing, Awaiting, Locking
<1> QED
  BY <1>2, <1>3 DEF KV!Busy, Requests

-----------------------------------------------------------------------------
(* The choice of a backend.  Where it stays, a call that was stray joins     *)
(* it; where it changes, the store is exchanged.                             *)

LEMMA SentSeen ==
  ASSUME NEW r \in Calls, NEW kind
  PROVE  /\ Ongoing(Sent(r, kind)) /\ Sent(r, kind).target = kind
         /\ Sent(r, kind).applied = FALSE /\ Sent(r, kind).second = r.second
         /\ Sent(r, kind).kind = r.kind /\ Sent(r, kind).key = r.key
         /\ Sent(r, kind).entry = r.entry /\ Sent(r, kind).res = r.res
BY DEF Sent, Calls, Ongoing, Awaiting

LEMMA AtLockSeen ==
  ASSUME NEW r \in Calls, NEW place \in Locking, NEW kind
  PROVE  /\ Ongoing(AtLock(r, place, kind)) /\ AtLock(r, place, kind).target = r.target
         /\ AtLock(r, place, kind).applied = r.applied
         /\ AtLock(r, place, kind).second = r.second
         /\ AtLock(r, place, kind).kind = r.kind /\ AtLock(r, place, kind).key = r.key
         /\ AtLock(r, place, kind).entry = r.entry /\ AtLock(r, place, kind).res = r.res
BY DEF AtLock, Calls, Ongoing, Awaiting, Locking

\* A request that has lost its last effect, if it had one.
LEMMA SentRequest ==
  ASSUME NEW r \in Calls, Ongoing(r), NEW kind
  PROVE  Request(Sent(r, kind)) =
           [Request(r) EXCEPT !.stage = IF r.applied /\ @ > 0 THEN @ - 1 ELSE @]
<1> DEFINE s == Sent(r, kind)
<1>1. /\ Ongoing(s) /\ s.applied = FALSE /\ s.second = r.second
      /\ s.kind = r.kind /\ s.key = r.key /\ s.entry = r.entry /\ s.res = r.res
  BY SentSeen
<1>2. r.applied \in BOOLEAN /\ r.second \in BOOLEAN
  BY DEF Calls
<1> HIDE DEF s
<1>3. Progress(s) = IF r.second THEN 1 ELSE 0
  BY <1>1 DEF Progress
<1>4. Progress(s) = IF r.applied /\ Progress(r) > 0 THEN Progress(r) - 1 ELSE Progress(r)
  <2>1. CASE r.applied
    <3>1. Progress(r) = Progress(s) + 1 /\ Progress(s) \in Nat
      BY <1>3, <2>1 DEF Progress
    <3> QED
      BY <2>1, <3>1
  <2>2. CASE ~r.applied
    BY <1>2, <1>3, <2>2 DEF Progress
  <2> QED
    BY <2>1, <2>2
<1>5. Request(r) = [state |-> "busy", kind |-> r.kind, key |-> r.key, entry |-> r.entry,
                    stage |-> Progress(r), res |-> r.res]
  BY RequestIs
<1>6. Request(s) = [state |-> "busy", kind |-> r.kind, key |-> r.key, entry |-> r.entry,
                    stage |-> Progress(s), res |-> r.res]
  BY <1>1, RequestIs
<1>7. Request(s) = [Request(r) EXCEPT !.stage = IF r.applied /\ @ > 0 THEN @ - 1 ELSE @]
  BY <1>4, <1>5, <1>6
<1> QED
  BY <1>7 DEF s

\* The request of c is as before, c is where it was or rejoins.
LEMMA Rejoins ==
  ASSUME TypeInv, NEW c \in Clients, Ongoing(call[c]), Requests' = Requests,
         UNCHANGED <<plugin_config, store>>, InUse' = InUse,
         Stray' = Stray \/ Stray' = Stray \ {c}
  PROVE  KVDone
<1>1. store[InUse]' = store[InUse]
  OBVIOUS
<1>2. CASE Stray' = Stray
  BY <1>1, <1>2 DEF KVDone, KV!vars
<1>3. CASE c \in Stray /\ Stray' = Stray \ {c}
  <2>1. c \in KV!Busy \cap Stray
    BY <1>3, BusyIs
  <2>2. Requests' \in KV!Redone(c)
    BY DEF KV!Redone
  <2>3. KV!Rejoin(c)
    BY <1>1, <1>3, <2>1, <2>2 DEF KV!Rejoin
  <2> QED
    BY <2>3 DEF KVDone, KV!Next
<1> QED
  BY <1>2, <1>3

LEMMA InUseType ==
  ASSUME TypeInv
  PROVE  InUse \in Backends /\ store[InUse] \in KV!Contents
<1>1. InUse \in Backends
  BY DEF InUse, Backends
<1> QED
  BY <1>1 DEF KV!Contents, KV!Found, TypeInv, Types

\* Another store is put in use by the call of c, whose last effect is to be
\* repeated if it had one.
LEMMA Exchanges ==
  ASSUME TypeInv, TypeInv', NEW c \in Clients, Ongoing(call[c]),
         Requests' \in KV!Redone(c), InUse' # InUse,
         \A d \in Clients \ {c} : call'[d] = call[d]
  PROVE  KVDone
<1>1. InUse' \in KV!Backends \ {InUse} /\ (store[InUse])' \in KV!Contents
  <2>1. InUse' \in Backends
    BY DEF InUse, Backends
  <2>2. store' \in [Backends -> [Keys -> Entries \cup {None}]]
    BY DEF TypeInv, Types
  <2> QED
    BY <2>1, <2>2 DEF KV!Backends, Backends, KV!Contents, KV!Found
<1>2. c \in KV!Busy
  BY BusyIs
<1>3. Stray' \in SUBSET KV!Busy
  <2>1. ASSUME NEW d \in Clients \ {c}, d \in Stray' PROVE d \in KV!Busy
    <3>1. call[d].target # None
      BY <2>1 DEF Stray
    <3>2. Ongoing(call[d])
      BY <3>1, CallsProper DEF Proper, Shape, Ongoing, Awaiting, Locking
    <3> QED
      BY <3>2, BusyIs
  <2> QED
    BY <1>2, <2>1 DEF Stray
<1>4. KV!Exchange
  BY <1>1, <1>2, <1>3 DEF KV!Exchange
<1> QED
  BY <1>4 DEF KVDone, KV!Next

\* A backend is chosen for a call: one that has just been resolved, one whose
\* attempt on Redis failed, or the second half of get_and_delete.
LEMMA MovesSeen ==
  ASSUME TypeInv, TypeInv', NEW c \in Clients, Ongoing(call[c]),
         NEW r, Ready(r), Ongoing(r), Request(r) = Request(call[c]),
         r.target = None \/ r.target = call[c].target,
         NEW kind \in Backends, Moves(c, r, kind),
         r.target # None => r.target = "redis" /\ kind = "local",
         plugin_config.cache_backend # "auto" => kind = plugin_config.cache_backend,
         UNCHANGED <<plugin_config, store>>
  PROVE  KVDone
<1> DEFINE s == Sent(r, kind)
<1>1. r \in Calls /\ (r.applied => r.target # None) /\ Requests[c] = Request(r)
  BY RequestsIs DEF Ready
<1>2. ASSUME NEW new, Put(c, new), Request(new) = Request(r), InUse' = InUse,
             new.target = r.target
      PROVE  KVDone
  <2>1. Requests' = Requests
    <3>1. Requests' = [Requests EXCEPT ![c] = Requests[c]]
      BY <1>1, <1>2, PutSeen
    <3> QED
      BY <3>1, SamePut
  <2>2. Stray' = Stray \/ Stray' = Stray \ {c}
    BY <1>2, PutSeen DEF Stray, Astray
  <2> QED
    BY <1>2, <2>1, <2>2, Rejoins
<1>3. CASE active' = active /\ \E place \in Locking : Put(c, AtLock(r, place, kind))
  <2>1. PICK place \in Locking : Put(c, AtLock(r, place, kind))
    BY <1>3
  <2>2. Request(AtLock(r, place, kind)) = Request(r)
    BY <1>1, AtLockSeen, RequestIs DEF Progress
  <2>3. InUse' = InUse
    BY <1>3 DEF InUse
  <2> QED
    BY <1>1, <1>2, <2>1, <2>2, <2>3, AtLockSeen
<1>4. CASE active' = kind /\ Put(c, s)
  <2>1. InUse' = kind
    BY <1>4 DEF InUse, TypeInv, Types, Configs, Backends
  <2>2. s.target = kind
    BY <1>1, SentSeen
  <2>3. Request(s) = [Requests[c] EXCEPT !.stage = IF r.applied /\ @ > 0 THEN @ - 1 ELSE @]
    BY <1>1, SentRequest
  <2>4. Requests' = [Requests EXCEPT ![c] = Request(s)]
    BY <1>4, PutSeen
  <2>5. Requests[c].stage \in {0, 1, 2}
    BY <1>1, RequestIs DEF Progress
  <2>6. ~r.applied => Requests' = Requests
    <3>1. ~r.applied => Request(s) = Requests[c]
      BY <1>1, <2>3, RequestIs
    <3> QED
      BY <2>4, <3>1, SamePut
  <2>7. Requests' \in KV!Redone(c)
    <3> DEFINE lost == [Requests[c] EXCEPT !.stage = IF @ > 0 THEN @ - 1 ELSE 0]
    <3>1. CASE r.applied
      <4>1. Request(s) = lost
        BY <2>3, <2>5, <3>1
      <4>2. Requests' = [Requests EXCEPT ![c] = lost]
        BY <2>4, <4>1
      <4> QED
        BY <4>2 DEF KV!Redone
    <3>2. CASE ~r.applied
      BY <2>6, <3>2 DEF KV!Redone
    <3> QED
      BY <3>1, <3>2
  <2>8. CASE InUse' # InUse
    <3>1. \A d \in Clients \ {c} : call'[d] = call[d]
      BY <1>4 DEF Put, TypeInv, Types
    <3> QED
      BY <2>7, <2>8, <3>1, Exchanges
  <2>9. CASE InUse' = InUse
    <3>1. Stray' = Stray \ {c}
      BY <1>4, <2>1, <2>2, <2>9, PutSeen DEF Astray
    <3>2. CASE ~r.applied
      BY <2>6, <2>9, <3>1, <3>2, Rejoins
    <3>3. CASE r.applied
      <4>1. c \in Stray
        BY <1>1, <2>1, <2>9, <3>3, NoneAssumption DEF Stray, Backends
      <4>2. c \in KV!Busy \cap Stray
        BY <4>1, BusyIs
      <4>3. store[InUse]' = store[InUse]
        BY <2>9
      <4>4. KV!Rejoin(c)
        BY <2>7, <2>9, <3>1, <4>2, <4>3 DEF KV!Rejoin
      <4> QED
        BY <4>4 DEF KVDone, KV!Next
    <3> QED
      BY <3>2, <3>3
  <2> QED
    BY <2>8, <2>9
<1> QED
  BY <1>3, <1>4 DEF Moves

-----------------------------------------------------------------------------
(* The actions.                                                              *)

\* A call that ends: its request is over, and it is at no store any more.
LEMMA EndSeen ==
  ASSUME TypeInv, NEW c \in Clients, NEW r, Put(c, r), r.target = None,
         UNCHANGED <<plugin_config, store>>, UNCHANGED choice
  PROVE  /\ Requests' = [Requests EXCEPT ![c] = Request(r)]
         /\ Stray' = Stray \ {c} /\ InUse' = InUse /\ store[InUse]' = store[InUse]
<1>1. InUse' = InUse
  BY DEF InUse, choice
<1> QED
  BY <1>1, PutSeen DEF Astray

LEMMA RaiseSeen ==
  ASSUME TypeInv, NEW c \in Clients, Ongoing(call[c]), NEW why, Put(c, Raised(why)),
         UNCHANGED <<plugin_config, store>>, UNCHANGED choice
  PROVE  KVDone
<1>1. /\ Raised(why).target = None
      /\ Request(Raised(why)) = [KV!NoRequest EXCEPT !.state = "raised"]
  BY DEF Raised, NoCall, Request, Progress, KV!NoRequest
<1>2. KV!Raise(c)
  BY <1>1, EndSeen, BusyIs DEF KV!Raise
<1> QED
  BY <1>2 DEF KVDone, KV!Next

LEMMA ProbeReturnsSeen ==
  ASSUME TypeInv, TypeInv', NEW c \in Clients, ProbeReturns(c)
  PROVE  KVDone
<1>1. Ongoing(call[c]) /\ Ready(call[c]) /\ Proper(call[c])
  BY CallReady, CallsProper DEF ProbeReturns, UnderWay, Ongoing, Awaiting
<1>2. CASE call[c].want # None /\ SwitchBackend(c, call[c], call[c].want)
  <2>1. /\ call[c].want \in Backends /\ call[c].target = None
        /\ plugin_config.cache_backend = "auto"
    BY <1>1, <1>2 DEF ProbeReturns, Proper, Shape, Fits, Locking, Calls
  <2> QED
    BY <1>1, <1>2, <2>1, SwitchMoves, MovesSeen DEF ProbeReturns
<1>3. CASE Put(c, Raised("unreachable")) /\ UNCHANGED choice
  BY <1>1, <1>3, RaiseSeen DEF ProbeReturns
<1> QED
  BY <1>2, <1>3 DEF ProbeReturns

LEMMA LockAcquiredSeen ==
  ASSUME TypeInv, TypeInv', NEW c \in Clients, LockAcquired(c)
  PROVE  KVDone
<1>1. Ongoing(call[c]) /\ Ready(call[c]) /\ Proper(call[c])
  BY CallReady, CallsProper DEF LockAcquired, UnderWay, Ongoing, Awaiting
<1>2. /\ call[c].want \in Backends
      /\ call[c].target # None => call[c].target = "redis" /\ call[c].want = "local"
      /\ plugin_config.cache_backend # "auto" => call[c].want = plugin_config.cache_backend
  BY <1>1, NoneAssumption DEF LockAcquired, Proper, Shape, Fits, Locking
<1>3. Moves(c, call[c], call[c].want)
  BY SwitchLockedMoves DEF LockAcquired
<1> QED
  BY <1>1, <1>2, <1>3, MovesSeen DEF LockAcquired

LEMMA InitializedSeen ==
  ASSUME TypeInv, TypeInv', NEW c \in Clients, Initialized(c)
  PROVE  KVDone
<1>1. Ongoing(call[c]) /\ Ready(call[c]) /\ Proper(call[c])
  BY CallReady, CallsProper DEF Initialized, UnderWay, Ongoing, Awaiting
<1>2. /\ call[c].want \in Backends
      /\ call[c].target # None => call[c].target = "redis" /\ call[c].want = "local"
      /\ plugin_config.cache_backend # "auto" => call[c].want = plugin_config.cache_backend
  BY <1>1, NoneAssumption DEF Initialized, Proper, Shape, Fits, Locking
<1>3. Moves(c, call[c], call[c].want)
  BY DEF Initialized, Moves
<1> QED
  BY <1>1, <1>2, <1>3, MovesSeen DEF Initialized

LEMMA RedisFailsSeen ==
  ASSUME TypeInv, TypeInv', NEW c \in Clients, RedisFails(c)
  PROVE  KVDone
<1>1. Ongoing(call[c]) /\ Ready(call[c])
  BY CallReady DEF RedisFails, UnderWay, Ongoing, Awaiting
<1>2. CASE CanFallbackToLocal(c) /\ SwitchBackend(c, call[c], "local")
  <2>1. plugin_config.cache_backend = "auto" /\ call[c].target = "redis"
    BY <1>2 DEF CanFallbackToLocal
  <2> QED
    BY <1>1, <1>2, <2>1, SwitchMoves, MovesSeen DEF RedisFails, Backends
<1>3. CASE Put(c, Raised("unreachable")) /\ UNCHANGED choice
  BY <1>1, <1>3, RaiseSeen DEF RedisFails
<1> QED
  BY <1>2, <1>3 DEF RedisFails

LEMMA RedisRejectsSeen ==
  ASSUME TypeInv, NEW c \in Clients, RedisRejects(c)
  PROVE  KVDone
<1>1. Ongoing(call[c])
  BY DEF RedisRejects, Ongoing, Awaiting
<1> QED
  BY <1>1, RaiseSeen DEF RedisRejects

\* A call goes from one await to the next and no caller sees a difference,
\* except that it may no longer be at the store that is not in use.
LEMMA QuietSeen ==
  ASSUME TypeInv, NEW c \in Clients, Ongoing(call[c]), NEW r, Put(c, r),
         Request(r) = Request(call[c]), r.target = None,
         UNCHANGED <<plugin_config, store>>, InUse' = InUse
  PROVE  KVDone
<1>1. Requests' = [Requests EXCEPT ![c] = Requests[c]] /\ Stray' = Stray \ {c}
  BY PutSeen, RequestsIs DEF Astray
<1> QED
  BY <1>1, SamePut, Rejoins

LEMMA ProbeAnswersSeen ==
  ASSUME TypeInv, NEW c \in Clients, ProbeAnswers(c)
  PROVE  KVDone
<1>1. Ongoing(call[c]) /\ Proper(call[c]) /\ call[c] \in Calls /\ call[c].target = None
  BY CallsProper DEF ProbeAnswers, Ongoing, Awaiting, Proper, Shape, Locking
<1>2. PICK w : Put(c, [call[c] EXCEPT !.pc = "probed", !.want = w])
  BY DEF ProbeAnswers
<1> DEFINE r == [call[c] EXCEPT !.pc = "probed", !.want = w]
<1>3. /\ Ongoing(r) /\ r.target = None /\ r.kind = call[c].kind /\ r.key = call[c].key
      /\ r.entry = call[c].entry /\ r.res = call[c].res
      /\ r.applied = call[c].applied /\ r.second = call[c].second
  BY <1>1 DEF Ongoing, Awaiting, Calls
<1>4. Put(c, r)
  BY <1>2
<1> HIDE DEF r
<1>5. Request(r) = Request(call[c])
  BY <1>1, <1>3, RequestIs DEF Progress
<1>6. InUse' = InUse
  BY DEF InUse, ProbeAnswers, choice
<1> QED
  BY <1>1, <1>3, <1>4, <1>5, <1>6, QuietSeen DEF ProbeAnswers

LEMMA AnsweredSeen ==
  ASSUME TypeInv, TypeInv', NEW c \in Clients, Answered(c)
  PROVE  KVDone
<1> DEFINE r == Halfway(call[c])
<1>1. /\ Ongoing(call[c]) /\ Proper(call[c]) /\ call[c] \in Calls
      /\ call[c].pc = "sent" /\ call[c].applied
  BY CallsProper DEF Answered, Ongoing, Awaiting, Proper
<1>2. CASE call[c].kind = "take" /\ ~call[c].second /\ ResolveBackend(c, r)
  <2>1. /\ Ready(r) /\ r.target = None /\ r.second = TRUE /\ r.applied = FALSE
        /\ r.kind = call[c].kind /\ r.key = call[c].key
        /\ r.entry = call[c].entry /\ r.res = call[c].res
    BY <1>1, <1>2, HalfwayReady
  <2>2. r.pc = "sent" /\ r \in Calls
    BY <1>1, <2>1 DEF Halfway, Calls, Ready
  <2> HIDE DEF r
  <2>3. Ongoing(r) /\ Progress(r) = 1 /\ Progress(call[c]) = 1
    BY <1>1, <1>2, <2>1, <2>2 DEF Ongoing, Awaiting, Progress
  <2>4. Request(r) = Request(call[c])
    BY <1>1, <2>1, <2>3, RequestIs
  <2>5. CASE /\ plugin_config.cache_backend \in Backends
             /\ Moves(c, r, plugin_config.cache_backend)
    BY <1>1, <2>1, <2>3, <2>4, <2>5, MovesSeen DEF Answered
  <2>6. CASE /\ plugin_config.cache_backend = "auto" /\ active # None
             /\ active' = active /\ Put(c, Sent(r, active))
    <3>1. active \in Backends /\ Moves(c, r, active)
      BY <2>6 DEF TypeInv, Types, Moves
    <3> QED
      BY <1>1, <2>1, <2>3, <2>4, <2>6, <3>1, MovesSeen DEF Answered
  <2>7. CASE /\ plugin_config.cache_backend = "auto"
             /\ active' = active /\ Put(c, [r EXCEPT !.pc = "probing"])
    <3> DEFINE p == [r EXCEPT !.pc = "probing"]
    <3>1. /\ Ongoing(p) /\ p.target = None /\ p.kind = r.kind /\ p.key = r.key
          /\ p.entry = r.entry /\ p.res = r.res
          /\ p.applied = r.applied /\ p.second = r.second
      BY <2>1, <2>2 DEF Ongoing, Awaiting, Calls
    <3>2. Put(c, p)
      BY <2>7
    <3> HIDE DEF p
    <3>3. Request(p) = Request(call[c])
      BY <2>3, <2>4, <3>1, RequestIs DEF Progress
    <3>4. InUse' = InUse
      BY <2>7 DEF InUse, Answered
    <3> QED
      BY <1>1, <3>1, <3>2, <3>3, <3>4, QuietSeen DEF Answered
  <2> QED
    BY <1>2, <2>5, <2>6, <2>7, ResolveMoves
<1>3. CASE /\ call[c].kind # "take" \/ call[c].second
           /\ Put(c, [NoCall EXCEPT !.pc = "returned", !.res = call[c].res])
           /\ UNCHANGED choice
  <2> DEFINE e == [NoCall EXCEPT !.pc = "returned", !.res = call[c].res]
  <2>1. e.target = None /\ Request(e) = Ended("returned", call[c].res)
    <3>1. /\ e.pc = "returned" /\ e.target = None /\ e.kind = None /\ e.key = None
          /\ e.entry = None /\ e.second = FALSE /\ e.applied = FALSE /\ e.res = call[c].res
      BY DEF NoCall
    <3> HIDE DEF e
    <3>2. Progress(e) = 0
      BY <3>1 DEF Progress
    <3>3. Request(e) = [state |-> "returned", kind |-> None, key |-> None, entry |-> None,
                        stage |-> 0, res |-> call[c].res]
      BY <3>1, <3>2 DEF Request
    <3> QED
      BY <3>1, <3>3, EndedIs
  <2>2. call[c].second => call[c].kind = "take"
    BY <1>1 DEF Proper, Shape
  <2>3. Requests[c].stage = KV!Effects(Requests[c].kind) /\ Requests[c].res = call[c].res
    BY <1>1, <1>3, <2>2, RequestIs, RequestsIs DEF Progress, KV!Effects
  <2>4. /\ Requests' = [Requests EXCEPT ![c] = Request(e)]
        /\ Stray' = Stray \ {c} /\ InUse' = InUse /\ store[InUse]' = store[InUse]
    BY <1>3, <2>1, EndSeen DEF Answered
  <2> HIDE DEF e
  <2>5. KV!Return(c)
    BY <1>1, <2>1, <2>3, <2>4, BusyIs DEF KV!Return, Ended
  <2> QED
    BY <2>5 DEF KVDone, KV!Next
<1> QED
  BY <1>2, <1>3 DEF Answered, Halfway

LEMMA CallSeen ==
  ASSUME TypeInv, TypeInv', NEW c \in Clients, NEW kind \in Kinds, NEW k \in Keys,
         NEW e \in Entries \cup {None}, Call(c, kind, k, e)
  PROVE  KVDone
<1> DEFINE r == [NoCall EXCEPT !.kind = kind, !.key = k, !.entry = e]
           q == [state |-> "busy", kind |-> kind, key |-> k, entry |-> e, stage |-> 0,
                 res |-> None]
<1>1. /\ r \in Calls /\ r.kind = kind /\ r.key = k /\ r.entry = e /\ r.target = None
      /\ r.applied = FALSE /\ r.second = FALSE /\ r.res = None
  BY NoCallProper DEF NoCall, Calls
<1>2. ResolveBackend(c, r)
  BY DEF Call
<1>3. Started("busy", kind, k, e) = q
  BY StartedIs
<1> HIDE DEF r, q
<1>4. InUse' = InUse /\ store[InUse]' = store[InUse]
  <2>1. plugin_config' = plugin_config /\ store' = store
    BY DEF Call
  <2>2. CASE /\ plugin_config.cache_backend \in Backends
             /\ Moves(c, r, plugin_config.cache_backend)
    BY <2>1, <2>2 DEF InUse, Moves, TypeInv, Backends
  <2>3. CASE active' = active
    BY <2>1, <2>3 DEF InUse
  <2> QED
    BY <1>2, <2>1, <2>2, <2>3, ResolveMoves
<1>5. ASSUME NEW new, Put(c, new), Ongoing(new), new.kind = kind, new.key = k, new.entry = e,
             new.applied = FALSE, new.second = FALSE, new.res = None,
             new.target \in {None, InUse}
      PROVE  KVDone
  <2>1. Request(new) = q
    BY <1>5, RequestIs DEF Progress, q
  <2>2. c \notin Stray /\ c \notin KV!Busy
    BY BusyIs DEF Call, UnderWay, Ongoing
  <2>3. Stray' = Stray /\ Requests' = [Requests EXCEPT ![c] = q]
    BY <1>4, <1>5, <2>1, <2>2, PutSeen DEF Astray
  <2>4. KV!Start(c, kind, k, e)
    BY <1>3, <1>4, <2>2, <2>3 DEF KV!Start, Call, Started
  <2>5. kind \in KV!Kinds
    BY DEF KV!Kinds, Kinds
  <2> QED
    BY <2>4, <2>5 DEF KVDone, KV!Next
<1>6. ASSUME NEW to \in Backends, Put(c, Sent(r, to)), to = InUse PROVE KVDone
  BY <1>1, <1>5, <1>6, SentSeen
<1>7. CASE /\ plugin_config.cache_backend \in Backends
           /\ Moves(c, r, plugin_config.cache_backend)
  <2>1. CASE \E place \in Locking : Put(c, AtLock(r, place, plugin_config.cache_backend))
    <3>1. PICK place \in Locking : Put(c, AtLock(r, place, plugin_config.cache_backend))
      BY <2>1
    <3> DEFINE new == AtLock(r, place, plugin_config.cache_backend)
    <3>2. /\ Ongoing(new) /\ new.target = None /\ new.kind = kind /\ new.key = k
          /\ new.entry = e /\ new.res = None /\ new.applied = FALSE /\ new.second = FALSE
      BY <1>1, AtLockSeen
    <3>3. Put(c, new)
      BY <3>1
    <3> HIDE DEF new
    <3> QED
      BY <1>5, <3>2, <3>3
  <2>2. CASE Put(c, Sent(r, plugin_config.cache_backend))
    <3>1. plugin_config.cache_backend = InUse
      BY <1>7 DEF InUse, TypeInv, Backends
    <3> QED
      BY <1>6, <1>7, <2>2, <3>1
  <2> QED
    BY <1>7, <2>1, <2>2 DEF Moves
<1>8. CASE /\ plugin_config.cache_backend = "auto" /\ active # None
           /\ active' = active /\ Put(c, Sent(r, active))
  <2>1. active \in Backends /\ active = InUse
    BY <1>8 DEF InUse, TypeInv, Types, Backends
  <2> QED
    BY <1>6, <1>8, <2>1
<1>9. CASE Put(c, [r EXCEPT !.pc = "probing"])
  <2> DEFINE p == [r EXCEPT !.pc = "probing"]
  <2>1. /\ Ongoing(p) /\ p.target = None /\ p.kind = kind /\ p.key = k
        /\ p.entry = e /\ p.res = None /\ p.applied = FALSE /\ p.second = FALSE
    BY <1>1 DEF Ongoing, Awaiting, Calls
  <2>2. Put(c, p)
    BY <1>9
  <2> HIDE DEF p
  <2> QED
    BY <1>5, <2>1, <2>2
<1> QED
  BY <1>2, <1>7, <1>8, <1>9, ResolveMoves

\* The stage and the result of a request move on.
Advanced(f, c, seen) == [f EXCEPT ![c].stage = @ + 1, ![c].res = seen]

LEMMA AdvancedIs ==
  ASSUME NEW f, f = [d \in Clients |-> f[d]], NEW c \in Clients,
         NEW busy, NEW kind, NEW key, NEW entry, NEW stage, NEW res, NEW seen,
         f[c] = [state |-> busy, kind |-> kind, key |-> key, entry |-> entry,
                 stage |-> stage, res |-> res]
  PROVE  Advanced(f, c, seen) =
         [f EXCEPT ![c] = [state |-> busy, kind |-> kind, key |-> key, entry |-> entry,
                           stage |-> stage + 1, res |-> seen]]
<1> DEFINE f1 == [f EXCEPT ![c].stage = @ + 1]
           q1 == [state |-> busy, kind |-> kind, key |-> key, entry |-> entry,
                  stage |-> stage + 1, res |-> res]
           q2 == [state |-> busy, kind |-> kind, key |-> key, entry |-> entry,
                  stage |-> stage + 1, res |-> seen]
<1>1. f1[c] = q1 /\ f1 = [d \in Clients |-> f1[d]] /\ \A d \in Clients \ {c} : f1[d] = f[d]
  <2>1. [f[c] EXCEPT !.stage = @ + 1] = q1
    OBVIOUS
  <2>2. f1 = [f EXCEPT ![c] = q1]
    BY <2>1
  <2> HIDE DEF q1, f1
  <2> QED
    BY <2>2
<1>2. [f EXCEPT ![c].stage = @ + 1, ![c].res = seen] = [f1 EXCEPT ![c].res = seen]
  OBVIOUS
<1> HIDE DEF f1
<1>3. [q1 EXCEPT !.res = seen] = q2
  OBVIOUS
<1>4. [f1 EXCEPT ![c].res = seen] = [f1 EXCEPT ![c] = q2]
  BY <1>1, <1>3
<1> HIDE DEF q2
<1>5. [f1 EXCEPT ![c] = q2] = [f EXCEPT ![c] = q2]
  BY <1>1
<1> QED
  BY <1>2, <1>4, <1>5 DEF q2, Advanced

\* Carried and Reads are KVStore's Effect and Reads.
LEMMA CarriedIs ==
  ASSUME NEW r, Ready(r), r.pc = "sent", ~r.applied
  PROVE  /\ \A contents : Carried(r, contents) = KV!Effect(Request(r), contents)
         /\ Reads(r) <=> KV!Reads(Request(r))
         /\ Request(r).stage < KV!Effects(Request(r).kind)
<1> DEFINE q == Request(r)
<1>1. /\ q.kind = r.kind /\ q.key = r.key /\ q.entry = r.entry
      /\ q.stage = IF r.second THEN 1 ELSE 0
  BY RequestIs DEF Ongoing, Awaiting, Progress
<1>2. r.second \in BOOLEAN /\ (r.second => r.kind = "take")
  BY DEF Ready, Calls
<1> HIDE DEF q
<1>3. ASSUME NEW contents PROVE Carried(r, contents) = KV!Effect(q, contents)
  BY <1>1, <1>2 DEF Carried, KV!Effect
<1>4. Reads(r) <=> KV!Reads(q)
  BY <1>1, <1>2 DEF Reads, KV!Reads
<1>5. q.stage < KV!Effects(q.kind)
  BY <1>1, <1>2 DEF KV!Effects
<1> QED
  BY <1>3, <1>4, <1>5 DEF q

LEMMA CarryOutSeen ==
  ASSUME TypeInv, TypeInv', NEW c \in Clients, CarryOut(c)
  PROVE  KVDone
<1> DEFINE r == call[c]
           seen == IF Reads(r) THEN store[r.target][r.key] ELSE r.res
           new == [r EXCEPT !.applied = TRUE, !.res = seen]
           q == Requests[c]
<1>1. /\ Proper(r) /\ Ready(r) /\ r \in Calls /\ Ongoing(r)
      /\ r.pc = "sent" /\ ~r.applied /\ r.target \in Backends
  BY CallsProper, CallReady DEF CarryOut, UnderWay, Ongoing, Awaiting, Proper, Shape
<1>2. store \in [Backends -> [Keys -> Entries \cup {None}]]
  BY DEF TypeInv, Types
<1>3. InUse' = InUse /\ InUse \in Backends
  BY DEF InUse, CarryOut, choice, Backends
<1>4. store' = [store EXCEPT ![r.target] = Carried(r, store[r.target])] /\ Put(c, new)
  BY DEF CarryOut
<1>5. q = Request(r)
  BY DEF Requests
<1>6. /\ \A contents : Carried(r, contents) = KV!Effect(q, contents)
      /\ Reads(r) <=> KV!Reads(q)
      /\ q.stage < KV!Effects(q.kind) /\ q.key = r.key /\ q.res = r.res
  BY <1>1, <1>5, CarriedIs, RequestIs
<1>7. Requests' = Advanced(Requests, c, seen) /\ Stray' = Stray
  <2>1. /\ Ongoing(new) /\ new.target = r.target /\ new.kind = r.kind /\ new.key = r.key
        /\ new.entry = r.entry /\ new.res = seen /\ new.applied = TRUE /\ new.second = r.second
    BY <1>1 DEF Ongoing, Awaiting, Calls
  <2> HIDE DEF new, seen, r, q
  <2>2. Progress(new) = Progress(r) + 1
    BY <1>1, <2>1 DEF Progress
  <2>3. Request(new) = [state |-> "busy", kind |-> r.kind, key |-> r.key, entry |-> r.entry,
                        stage |-> Progress(r) + 1, res |-> seen]
    BY <2>1, <2>2, RequestIs
  <2>4. q = [state |-> "busy", kind |-> r.kind, key |-> r.key, entry |-> r.entry,
             stage |-> Progress(r), res |-> r.res]
    BY <1>1, <1>5, RequestIs
  <2>5. Requests = [d \in Clients |-> Requests[d]]
    BY DEF Requests
  <2>6. Requests' = [Requests EXCEPT ![c] = Request(new)]
    BY <1>4, PutSeen
  <2>7. Advanced(Requests, c, seen) = [Requests EXCEPT ![c] = Request(new)]
    BY <2>3, <2>4, <2>5, AdvancedIs DEF q
  <2>8. Stray' = Stray
    BY <1>3, <1>4, <2>1, PutSeen DEF Stray, Astray, r
  <2> QED
    BY <2>6, <2>7, <2>8
<1>8. c \in KV!Busy /\ (c \in Stray <=> r.target # InUse)
  BY <1>1, BusyIs, NoneAssumption DEF Stray
<1>9. CASE r.target = InUse
  <2>1. (store[InUse])' = KV!Effect(q, store[InUse])
    BY <1>2, <1>3, <1>4, <1>6, <1>9
  <2>2. seen = IF KV!Reads(q) THEN store[InUse][q.key] ELSE q.res
    BY <1>6, <1>9
  <2>3. KV!Apply(c)
    BY <1>3, <1>6, <1>7, <1>8, <1>9, <2>1, <2>2 DEF KV!Apply, Advanced
  <2> QED
    BY <2>3 DEF KVDone, KV!Next
<1>10. CASE r.target # InUse
  <2>1. (store[InUse])' = store[InUse]
    BY <1>1, <1>2, <1>3, <1>4, <1>10
  <2>2. seen \in IF KV!Reads(q) THEN KV!Found ELSE {q.res}
    BY <1>1, <1>2, <1>6 DEF KV!Found, Ready
  <2>3. KV!StrayApply(c)
    BY <1>3, <1>6, <1>7, <1>8, <1>10, <2>1, <2>2 DEF KV!StrayApply, Advanced
  <2> QED
    BY <2>3 DEF KVDone, KV!Next
<1> QED
  BY <1>9, <1>10

\* Time passes: only an entry of the store in use is missed.
LEMMA ExpireSeen ==
  ASSUME TypeInv, NEW b \in Backends, NEW k \in Keys, Expire(b, k)
  PROVE  KVDone
<1>1. store \in [Backends -> [Keys -> Entries \cup {None}]]
  BY DEF TypeInv, Types
<1>2. InUse' = InUse /\ InUse \in Backends /\ Stray' = Stray /\ Requests' = Requests
  BY DEF InUse, Stray, Requests, Expire, choice, Backends
<1>3. CASE b = InUse
  <2>1. (store[InUse])' = [store[InUse] EXCEPT ![k] = None]
    BY <1>1, <1>2, <1>3 DEF Expire
  <2>2. KV!Expire(k)
    BY <1>2, <1>3, <2>1 DEF Expire, KV!Expire
  <2> QED
    BY <2>2 DEF KVDone, KV!Next
<1>4. CASE b # InUse
  <2>1. (store[InUse])' = store[InUse]
    BY <1>1, <1>2, <1>4 DEF Expire
  <2> QED
    BY <1>2, <2>1 DEF KVDone, KV!vars
<1> QED
  BY <1>3, <1>4

\* The calls of a process that has just started are no requests at any store.
LEMMA NoCallsSeen ==
  ASSUME call = [c \in Clients |-> NoCall]
  PROVE  Requests = [c \in Clients |-> KV!NoRequest] /\ Stray = {}
<1>1. Request(NoCall) = KV!NoRequest
  BY DEF Request, NoCall, Progress, KV!NoRequest
<1>2. NoCall.target = None
  BY DEF NoCall
<1> QED
  BY <1>1, <1>2 DEF Requests, Stray

LEMMA RestartSeen ==
  ASSUME TypeInv, TypeInv', Restart
  PROVE  KVDone
<1>1. Requests' = [c \in Clients |-> KV!NoRequest] /\ Stray' = {}
  <2>1. Request(NoCall) = KV!NoRequest
    BY DEF Request, NoCall, Progress, KV!NoRequest
  <2>2. NoCall.target = None
    BY DEF NoCall
  <2> QED
    BY <2>1, <2>2 DEF Requests, Stray, Restart
<1>2. InUse' \in KV!Backends /\ (store[InUse])' \in KV!Contents
  <2>1. InUse' \in Backends
    BY DEF InUse, Backends
  <2>2. store' \in [Backends -> [Keys -> Entries \cup {None}]]
    BY DEF TypeInv, Types
  <2> QED
    BY <2>1, <2>2 DEF KV!Backends, Backends, KV!Contents, KV!Found
<1>3. InUse' = InUse => (store[InUse])' = store[InUse]
  BY DEF Restart
<1>4. KV!Restart
  BY <1>1, <1>2, <1>3 DEF KV!Restart
<1> QED
  BY <1>4 DEF KVDone, KV!Next

-----------------------------------------------------------------------------
(* The theorem.                                                              *)

LEMMA InitSeen == Init => KV!Init
<1> SUFFICES ASSUME Init PROVE KV!Init
  OBVIOUS
<1>1. Requests = [c \in Clients |-> KV!NoRequest] /\ Stray = {}
  BY NoCallsSeen DEF Init
<1>2. InUse \in Backends
  BY DEF InUse, Backends
<1>3. store[InUse] = [k \in Keys |-> None]
  BY <1>2 DEF Init
<1> QED
  BY <1>1, <1>2, <1>3 DEF KV!Init, KV!Backends, Backends

LEMMA StepSeen == TypeInv /\ TypeInv' /\ [Next]_vars => KVDone
<1> SUFFICES ASSUME TypeInv, TypeInv', [Next]_vars PROVE KVDone
  OBVIOUS
<1>1. ASSUME NEW c \in Clients, NEW kind \in Kinds, NEW k \in Keys,
             NEW e \in Entries \cup {None}, Call(c, kind, k, e)
      PROVE  KVDone
  BY <1>1, CallSeen
<1>2. ASSUME NEW c \in Clients, Continue(c) PROVE KVDone
  BY <1>2, ProbeReturnsSeen, LockAcquiredSeen, InitializedSeen, AnsweredSeen, RedisFailsSeen,
     ProbeAnswersSeen, RedisRejectsSeen, CarryOutSeen DEF Continue
<1>3. ASSUME NEW b \in Backends, NEW k \in Keys, Expire(b, k) PROVE KVDone
  BY <1>3, ExpireSeen
<1>4. CASE Restart
  BY <1>4, RestartSeen
<1>5. CASE UNCHANGED vars
  <2>1. UNCHANGED <<plugin_config, active, store, call>>
    BY <1>5 DEF vars, choice
  <2> QED
    BY <2>1 DEF KVDone, KV!vars, InUse, Stray, Requests
<1> QED
  BY <1>1, <1>2, <1>3, <1>4, <1>5 DEF Next

\* The cache is the store its callers are promised, whatever Redis does and
\* whichever calls meet at the choice of the backend: every step of
\* core/cache/__init__.py is a step of KVStore or changes nothing a caller sees.
THEOREM Implements == Spec => ImplementsKVStore
<1>1. Init => KV!Init
  BY InitSeen
<1>2. TypeInv /\ TypeInv' /\ [Next]_vars => [KV!Next]_(KV!vars)
  BY StepSeen DEF KVDone
<1> QED
  BY <1>1, <1>2, TypeCorrect, PTL DEF Spec, ImplementsKVStore, KV!Spec
=============================================================================
