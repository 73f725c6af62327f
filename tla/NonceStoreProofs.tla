-------------------------- MODULE NonceStoreProofs --------------------------
(***************************************************************************)
(* Theorems about NonceStore for every number of requests and handlers,    *)
(* every capacity, every skew and all times that senders may write.        *)
(***************************************************************************)
EXTENDS NonceStore, TLAPS, FiniteSetTheorems

-----------------------------------------------------------------------------
(* Type correctness.                                                       *)

LEMMA BusyFields ==
    ASSUME TypeOK, NEW h \in Handler, handler[h] # Idle
    PROVE  /\ handler[h].at \in {"sweep", "room", "insert"}
           /\ handler[h].req \in Request /\ handler[h].clock \in Int
           /\ handler[h] \in Busy({"sweep", "room", "insert"})
  BY DEF TypeOK, Busy

LEMMA NotIdle ==
    ASSUME NEW h \in Handler, handler[h].at # "idle"
    PROVE  handler[h] # Idle
  BY DEF Idle

LEMMA TypeInductive ==
    /\ Init => TypeOK
    /\ TypeOK /\ [Next]_vars => TypeOK'
<1> USE WindowAssumption
<1>1. Init => TypeOK
  BY DEF Init, TypeOK
<1>2. TypeOK /\ UNCHANGED vars => TypeOK'
  BY DEF TypeOK, vars
<1>4. ASSUME TypeOK, NEW h \in Handler, NEW r \in Request, Receive(h, r) PROVE TypeOK'
  BY <1>4 DEF Receive, TypeOK, Busy
<1>5. ASSUME TypeOK, NEW h \in Handler, Sweep(h) PROVE TypeOK'
  <2>1. handler[h] # Idle
    BY <1>5, NotIdle DEF Sweep
  <2>2. [handler[h] EXCEPT !.at = "room"] \in Busy({"sweep", "room", "insert"})
    BY <1>5, <2>1, BusyFields DEF Busy
  <2>3. seen' \subseteq Request /\ early' \subseteq Request
    BY <1>5 DEF Sweep, Kept, NotYetOpen, TypeOK
  <2> QED
    BY <1>5, <2>2, <2>3 DEF Sweep, TypeOK
<1>6. ASSUME TypeOK, NEW h \in Handler, FindRoom(h) PROVE TypeOK'
  <2>1. handler[h] # Idle
    BY <1>6, NotIdle DEF FindRoom
  <2>2. [handler[h] EXCEPT !.at = "insert"] \in Busy({"sweep", "room", "insert"})
    BY <1>6, <2>1, BusyFields DEF Busy
  <2> QED
    BY <1>6, <2>2 DEF FindRoom, TypeOK
<1>7. ASSUME TypeOK, NEW h \in Handler, Insert(h) PROVE TypeOK'
  <2>1. handler[h].req \in Request
    BY <1>7, NotIdle, BusyFields DEF Insert
  <2>2. accepted' \in [Request -> Nat] /\ seen' \subseteq Request /\ early' \subseteq Request
    BY <1>7, <2>1 DEF Insert, TypeOK
  <2> QED
    BY <1>7, <2>2 DEF Insert, TypeOK
<1>8. TypeOK /\ Tick => TypeOK'
  BY DEF Tick, TypeOK
<1>9. TypeOK /\ Restart => TypeOK'
  BY DEF Restart, TypeOK
<1> QED
  BY <1>1, <1>2, <1>4, <1>5, <1>6, <1>7, <1>8, <1>9 DEF Next

(* Every variable keeps to its set.                                        *)
THEOREM TypeCorrect == Spec => []TypeOK
  BY TypeInductive, PTL DEF Spec

-----------------------------------------------------------------------------
(* Once while the skew is allowed.                                         *)

\* A handler's clock is not ahead of the present.
HandlerInTime == \A h \in Handler : handler[h] # Idle => handler[h].clock <= now

\* What was let in is in the store, or its window is over, or a clock from
\* before its window has swept it.
Remembered ==
    \A r \in Request \ early : accepted[r] > 0 /\ r \notin seen => now > time[r] + Skew

OnceInv == TypeOK /\ HandlerInTime /\ Remembered

LEMMA ReceiveKeeps ==
    ASSUME OnceInv, NEW h \in Handler, NEW r \in Request, Receive(h, r)
    PROVE  HandlerInTime' /\ Remembered'
<1>1. /\ UNCHANGED <<now, time, seen, accepted, early>>
      /\ handler' = [handler EXCEPT ![h] = [at |-> "sweep", req |-> r, clock |-> now]]
  BY DEF Receive
<1>2. HandlerInTime'
  <2>1. handler'[h] = [at |-> "sweep", req |-> r, clock |-> now]
    BY <1>1 DEF OnceInv, TypeOK
  <2>2. \A k \in Handler : k # h => handler'[k] = handler[k]
    BY <1>1 DEF OnceInv, TypeOK
  <2> QED
    BY <1>1, <2>1, <2>2 DEF OnceInv, HandlerInTime, TypeOK
<1> QED
  BY <1>1, <1>2 DEF OnceInv, Remembered

(* A handler that goes on, or that ends, keeps its clock.                  *)
LEMMA StepKeepsHandlers ==
    ASSUME OnceInv, NEW h \in Handler, now' = now,
           handler[h] # Idle,
           \/ \E at \in {"room", "insert"} : handler' = [handler EXCEPT ![h].at = at]
           \/ handler' = [handler EXCEPT ![h] = Idle]
    PROVE  HandlerInTime'
<1>1. \A k \in Handler : k # h => handler'[k] = handler[k]
  BY DEF OnceInv, TypeOK
<1>2. handler'[h] = Idle \/ handler'[h].clock = handler[h].clock
  BY BusyFields DEF OnceInv, TypeOK, Busy
<1> QED
  BY <1>1, <1>2 DEF OnceInv, HandlerInTime

(* A nonce is forgotten when its window is over for a clock that is not    *)
(* ahead of the present, or when its window has not opened for that clock. *)
LEMMA SweepForgetsThePast ==
    ASSUME OnceInv, NEW h \in Handler, handler[h] # Idle,
           NEW r \in seen, r \notin Kept(handler[h].clock),
           r \notin NotYetOpen(handler[h].clock)
    PROVE  now > time[r] + Skew
<1>1. time[r] \in Int /\ now \in Nat /\ Skew \in Nat
  BY WindowAssumption DEF OnceInv, TypeOK
<1>2. handler[h].clock \in Int /\ handler[h].clock <= now
  BY BusyFields DEF OnceInv, HandlerInTime
<1>3. ~Within(handler[h].clock, time[r]) /\ ~(time[r] - handler[h].clock > Skew)
  BY DEF Kept, NotYetOpen
<1> QED
  BY <1>1, <1>2, <1>3 DEF Within

LEMMA SweepKeeps ==
    ASSUME OnceInv, NEW h \in Handler, Sweep(h) PROVE HandlerInTime' /\ Remembered'
<1>1. /\ UNCHANGED <<now, time, accepted>> /\ handler[h] # Idle
      /\ handler' = [handler EXCEPT ![h].at = "room"]
      /\ \/ UNCHANGED <<seen, early>>
         \/ /\ seen' = Kept(handler[h].clock)
            /\ early' = early \cup NotYetOpen(handler[h].clock)
  BY NotIdle DEF Sweep
<1>2. HandlerInTime'
  BY <1>1, StepKeepsHandlers
<1>3. Remembered'
  BY <1>1, SweepForgetsThePast DEF OnceInv, Remembered
<1> QED
  BY <1>2, <1>3

LEMMA FindRoomKeeps ==
    ASSUME OnceInv, NEW h \in Handler, FindRoom(h) PROVE HandlerInTime' /\ Remembered'
<1>1. UNCHANGED <<now, time, seen, accepted, early>> /\ handler[h] # Idle
  BY NotIdle DEF FindRoom
<1>2. HandlerInTime'
  BY <1>1, StepKeepsHandlers DEF FindRoom
<1> QED
  BY <1>1, <1>2 DEF OnceInv, Remembered

(* What is inserted is remembered from here on.                            *)
LEMMA InsertKeeps ==
    ASSUME OnceInv, NEW h \in Handler, Insert(h) PROVE HandlerInTime' /\ Remembered'
<1> DEFINE r == handler[h].req
<1>1. /\ UNCHANGED <<now, time>> /\ handler[h] # Idle
      /\ handler' = [handler EXCEPT ![h] = Idle]
      /\ seen' = seen \cup {r} /\ early' = early \ {r}
      /\ accepted' = [accepted EXCEPT ![r] = @ + (IF r \in seen THEN 0 ELSE 1)]
  BY NotIdle DEF Insert
<1>2. \A q \in Request : q # r => accepted'[q] = accepted[q]
  BY <1>1 DEF OnceInv, TypeOK
<1>3. Remembered'
  BY <1>1, <1>2 DEF OnceInv, Remembered
<1>4. HandlerInTime'
  BY <1>1, StepKeepsHandlers
<1> QED
  BY <1>3, <1>4

LEMMA TickKeeps ==
    ASSUME OnceInv, Tick PROVE HandlerInTime' /\ Remembered'
<1>1. /\ UNCHANGED <<time, seen, handler, accepted, early>> /\ now' = now + 1 /\ now \in Nat
  BY DEF Tick, OnceInv, TypeOK
<1>2. HandlerInTime'
  BY <1>1, BusyFields DEF OnceInv, HandlerInTime
<1>3. Remembered'
  <2>1. Skew \in Nat /\ \A r \in Request : time[r] \in Int
    BY WindowAssumption DEF OnceInv, TypeOK
  <2> SUFFICES ASSUME NEW r \in Request, now > time[r] + Skew PROVE now + 1 > time[r] + Skew
    BY <1>1 DEF OnceInv, Remembered
  <2> QED
    BY <1>1, <2>1
<1> QED
  BY <1>2, <1>3

LEMMA OnceInductive ==
    /\ Init => OnceInv
    /\ OnceInv /\ [Next]_vars => OnceInv'
<1>1. Init => OnceInv
  BY TypeInductive DEF Init, OnceInv, HandlerInTime, Remembered
<1>2. OnceInv /\ UNCHANGED vars => HandlerInTime' /\ Remembered'
  BY DEF vars, OnceInv, HandlerInTime, Remembered
<1>3. OnceInv /\ Restart => HandlerInTime' /\ Remembered'
  BY DEF OnceInv, Restart, HandlerInTime, Remembered
<1>4. OnceInv /\ Next => HandlerInTime' /\ Remembered'
  BY <1>3, ReceiveKeeps, SweepKeeps, FindRoomKeeps, InsertKeeps, TickKeeps DEF Next
<1> QED
  BY <1>1, <1>2, <1>4, TypeInductive DEF OnceInv

(* Only an insert of a nonce that is not in the store lets a request in.   *)
LEMMA OnlyInsertLetsIn ==
    ASSUME TypeOK, [Next]_vars, NEW r \in Request, accepted'[r] > accepted[r]
    PROVE  r \notin seen
<1>1. ASSUME NEW h \in Handler, Insert(h) PROVE r \notin seen
  <2>1. accepted'[r] = IF r = handler[h].req
                       THEN accepted[r] + (IF r \in seen THEN 0 ELSE 1) ELSE accepted[r]
    BY <1>1 DEF Insert, TypeOK
  <2> QED
    BY <2>1 DEF TypeOK
<1>2. accepted' = accepted => r \notin seen
  BY DEF TypeOK
<1>3. Restart => r \notin seen
  BY DEF Restart, TypeOK
<1>4. ASSUME NEW h \in Handler, (\E q \in Request : Receive(h, q)) \/ Sweep(h) \/ FindRoom(h)
      PROVE  accepted' = accepted
  BY <1>4 DEF Receive, Sweep, FindRoom
<1> QED
  BY <1>1, <1>2, <1>3, <1>4 DEF Next, Tick, vars

(* While its time is within the skew no request is let in a second time in *)
(* a run of the service, whatever the number of concurrent handlers and    *)
(* however slow they are, unless a handler whose clock is from before its  *)
(* window has swept its nonce since (verify_request, insert_once,          *)
(* evict_expired).                                                         *)
THEOREM LetInOnce == Spec => OnceWhileAllowed
<1>1. OnceInv /\ [Next]_vars =>
        [\A r \in Request \ early :
            accepted[r] > 0 /\ accepted'[r] > accepted[r] => now > time[r] + Skew]_vars
  <2> SUFFICES ASSUME OnceInv, [Next]_vars, NEW r \in Request \ early,
                      accepted[r] > 0, accepted'[r] > accepted[r]
               PROVE  now > time[r] + Skew
    OBVIOUS
  <2>1. r \notin seen
    BY OnlyInsertLetsIn DEF OnceInv
  <2> QED
    BY <2>1 DEF OnceInv, Remembered
<1> QED
  BY <1>1, OnceInductive, PTL DEF Spec, OnceWhileAllowed

-----------------------------------------------------------------------------
(* The size of the store.                                                  *)

\* Handlers that have found room and not used it.
Inserting == {h \in Handler : handler[h].at = "insert"}

SizeInv ==
    TypeOK /\ Cardinality(seen) + Cardinality(Inserting) < Capacity + Cardinality(Handler)

LEMMA Sizes ==
    ASSUME TypeOK
    PROVE  /\ IsFiniteSet(seen) /\ Cardinality(seen) \in Nat
           /\ IsFiniteSet(Inserting) /\ Cardinality(Inserting) \in Nat
           /\ Cardinality(Inserting) <= Cardinality(Handler)
           /\ Cardinality(Handler) \in Nat
<1>1. seen \in SUBSET Request /\ Inserting \in SUBSET Handler
  BY DEF TypeOK, Inserting
<1> QED
  BY <1>1, FS_Subset, FS_CardinalityType, StoreAssumption

(* No step but FindRoom adds a handler that has found room, no step but    *)
(* Insert adds a nonce.                                                    *)
LEMMA ShrinkKeepsSize ==
    ASSUME SizeInv, TypeOK', seen' \subseteq seen, Inserting' \subseteq Inserting
    PROVE  SizeInv'
<1>1. Cardinality(seen') <= Cardinality(seen)
  BY Sizes, FS_Subset DEF SizeInv
<1>2. Cardinality(Inserting') <= Cardinality(Inserting)
  BY Sizes, FS_Subset DEF SizeInv
<1>3. Cardinality(seen') \in Nat /\ Cardinality(Inserting') \in Nat
  BY Sizes, FS_Subset, FS_CardinalityType DEF SizeInv
<1> QED
  BY <1>1, <1>2, <1>3, Sizes, StoreAssumption DEF SizeInv

LEMMA FindRoomKeepsSize ==
    ASSUME SizeInv, TypeOK', NEW h \in Handler, FindRoom(h) PROVE SizeInv'
<1>1. CASE HasRoom
  <2>1. Cardinality(seen') < Capacity /\ Cardinality(seen') \in Nat
    BY <1>1, Sizes DEF FindRoom, HasRoom, SizeInv
  <2>2. Inserting' \in SUBSET Handler
    BY DEF Inserting
  <2>3. Cardinality(Inserting') <= Cardinality(Handler) /\ Cardinality(Inserting') \in Nat
    BY <2>2, FS_Subset, FS_CardinalityType, StoreAssumption
  <2> QED
    BY <2>1, <2>3, Sizes, StoreAssumption DEF SizeInv
<1>2. CASE ~HasRoom
  <2>1. handler' = [handler EXCEPT ![h] = Idle] /\ seen' = seen
    BY <1>2 DEF FindRoom
  <2>2. Inserting' \subseteq Inserting
    BY <2>1 DEF Inserting, Idle, SizeInv, TypeOK
  <2> QED
    BY <2>1, <2>2, ShrinkKeepsSize
<1> QED
  BY <1>1, <1>2

LEMMA InsertKeepsSize ==
    ASSUME SizeInv, TypeOK', NEW h \in Handler, Insert(h) PROVE SizeInv'
<1>1. seen' = seen \cup {handler[h].req} /\ h \in Inserting
      /\ handler' = [handler EXCEPT ![h] = Idle]
  BY DEF Insert, Inserting
<1>2. Inserting' = Inserting \ {h}
  BY <1>1 DEF Inserting, Idle, SizeInv, TypeOK
<1>3. Cardinality(seen') <= Cardinality(seen) + 1 /\ Cardinality(seen') \in Nat
  <2>1. IsFiniteSet(seen) /\ Cardinality(seen) \in Nat
    BY Sizes DEF SizeInv
  <2>2. Cardinality(seen') = IF handler[h].req \in seen THEN Cardinality(seen)
                             ELSE Cardinality(seen) + 1
    BY <1>1, <2>1, FS_AddElement
  <2> QED
    BY <2>1, <2>2
<1>4. Cardinality(Inserting') = Cardinality(Inserting) - 1
  BY <1>1, <1>2, Sizes, FS_RemoveElement DEF SizeInv
<1> QED
  BY <1>3, <1>4, Sizes, StoreAssumption DEF SizeInv

LEMMA SizeInductive ==
    /\ Init => SizeInv
    /\ SizeInv /\ [Next]_vars => SizeInv'
<1>1. ASSUME Init PROVE SizeInv
  <2>1. TypeOK /\ seen = {} /\ Inserting = {}
    BY <1>1, TypeInductive DEF Init, Inserting, Idle
  <2> QED
    BY <2>1, Sizes, FS_EmptySet, StoreAssumption DEF SizeInv
<1>2. ASSUME SizeInv, UNCHANGED vars PROVE SizeInv'
  BY <1>2, TypeInductive, ShrinkKeepsSize DEF vars, Inserting, SizeInv
<1>3. ASSUME SizeInv, Next PROVE SizeInv'
  <2>1. TypeOK'
    BY <1>3, TypeInductive DEF SizeInv
  <2>3. ASSUME NEW h \in Handler, NEW r \in Request, Receive(h, r) PROVE SizeInv'
    BY <1>3, <2>1, <2>3, ShrinkKeepsSize DEF Receive, Inserting, SizeInv, TypeOK
  <2>4. ASSUME NEW h \in Handler, Sweep(h) PROVE SizeInv'
    <3>1. seen' \subseteq seen
      BY <2>4 DEF Sweep, Kept
    <3>2. handler'[h].at = "room" /\ \A k \in Handler : k # h => handler'[k] = handler[k]
      BY <1>3, <2>4, NotIdle, BusyFields DEF Sweep, SizeInv, TypeOK, Busy
    <3> QED
      BY <1>3, <2>1, <3>1, <3>2, ShrinkKeepsSize DEF Inserting
  <2>5. ASSUME Tick PROVE SizeInv'
    BY <1>3, <2>1, <2>5, ShrinkKeepsSize DEF Tick, Inserting
  <2>6. ASSUME Restart PROVE SizeInv'
    BY <1>3, <2>1, <2>6, ShrinkKeepsSize DEF Restart, Inserting, Idle
  <2> QED
    BY <1>3, <2>1, <2>3, <2>4, <2>5, <2>6, FindRoomKeepsSize, InsertKeepsSize DEF Next
<1> QED
  BY <1>1, <1>2, <1>3

(* The store passes its limit by no more than the handlers that run at the *)
(* same time, whatever the limit and however many they are.                *)
THEOREM StoreBounded == Spec => []BoundedStore
<1>1. SizeInv => BoundedStore
  BY Sizes, StoreAssumption DEF SizeInv, BoundedStore
<1> QED
  BY <1>1, SizeInductive, PTL DEF Spec

-----------------------------------------------------------------------------
(* What a full store is full of.                                           *)

(* A store that is still full after a handler's sweep is full of nonces    *)
(* that handler has to remember: what it does not sweep is not full, for   *)
(* whatever size concurrent inserts have left (auth.rs: a full store is    *)
(* always swept).                                                          *)
THEOREM FullOfLive == Spec => FullOfLiveNonces
<1>1. [Next]_vars =>
        [\A h \in Handler :
           Sweep(h) /\ Cardinality(seen') >= Capacity =>
               \A r \in seen' : Within(handler[h].clock, time[r])]_vars
  <2>1. ASSUME NEW h \in Handler, Sweep(h), Cardinality(seen') >= Capacity
        PROVE  \A r \in seen' : Within(handler[h].clock, time[r])
    <3>1. MustSweep
      BY <2>1 DEF Sweep, MustSweep
    <3> QED
      BY <2>1, <3>1 DEF Sweep, Kept
  <2> QED
    BY <2>1
<1> QED
  BY <1>1, PTL DEF Spec, FullOfLiveNonces

=============================================================================
