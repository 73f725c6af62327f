----------------------------- MODULE NonceStore -----------------------------
(***************************************************************************)
(* How the bridge recognises a request it has already accepted             *)
(* (m5stack-pc-bridge/src/auth.rs).  A request carries the time of its     *)
(* sender and a nonce of its own.  The bridge rejects a time that is too   *)
(* far from its clock, and remembers a nonce for as long as its time would *)
(* still be let in.                                                        *)
(*                                                                         *)
(* Requests are handled concurrently.  A handler reads the clock once, at  *)
(* the start, and then sweeps the store, looks at its size and inserts: the *)
(* store is a concurrent map, so other handlers run in between, for as long *)
(* as it pleases the scheduler.  The network may deliver a request again   *)
(* and late.  Requests that fail for their headers, signature or nonce     *)
(* format change nothing here and are left out, but for the sweep that a   *)
(* bad nonce may cause.                                                    *)
(***************************************************************************)
EXTENDS Integers, FiniteSets

CONSTANTS Request,     \* requests; each has its own nonce
          Timestamp,   \* what senders, whose clocks may be off, write as the time
          Handler,     \* requests that are handled at the same time
          Skew,        \* allowed_skew_seconds, also the time to remember
          Capacity,    \* NonceStore::MAX_ENTRIES
          SweepEvery,  \* the store is swept when its size is a multiple of this
          MaxTime      \* bound on the clock

ASSUME WindowAssumption == Skew \in Nat /\ Timestamp \subseteq Int

ASSUME StoreAssumption ==
    /\ Capacity \in Nat \ {0} /\ SweepEvery \in Nat \ {0} /\ MaxTime \in Nat
    /\ IsFiniteSet(Request) /\ IsFiniteSet(Handler)

VARIABLES now,       \* the bridge's clock
          time,      \* X-Timestamp of each request
          seen,      \* NonceStore.seen: its keys; the value of a key is its time
          handler,   \* step of each handler, its request and its clock
          accepted,  \* history: how often each request was let in
          early      \* history: nonces swept out by a clock from before their window

vars == <<now, time, seen, handler, accepted, early>>

Idle == [at |-> "idle"]

Busy(at) == [at : at, req : Request, clock : Int]

TypeOK ==
    /\ now \in Nat
    /\ time \in [Request -> Timestamp]
    /\ seen \subseteq Request /\ early \subseteq Request
    /\ handler \in [Handler -> {Idle} \cup Busy({"sweep", "room", "insert"})]
    /\ accepted \in [Request -> Nat]

Init ==
    /\ now = 0
    /\ time \in [Request -> Timestamp]
    /\ seen = {} /\ early = {}
    /\ handler = [h \in Handler |-> Idle]
    /\ accepted = [r \in Request |-> 0]

\* now.abs_diff(timestamp) <= ttl_seconds
Within(clock, t) == clock - t <= Skew /\ t - clock <= Skew

-----------------------------------------------------------------------------

\* verify_headers reads the clock and verify_request checks the skew.  Any
\* copy of a request may arrive at any time.
Receive(h, r) ==
    /\ handler[h] = Idle
    /\ Within(now, time[r])
    /\ handler' = [handler EXCEPT ![h] = [at |-> "sweep", req |-> r, clock |-> now]]
    /\ UNCHANGED <<now, time, seen, accepted, early>>

\* Faulty variant: a full store is swept by size alone.
MustSweepBySize == Cardinality(seen) % SweepEvery = 0

MustSweep == Cardinality(seen) % SweepEvery = 0 \/ Cardinality(seen) >= Capacity

\* Faulty variant: a nonce is forgotten a second early.
KeptTooShort(clock) == {r \in seen : clock - time[r] < Skew /\ time[r] - clock <= Skew}

\* evict_expired
Kept(clock) == {r \in seen : Within(clock, time[r])}

\* What a sweep by a handler that took its time drops, although its window
\* has still to open for that clock: evict_expired looks both ways.
NotYetOpen(clock) == {r \in seen : time[r] - clock > Skew}

Sweep(h) ==
    /\ handler[h].at = "sweep"
    /\ IF MustSweep
       THEN /\ seen' = Kept(handler[h].clock)
            /\ early' = early \cup NotYetOpen(handler[h].clock)
       ELSE UNCHANGED <<seen, early>>
    /\ handler' = [handler EXCEPT ![h].at = "room"]
    /\ UNCHANGED <<now, time, accepted>>

\* Faulty variant: off by one.
HasRoomForOneMore == Cardinality(seen) <= Capacity

HasRoom == Cardinality(seen) < Capacity

FindRoom(h) ==
    /\ handler[h].at = "room"
    /\ handler' = [handler EXCEPT ![h] = IF HasRoom THEN [@ EXCEPT !.at = "insert"] ELSE Idle]
    /\ UNCHANGED <<now, time, seen, accepted, early>>

\* DashMap::insert tells whether the nonce was new: that is the verdict.
Insert(h) ==
    /\ handler[h].at = "insert"
    /\ LET r == handler[h].req
       IN /\ seen' = seen \cup {r} /\ early' = early \ {r}
          /\ accepted' = [accepted EXCEPT ![r] = @ + (IF r \in seen THEN 0 ELSE 1)]
    /\ handler' = [handler EXCEPT ![h] = Idle]
    /\ UNCHANGED <<now, time>>

\* A handler may be as slow as it likes.
Tick ==
    /\ now < MaxTime
    /\ now' = now + 1
    /\ UNCHANGED <<time, seen, handler, accepted, early>>

\* The store is in memory only: what was let in before counts for the run of
\* the service that let it in.
Restart ==
    /\ seen' = {} /\ early' = {}
    /\ handler' = [h \in Handler |-> Idle]
    /\ accepted' = [r \in Request |-> 0]
    /\ UNCHANGED <<now, time>>

Next ==
    \/ \E h \in Handler : (\E r \in Request : Receive(h, r)) \/ Sweep(h) \/ FindRoom(h) \/ Insert(h)
    \/ Tick \/ Restart

Spec == Init /\ [][Next]_vars

-----------------------------------------------------------------------------
(* Properties.                                                             *)

(* While its time is within the allowed skew, a request that was let in is *)
(* refused (docs/security.md:54; verify_request, insert_once), however     *)
(* often and late its copies arrive and however its handlers interleave    *)
(* with the sweeps of others, whose clock may be another.  Beyond that the *)
(* code promises nothing: a handler that checked the skew in time and      *)
(* inserts when the window is over finds the nonce forgotten, and so does  *)
(* a copy of a request from the future (early) that a slow handler swept.  *)
OnceWhileAllowed ==
    [][\A r \in Request \ early :
          accepted[r] > 0 /\ accepted'[r] > accepted[r] => now > time[r] + Skew]_vars

(* The limit of the store is checked before the insert, without a lock: it *)
(* can be passed, but by no more than the other handlers.                  *)
BoundedStore == Cardinality(seen) < Capacity + Cardinality(Handler)

(* A store that is full after a sweep is full of nonces that have to be    *)
(* remembered (auth.rs:50): not even when concurrent inserts have passed   *)
(* the limit and left an odd size do expired nonces keep requests out.     *)
(* (A request can be refused beside expired ones if the last place is      *)
(* taken between its sweep and its look at the size; the next one sweeps.) *)
FullOfLiveNonces ==
    [][\A h \in Handler :
          Sweep(h) /\ Cardinality(seen') >= Capacity =>
              \A r \in seen' : Within(handler[h].clock, time[r])]_vars
=============================================================================
