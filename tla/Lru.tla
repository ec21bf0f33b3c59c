-------------------------------- MODULE Lru --------------------------------
(***************************************************************************)
(* One shard of the LRU evictor (core/evict/eviction.go): callers that     *)
(* send accesses and deletes into bounded channels, the run goroutine that *)
(* handles them, and the eviction messages run sends to itself.            *)
(*                                                                         *)
(* The doubly linked list is the sequence list, head first; an entry holds *)
(* the time left until its expiry.  Keys and their hashes are one.         *)
(***************************************************************************)
EXTENDS Naturals, SequencesExt

CONSTANTS
  Hash,                      \* hash keys
  Capacity,                  \* entries of the shard
  ChCap, DelCap, EvictCap,   \* capacities of ch, delCh and evictCh
  TTLs,                      \* the lifespans that may be configured
  JitterDiv,                 \* the jitter is less than ttl / JitterDiv (10 in the code)
  MaxSends                   \* bound on the messages callers send

ASSUME LruConstants ==
  /\ Capacity \in Nat \ {0} /\ TTLs \subseteq Nat /\ JitterDiv \in Nat \ {0}
  /\ ChCap \in Nat \ {0} /\ DelCap \in Nat \ {0} /\ EvictCap \in Nat \ {0}
  /\ MaxSends \in Nat

VARIABLES
  ttl,                 \* the configured lifespan; zero disables expiry
  ch, delCh, evictCh,  \* the channels
  cache,               \* the keys of the map
  list,                \* the list of entries [hash, left]
  pc,                  \* run: "select", "blocked", "panicked" or "stopped"
  cancelled,           \* whether Stop has cancelled the context
  sent,                \* (bound) messages sent by callers
  recent,              \* (history) the keys seen so far, latest first
  age,                 \* (history) time since a key was seen, up to ttl
  owed                 \* (history) evictions whose callback has not run: [hash, reason]

vars == <<ttl, ch, delCh, evictCh, cache, list, pc, cancelled, sent, recent, age, owed>>
history == <<recent, age>>

Init ==
  /\ ttl \in TTLs
  /\ ch = << >> /\ delCh = << >> /\ evictCh = << >>
  /\ cache = {} /\ list = << >>
  /\ pc = "select" /\ cancelled = FALSE
  /\ sent = 0 /\ recent = << >> /\ age = [h \in Hash |-> ttl] /\ owed = {}

-----------------------------------------------------------------------------
(* Callers.  The coin, shouldSample and the full channel only decide       *)
(* whether a message is dropped; other callers may send between the check  *)
(* and the send, so the message may arrive at any fill level.              *)

Publish(h) ==
  /\ pc # "panicked" /\ sent < MaxSends /\ Len(ch) < ChCap
  /\ ch' = Append(ch, h)
  /\ sent' = sent + 1
  /\ UNCHANGED <<ttl, delCh, evictCh, cache, list, pc, cancelled, history, owed>>

PublishDelete(h) ==
  /\ pc # "panicked" /\ sent < MaxSends /\ Len(delCh) < DelCap
  /\ delCh' = Append(delCh, h)
  /\ sent' = sent + 1
  /\ UNCHANGED <<ttl, ch, evictCh, cache, list, pc, cancelled, history, owed>>

\* Stop, up to its wait for run.
Stop ==
  /\ pc # "panicked" /\ ~cancelled
  /\ cancelled' = TRUE
  /\ UNCHANGED <<ttl, ch, delCh, evictCh, cache, list, pc, sent, history, owed>>

-----------------------------------------------------------------------------
(* The run goroutine: one action per case of its select.                   *)

\* remove
Without(h) == SelectSeq(list, LAMBDA e : e.hash # h)

\* rand.Int64N(ttl / 10), which panics when there is nothing to choose from.
Jitter == 0 .. (ttl \div JitterDiv) - 1

\* The entry seen puts at the front, with one of the expiries it may draw.
Fresh(h) == {[hash |-> h, left |-> ttl + j] : j \in Jitter}

\* Mutation: a hit keeps the old expiry.
HitStale(h, e) == <<list[CHOOSE i \in DOMAIN list : list[i].hash = h]>> \o Without(h)

\* Mutation: the entry is not unlinked before it is pushed to the front.
HitTwice(h, e) == <<e>> \o list

\* seen on a key the cache holds.
Hit(h, e) == <<e>> \o Without(h)

\* Mutation: the head goes instead of the tail.
VictimNewest == list[1]

\* The entry evictOldest removes.
Victim == Last(list)

\* Mutation: the send does not block, as the one of evictExpired.
NeverBlocks == TRUE

\* The blocking send of evictOldest goes through.
Sends == Len(evictCh) < EvictCap

Message(e, reason) == [hash |-> e.hash, reason |-> reason]

\* The channel after messages ms are offered to it, in their order.
Offer(ms) == SubSeq(evictCh \o ms, 1, Min({EvictCap, Len(evictCh) + Len(ms)}))

\* What seen leaves in history.
Saw(h) ==
  /\ recent' = <<h>> \o Remove(recent, h)
  /\ age' = [age EXCEPT ![h] = 0]

\* case msg := <-s.ch: seen.  Nothing but run receives from evictCh, so that a
\* send that finds it full blocks run for good, with the lock held and the new
\* entry not yet inserted.
Seen ==
  LET h == Head(ch) IN
  /\ pc = "select" /\ ch # << >>
  /\ ch' = Tail(ch)
  /\ \/ /\ Jitter = {}
        /\ pc' = "panicked"
        /\ UNCHANGED <<evictCh, cache, list, history, owed>>
     \/ \E e \in Fresh(h) :
        /\ h \in cache
        /\ list' = Hit(h, e)
        /\ Saw(h)
        /\ UNCHANGED <<evictCh, cache, pc, owed>>
     \/ \E e \in Fresh(h) :
        /\ h \notin cache /\ Cardinality(cache) < Capacity
        /\ list' = <<e>> \o list
        /\ cache' = cache \cup {h}
        /\ Saw(h)
        /\ UNCHANGED <<evictCh, pc, owed>>
     \/ \E e \in Fresh(h) :
        /\ h \notin cache /\ Cardinality(cache) >= Capacity /\ Sends
        /\ evictCh' = Offer(<<Message(Victim, "cap")>>)
        /\ list' = <<e>> \o Without(Victim.hash)
        /\ cache' = (cache \ {Victim.hash}) \cup {h}
        /\ owed' = owed \cup {Message(Victim, "cap")}
        /\ Saw(h)
        /\ UNCHANGED pc
     \/ /\ Jitter # {}
        /\ h \notin cache /\ Cardinality(cache) >= Capacity /\ ~Sends
        /\ pc' = "blocked"
        /\ list' = Without(Victim.hash)
        /\ cache' = cache \ {Victim.hash}
        /\ owed' = owed \cup {Message(Victim, "cap")}
        /\ UNCHANGED <<evictCh, history>>
  /\ UNCHANGED <<ttl, delCh, cancelled, sent>>

\* case hKey := <-s.delCh: delete.
Delete ==
  /\ pc = "select" /\ delCh # << >>
  /\ delCh' = Tail(delCh)
  /\ list' = Without(Head(delCh))
  /\ cache' = cache \ {Head(delCh)}
  /\ UNCHANGED <<ttl, ch, evictCh, pc, cancelled, sent, history, owed>>

\* case msg := <-s.evictCh: the callback, engine.Evict.
OnEvict ==
  /\ pc = "select" /\ evictCh # << >>
  /\ evictCh' = Tail(evictCh)
  /\ owed' = owed \ {Head(evictCh)}
  /\ UNCHANGED <<ttl, ch, delCh, cache, list, pc, cancelled, sent, history>>

\* Mutation: the last entry of the list is never looked at.
ExpiredButOne == {i \in DOMAIN list : i > 1 /\ \A j \in i .. Len(list) : list[j].left = 0}

\* The entries evictExpired removes: from the tail up, as long as they are expired.
Expired == {i \in DOMAIN list : \A j \in i .. Len(list) : list[j].left = 0}

\* case <-tickerC: evictExpired.  Its sends do not block: messages that find the
\* channel full are dropped.
EvictExpired ==
  LET n == Cardinality(Expired)
      gone == Reverse(SubSeq(list, Len(list) - n + 1, Len(list))) IN
  /\ pc = "select" /\ ttl > 0 /\ n > 0
  /\ list' = SubSeq(list, 1, Len(list) - n)
  /\ cache' = cache \ {gone[i].hash : i \in 1 .. n}
  /\ evictCh' = Offer([i \in 1 .. n |-> Message(gone[i], "ttl")])
  /\ owed' = owed \cup {Message(gone[i], "ttl") : i \in 1 .. n}
  /\ UNCHANGED <<ttl, ch, delCh, pc, cancelled, sent, history>>

\* Mutation: the context is looked at when the ticker fires.
ExitOnTick ==
  /\ pc = "select" /\ cancelled /\ ttl > 0
  /\ pc' = "stopped"
  /\ UNCHANGED <<ttl, ch, delCh, evictCh, cache, list, cancelled, sent, history, owed>>

\* case <-s.ctx.Done().
Exit ==
  /\ pc = "select" /\ cancelled
  /\ pc' = "stopped"
  /\ UNCHANGED <<ttl, ch, delCh, evictCh, cache, list, cancelled, sent, history, owed>>

Elapse ==
  /\ \E i \in DOMAIN list : list[i].left > 0
  /\ list' = [i \in DOMAIN list |-> [list[i] EXCEPT !.left = IF @ > 0 THEN @ - 1 ELSE 0]]
  /\ age' = [h \in Hash |-> IF age[h] < ttl THEN age[h] + 1 ELSE ttl]
  /\ UNCHANGED <<ttl, ch, delCh, evictCh, cache, pc, cancelled, sent, recent, owed>>

Next ==
  \/ \E h \in Hash : Publish(h)
  \/ \E h \in Hash : PublishDelete(h)
  \/ Stop
  \/ Seen
  \/ Delete
  \/ OnEvict
  \/ EvictExpired
  \/ Exit
  \/ Elapse

Spec == Init /\ [][Next]_vars

\* run goes on, its select is fair to every case that stays ready, and time passes.
FairSpec ==
  /\ Spec
  /\ WF_vars(Seen) /\ WF_vars(Delete) /\ WF_vars(OnEvict) /\ WF_vars(EvictExpired)
  /\ WF_vars(Exit) /\ WF_vars(Elapse)

-----------------------------------------------------------------------------
(* Properties.                                                             *)

\* Type invariant; the map and the list hold the same keys, each once, and no more
\* than the capacity.
TypeOK ==
  /\ ttl \in TTLs
  /\ ch \in Seq(Hash) /\ delCh \in Seq(Hash)
  /\ Len(ch) <= ChCap /\ Len(delCh) <= DelCap /\ Len(evictCh) <= EvictCap
  /\ ToSet(evictCh) \cup owed \subseteq [hash : Hash, reason : {"cap", "ttl"}]
  /\ \A i \in DOMAIN list : list[i].hash \in Hash /\ list[i].left \in Nat
  /\ cache = {list[i].hash : i \in DOMAIN list}
  /\ Len(list) = Cardinality(cache) /\ Len(list) <= Capacity
  /\ pc \in {"select", "blocked", "panicked", "stopped"} /\ cancelled \in BOOLEAN
  /\ sent \in 0 .. MaxSends

\* The messages a step puts into evictCh.
NewMessages == {evictCh'[i] : i \in Len(evictCh) + 1 .. Len(evictCh')}
Position(h) == CHOOSE i \in DOMAIN recent : recent[i] = h

\* Capacity takes the key that was not seen for longest, of those the cache holds
\* (evictOldest, whatever deletes and expiries came between).
VictimIsOldest ==
  [][\A m \in NewMessages : m.reason = "cap" =>
       \A h \in cache : Position(h) <= Position(m.hash)]_vars

\* Expiry is sliding: a key is not expired before its TTL has passed since it was
\* last seen.
ExpiresAfterTTL ==
  [][\A m \in NewMessages : m.reason = "ttl" => age[m.hash] >= ttl]_vars

\* The callback runs, or is about to, for every key that capacity evicts, as the
\* comment on evictOldest's blocking send demands.
CapacityNotified ==
  pc = "select" => \A m \in owed : m.reason = "cap" => m \in ToSet(evictCh)

\* A key that is not seen again is dropped from the cache in the end, and with it
\* the memory it holds.
ExpiredGone ==
  \A h \in Hash : (h \in cache) ~> (h \notin cache \/ pc # "select")

\* Stop returns, whatever is queued, unless run panicked or waits for room in evictCh,
\* which nobody else can make (StopReturns).
StopEnds == cancelled ~> (pc # "select")

\* "Stop gracefully stops the background eviction loops": run comes to its end.
StopReturns == cancelled ~> (pc = "stopped")
=============================================================================
