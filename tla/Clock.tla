------------------------------- MODULE Clock -------------------------------
(***************************************************************************)
(* The hybrid logical clock (core/clock/clock.go): goroutines that run Now *)
(* and Update against one atomic state word, interleaved between the read  *)
(* of the wall clock, the Load, the CompareAndSwap and the sleep of the    *)
(* overflow path.                                                          *)
(*                                                                         *)
(* A timestamp is the pair of its two bit fields, [p, l]; a negative int64 *)
(* has p < 0.  The fields make up one integer, so that timestamps compare  *)
(* as integers exactly when the pairs compare lexicographically.           *)
(***************************************************************************)
EXTENDS Integers

CONSTANTS
  Thread,        \* goroutines that call the clock
  MaxPhysical,   \* the constant maxPhysical
  LogicalMask,   \* the constant logicalMask
  Drift,         \* how far ahead of the wall clock a remote timestamp may be
  Remote,        \* timestamps other nodes send
  MaxWall,       \* bound on the wall clock
  MayStepBack,   \* whether the wall clock may be set back
  MaxCalls       \* bound on the calls made

ASSUME ClockConstants ==
  /\ MaxPhysical \in Nat \ {0} /\ LogicalMask \in Nat /\ Drift \in Nat
  /\ Remote \subseteq [p : Int, l : 0 .. LogicalMask]
  /\ \A r \in Remote : r.p <= MaxPhysical
  /\ MaxWall \in Nat /\ MaxCalls \in Nat /\ MayStepBack \in BOOLEAN

Stamp == [p : 0 .. MaxPhysical, l : 0 .. LogicalMask]
Zero == [p |-> 0, l |-> 0]
MaxInt64 == [p |-> MaxPhysical, l |-> LogicalMask]

Less(a, b) == a.p < b.p \/ (a.p = b.p /\ a.l < b.l)
Later(a, b) == IF Less(a, b) THEN b ELSE a

Idle == [pc |-> "idle", fn |-> "none", now |-> 0, remote |-> Zero, old |-> Zero, new |-> Zero]

VARIABLES
  state,    \* Clock.state
  wall,     \* time.Now().UnixMilli()
  th,       \* what each goroutine is doing, with its locals
  calls,    \* (bound) calls made so far
  issued,   \* (history) how many calls of Now have returned
  last,     \* (history) the timestamp the last of them returned
  learnt,   \* (history) the latest timestamp an Update has taken over
  peak      \* (history) the latest reading of the wall clock

vars == <<state, wall, th, calls, issued, last, learnt, peak>>
history == <<issued, last, learnt>>

max(a, b) == IF a >= b THEN a ELSE b

\* Mutation: a wall clock past the ceiling is taken as it is.
NoClamp(p) == p

clampPhysical(p) == IF p > MaxPhysical THEN MaxPhysical ELSE p

\* clampPhysical(uint64(max(time.Now().UnixMilli(), 0)))
Sample == clampPhysical(max(wall, 0))

Init ==
  /\ state = Zero
  /\ wall \in -1 .. MaxWall
  /\ th = [t \in Thread |-> Idle]
  /\ calls = 0 /\ issued = 0 /\ last = Zero /\ learnt = Zero /\ peak = 0

-----------------------------------------------------------------------------
(* The decisions of the two loops.                                         *)

\* Mutation: no ceiling.
NeverAtCeiling(old) == FALSE

AtCeiling(old) == old.p >= MaxPhysical

\* Mutation: a remote timestamp is never too far ahead.
NeverTooFar(remote, now) == FALSE

TooFar(remote, now) == remote.p > now + Drift

\* newPhysical << logicalBits | newLogical & logicalMask, for a newLogical at most
\* one past the mask.
Pack(p, l) == [p |-> p, l |-> IF l > LogicalMask THEN l - LogicalMask - 1 ELSE l]

\* Mutation: the counter may pass the mask.
NowNeverOverflows(old, now) == FALSE

\* The logical counter is exhausted and the wall clock has not advanced.
NowOverflows(old, now) == now <= old.p /\ old.l >= LogicalMask

NowNew(old, now) == IF now > old.p THEN Pack(now, 0) ELSE Pack(old.p, old.l + 1)

\* Update's physical part, and the logical part that goes with it.
Chosen(old, remote, now) == max(old.p, max(remote.p, now))

\* Mutation: at equal physical parts the remote counter is forgotten.
ExpectedLocal(old, remote, now) ==
  CASE Chosen(old, remote, now) = old.p    -> old.l + 1
    [] Chosen(old, remote, now) # old.p /\ Chosen(old, remote, now) = remote.p -> remote.l + 1
    [] OTHER                               -> 0

Expected(old, remote, now) ==
  LET p == Chosen(old, remote, now) IN
    IF p = old.p
    THEN IF p = remote.p THEN max(old.l, remote.l) + 1 ELSE old.l + 1
    ELSE IF p = remote.p THEN remote.l + 1 ELSE 0

UpdateOverflows(old, remote, now) == Expected(old, remote, now) > LogicalMask

UpdateNew(old, remote, now) ==
  Pack(Chosen(old, remote, now), Expected(old, remote, now))

-----------------------------------------------------------------------------
(* The steps of a call.  The wall clock is read when the call starts, when *)
(* a CompareAndSwap fails and after a sleep; the value is a local.         *)

Start(t, fn, remote) ==
  th' = [th EXCEPT ![t] = [pc |-> "load", fn |-> fn, now |-> Sample, remote |-> remote,
                           old |-> Zero, new |-> Zero]]

CallNow(t) ==
  /\ th[t].pc = "idle" /\ calls < MaxCalls
  /\ calls' = calls + 1
  /\ peak' = max(peak, Sample)
  /\ Start(t, "now", Zero)
  /\ UNCHANGED <<state, wall, history>>

\* Update returns at once for a negative timestamp and for one too far ahead.
CallUpdate(t, remote) ==
  /\ th[t].pc = "idle" /\ calls < MaxCalls
  /\ calls' = calls + 1
  /\ IF remote.p < 0 THEN UNCHANGED <<th, peak>>
     ELSE /\ peak' = max(peak, Sample)
          /\ IF TooFar(remote, Sample) THEN UNCHANGED th ELSE Start(t, "update", remote)
  /\ UNCHANGED <<state, wall, history>>

\* What a call that returns leaves behind; now is the result of Now.
Returns(t, now) ==
  /\ th' = [th EXCEPT ![t] = Idle]
  /\ IF th[t].fn = "now"
     THEN issued' = issued + 1 /\ last' = now /\ UNCHANGED learnt
     ELSE learnt' = Later(learnt, th[t].remote) /\ UNCHANGED <<issued, last>>

\* state.Load and the decisions made on the loaded value.
Load(t) ==
  LET c == th[t]
      overflows == IF c.fn = "now" THEN NowOverflows(state, c.now)
                                   ELSE UpdateOverflows(state, c.remote, c.now)
      new == IF c.fn = "now" THEN NowNew(state, c.now)
                             ELSE UpdateNew(state, c.remote, c.now) IN
  /\ c.pc = "load"
  /\ \/ AtCeiling(state) /\ Returns(t, MaxInt64)
     \/ /\ ~AtCeiling(state) /\ overflows
        /\ th' = [th EXCEPT ![t].pc = "sleep"]
        /\ UNCHANGED history
     \/ /\ ~AtCeiling(state) /\ ~overflows
        /\ th' = [th EXCEPT ![t].pc = "cas", ![t].old = state, ![t].new = new]
        /\ UNCHANGED history
  /\ UNCHANGED <<state, wall, calls, peak>>

Resample(t) ==
  /\ th' = [th EXCEPT ![t].pc = "load", ![t].now = Sample]
  /\ peak' = max(peak, Sample)

CompareAndSwap(t) ==
  /\ th[t].pc = "cas"
  /\ \/ /\ state = th[t].old
        /\ state' = th[t].new
        /\ Returns(t, th[t].new)
        /\ UNCHANGED peak
     \/ /\ state # th[t].old
        /\ Resample(t)
        /\ UNCHANGED <<state, history>>
  /\ UNCHANGED <<wall, calls>>

Wake(t) ==
  /\ th[t].pc = "sleep"
  /\ Resample(t)
  /\ UNCHANGED <<state, wall, calls, history>>

Tick ==
  /\ wall < MaxWall
  /\ wall' = wall + 1
  /\ UNCHANGED <<state, th, calls, history, peak>>

StepBack ==
  /\ MayStepBack /\ wall > -1
  /\ wall' = wall - 1
  /\ UNCHANGED <<state, th, calls, history, peak>>

Next ==
  \/ \E t \in Thread : CallNow(t)
  \/ \E t \in Thread : \E r \in Remote : CallUpdate(t, r)
  \/ \E t \in Thread : Load(t)
  \/ \E t \in Thread : CompareAndSwap(t)
  \/ \E t \in Thread : Wake(t)
  \/ Tick
  \/ StepBack

Spec == Init /\ [][Next]_vars

\* A goroutine in a call goes on, time passes, and the wall clock is not set back
\* forever.
FairSpec ==
  /\ Spec
  /\ <>[][~StepBack]_vars
  /\ \A t \in Thread : WF_vars(Load(t)) /\ WF_vars(CompareAndSwap(t)) /\ WF_vars(Wake(t))
  /\ WF_vars(Tick)

-----------------------------------------------------------------------------
(* Properties.                                                             *)

\* Type invariant: no timestamp, stored or about to be, leaves the range that an
\* int64 can hold (#104).
TypeOK ==
  /\ state \in Stamp /\ last \in Stamp /\ learnt \in Stamp
  /\ wall \in -1 .. MaxWall
  /\ th \in [Thread -> [pc : {"idle", "load", "sleep", "cas"}, fn : {"none", "now", "update"},
                        now : 0 .. MaxPhysical, remote : Stamp, old : Stamp, new : Stamp]]
  /\ calls \in Nat /\ issued \in Nat /\ peak \in 0 .. MaxPhysical

\* Now returns a timestamp later than every one returned before, by any
\* goroutine - until the clock saturates and every call returns MaxInt64.
NowIncreases ==
  [][issued' # issued => Less(last, last') \/ last' = MaxInt64]_vars

\* Causality: once Update has taken over a remote timestamp, Now returns later
\* ones only, again until the clock saturates.
NowAfterRemote ==
  [][issued' # issued => Less(learnt, last') \/ last' = MaxInt64]_vars

\* "prevent clock poisoning": whatever timestamps arrive, the clock is never more
\* than Drift ahead of the latest time this node has read.
DriftBounded == state.p <= peak + Drift

\* Neither loop spins forever (#104): every call returns, as time passes.
EveryCallReturns == \A t \in Thread : th[t].pc # "idle" ~> th[t].pc = "idle"

-----------------------------------------------------------------------------
(* Why they hold.                                                          *)

\* The state word covers a timestamp: Now can only return later ones.
Passed(a) == AtCeiling(state) \/ ~Less(state, a)

\* What a goroutine that is about to swap knows of its new value: it is later than
\* the value it loaded, and than the remote timestamp.
NewValueOK(c) ==
  c.pc = "cas" => /\ ~AtCeiling(c.old) /\ Less(c.old, c.new)
                  /\ c.fn = "update" => Less(c.remote, c.new)
                  /\ c.new.p <= peak + Drift

\* The inductive invariant behind the order of timestamps: every timestamp
\* returned or taken over is covered by the state word, and every goroutine's
\* locals stay within reach of a time that was read.
ClockInv ==
  /\ Passed(last) /\ Passed(learnt)
  /\ DriftBounded
  /\ \A t \in Thread :
       /\ NewValueOK(th[t])
       /\ th[t].now <= peak /\ th[t].remote.p <= peak + Drift
       /\ th[t].pc # "idle" => th[t].fn # "none"
=============================================================================
