---------------------------- MODULE ClockProofs ----------------------------
(***************************************************************************)
(* Clock is type correct, its timestamps increase and respect what Update  *)
(* took over, and no remote timestamp moves it more than Drift ahead: for  *)
(* any number of goroutines and any width of the two fields.               *)
(***************************************************************************)
EXTENDS Clock, TLAPS

\* The facts on the constants in the form the steps use.
LEMMA Widths ==
  /\ MaxPhysical \in Nat /\ LogicalMask \in Nat /\ Drift \in Nat /\ MaxWall \in Nat
  /\ Zero \in Stamp /\ MaxInt64 \in Stamp
BY ClockConstants DEF Stamp, Zero, MaxInt64

\* The locals of Now and Update.
Call == [pc : {"idle", "load", "sleep", "cas"}, fn : {"none", "now", "update"},
         now : 0 .. MaxPhysical, remote : Stamp, old : Stamp, new : Stamp]

\* A reading of the wall clock fits the physical field.
LEMMA SampleType ==
  ASSUME wall \in -1 .. MaxWall
  PROVE  Sample \in 0 .. MaxPhysical
BY Widths DEF Sample, clampPhysical, max

\* Lexicographic order on two timestamps.
LEMMA LessOrder ==
  ASSUME NEW a \in Stamp, NEW b \in Stamp, NEW c \in Stamp
  PROVE  /\ Less(a, b) /\ Less(b, c) => Less(a, c)
         /\ ~Less(b, a) /\ Less(b, c) => Less(a, c)
         /\ ~Less(a, a)
         /\ Less(a, b) => ~Less(b, a)
BY Widths DEF Less, Stamp

\* The value Now swaps in is a timestamp later than the one it loaded.
LEMMA NowNewLater ==
  ASSUME NEW old \in Stamp, NEW now \in 0 .. MaxPhysical,
         ~NowOverflows(old, now)
  PROVE  /\ NowNew(old, now) \in Stamp /\ Less(old, NowNew(old, now))
         /\ NowNew(old, now).p = max(old.p, now)
<1>1. CASE now > old.p
  BY <1>1, Widths DEF NowNew, Pack, Less, Stamp, max
<1>2. CASE ~(now > old.p)
  BY <1>2, Widths DEF NowNew, NowOverflows, Pack, Less, Stamp, max
<1> QED
  BY <1>1, <1>2

\* The value Update swaps in is a timestamp later than the one it loaded and than
\* the remote one.
LEMMA UpdateNewLater ==
  ASSUME NEW old \in Stamp, NEW remote \in Stamp, NEW now \in 0 .. MaxPhysical,
         ~UpdateOverflows(old, remote, now)
  PROVE  /\ UpdateNew(old, remote, now) \in Stamp
         /\ Less(old, UpdateNew(old, remote, now))
         /\ Less(remote, UpdateNew(old, remote, now))
         /\ UpdateNew(old, remote, now).p = Chosen(old, remote, now)
<1> DEFINE p == Chosen(old, remote, now)
           l == Expected(old, remote, now)
<1>1. /\ p \in 0 .. MaxPhysical /\ p >= old.p /\ p >= remote.p
      /\ old.l \in 0 .. LogicalMask /\ remote.l \in 0 .. LogicalMask
      /\ old.p \in Nat /\ remote.p \in Nat
  BY Widths DEF Stamp, Chosen, max
<1>2. /\ l \in Nat /\ l <= LogicalMask
      /\ p = old.p => l > old.l
      /\ p = remote.p => l > remote.l
  BY <1>1, Widths DEF Expected, UpdateOverflows, max
<1>3. UpdateNew(old, remote, now) = [p |-> p, l |-> l]
  BY <1>1, <1>2, Widths DEF UpdateNew, Pack
<1> HIDE DEF p, l
<1>4. [p |-> p, l |-> l] \in Stamp
  BY <1>1, <1>2, Widths DEF Stamp
<1>5. Less(old, [p |-> p, l |-> l]) /\ Less(remote, [p |-> p, l |-> l])
  BY <1>1, <1>2, Widths DEF Less
<1> QED
  BY <1>3, <1>4, <1>5 DEF p

\* What is shown to be inductive.
Inv == TypeOK /\ ClockInv

\* What the invariant says of one goroutine.
CallOK(c, peak_) ==
  /\ c \in Call
  /\ c.pc = "cas" => /\ ~AtCeiling(c.old) /\ Less(c.old, c.new)
                     /\ c.fn = "update" => Less(c.remote, c.new)
                     /\ c.new.p <= peak_ + Drift
  /\ c.now <= peak_ /\ c.remote.p <= peak_ + Drift
  /\ c.pc # "idle" => c.fn # "none"

\* The invariant, goroutine by goroutine.
LEMMA InvParts ==
  /\ Inv <=> /\ state \in Stamp /\ last \in Stamp /\ learnt \in Stamp
             /\ wall \in -1 .. MaxWall /\ calls \in Nat /\ issued \in Nat
             /\ peak \in 0 .. MaxPhysical
             /\ Passed(last) /\ Passed(learnt) /\ state.p <= peak + Drift
             /\ th \in [Thread -> Call] /\ \A t \in Thread : CallOK(th[t], peak)
  /\ Inv' <=> /\ state' \in Stamp /\ last' \in Stamp /\ learnt' \in Stamp
              /\ wall' \in -1 .. MaxWall /\ calls' \in Nat /\ issued' \in Nat
              /\ peak' \in 0 .. MaxPhysical
              /\ Passed(last)' /\ Passed(learnt)' /\ state'.p <= peak' + Drift
              /\ th' \in [Thread -> Call] /\ \A t \in Thread : CallOK(th'[t], peak')
BY DEF Inv, TypeOK, ClockInv, DriftBounded, NewValueOK, CallOK, Call

\* A goroutine that is not running knows nothing.
LEMMA IdleOK ==
  ASSUME NEW pk \in Nat
  PROVE  CallOK(Idle, pk)
BY Widths DEF CallOK, Call, Idle, Zero, Stamp

\* A later reading of the wall clock invalidates nothing.
LEMMA PeakGrows ==
  ASSUME NEW a \in Nat, NEW b \in Nat, a <= b, NEW c, CallOK(c, a)
  PROVE  CallOK(c, b)
BY Widths DEF CallOK, Call, Stamp

\* The clock starts out covering everything: nothing was returned yet.
LEMMA InitInv == Init => Inv
<1> SUFFICES ASSUME Init PROVE Inv
  OBVIOUS
<1>1. Passed(last) /\ Passed(learnt)
  BY DEF Init, Passed, Less, Zero
<1>2. th \in [Thread -> Call] /\ \A t \in Thread : CallOK(th[t], peak)
  BY IdleOK DEF Init, CallOK
<1> QED
  BY <1>1, <1>2, InvParts, Widths DEF Init, Zero

\* A step of goroutine t that leaves the state word and the history alone: only
\* its new locals matter.
LEMMA LocalStep ==
  ASSUME Inv, NEW t \in Thread, NEW c, th' = [th EXCEPT ![t] = c],
         peak' \in 0 .. MaxPhysical, peak' >= peak, CallOK(c, peak'),
         UNCHANGED <<state, wall, history>>, calls' \in Nat
  PROVE  Inv'
<1>1. peak \in Nat /\ peak' \in Nat /\ c \in Call
  BY InvParts, Widths DEF CallOK
<1>2. ASSUME NEW u \in Thread PROVE CallOK(th'[u], peak')
  <2>1. CASE u = t
    BY <2>1, InvParts
  <2>2. CASE u # t
    BY <1>1, <2>2, InvParts, PeakGrows
  <2> QED
    BY <2>1, <2>2
<1>3. th' \in [Thread -> Call]
  BY <1>1, InvParts
<1>4. Passed(last)' /\ Passed(learnt)'
  BY InvParts DEF Passed, history
<1>5. state'.p <= peak' + Drift
  BY InvParts, Widths DEF Stamp
<1> QED
  BY <1>2, <1>3, <1>4, <1>5, InvParts DEF history

\* A call starts, with the time it reads.
LEMMA StartStep ==
  ASSUME Inv, NEW t \in Thread, NEW fn \in {"now", "update"}, NEW r \in Stamp,
         r.p <= Sample + Drift, Start(t, fn, r), peak' = max(peak, Sample),
         UNCHANGED <<state, wall, history>>, calls' = calls + 1
  PROVE  Inv'
<1> DEFINE c == [pc |-> "load", fn |-> fn, now |-> Sample, remote |-> r,
                 old |-> Zero, new |-> Zero]
<1>1. Sample \in 0 .. MaxPhysical /\ peak \in 0 .. MaxPhysical /\ calls \in Nat
  BY InvParts, SampleType
<1>2. peak' \in 0 .. MaxPhysical /\ peak' >= peak /\ peak' >= Sample
  BY <1>1, Widths DEF max
<1>3. calls' \in Nat
  BY <1>1
<1>4. r.p \in Nat
  BY Widths DEF Stamp
<1>5. CallOK(c, peak')
  BY <1>1, <1>2, <1>4, Widths DEF CallOK, Call
<1>6. th' = [th EXCEPT ![t] = c]
  BY DEF Start
<1> HIDE DEF c
<1> QED
  BY <1>2, <1>3, <1>5, <1>6, LocalStep, Zenon

\* A call reads the clock again, after a lost race or a sleep.
LEMMA ResampleStep ==
  ASSUME Inv, NEW t \in Thread, Resample(t), th[t].pc # "idle",
         UNCHANGED <<state, wall, calls, history>>
  PROVE  Inv'
<1> DEFINE c == [th[t] EXCEPT !.pc = "load", !.now = Sample]
<1>1. /\ Sample \in 0 .. MaxPhysical /\ peak \in 0 .. MaxPhysical /\ calls \in Nat
      /\ CallOK(th[t], peak)
  BY InvParts, SampleType
<1>2. peak' \in 0 .. MaxPhysical /\ peak' >= peak /\ peak' >= Sample
  BY <1>1, Widths DEF Resample, max
<1>3. CallOK(th[t], peak')
  BY <1>1, <1>2, Widths, PeakGrows
<1>4. CallOK(c, peak')
  BY <1>1, <1>2, <1>3, Zenon DEF CallOK, Call
<1>5. th' = [th EXCEPT ![t] = c]
  BY Zenon DEF Resample
<1> HIDE DEF c
<1> QED
  BY <1>1, <1>2, <1>4, <1>5, LocalStep, Zenon DEF history

\* The state word is loaded; the value to swap in is later than it.
LEMMA LoadStep ==
  ASSUME Inv, NEW t \in Thread, Load(t)
  PROVE  Inv'
<1> DEFINE c == th[t]
           overflows == IF c.fn = "now" THEN NowOverflows(state, c.now)
                                        ELSE UpdateOverflows(state, c.remote, c.now)
           new == IF c.fn = "now" THEN NowNew(state, c.now)
                                  ELSE UpdateNew(state, c.remote, c.now)
<1>1. /\ state \in Stamp /\ last \in Stamp /\ learnt \in Stamp
      /\ wall \in -1 .. MaxWall /\ calls \in Nat /\ issued \in Nat
      /\ peak \in 0 .. MaxPhysical /\ peak \in Nat
      /\ Passed(last) /\ Passed(learnt) /\ state.p <= peak + Drift
      /\ th \in [Thread -> Call] /\ \A u \in Thread : CallOK(th[u], peak)
  BY InvParts, Widths
<1>2. /\ c.pc = "load" /\ c.fn # "none" /\ CallOK(c, peak)
      /\ c.now \in 0 .. MaxPhysical /\ c.remote \in Stamp
      /\ UNCHANGED <<state, wall, calls, peak>>
      /\ peak' \in 0 .. MaxPhysical /\ peak' >= peak /\ calls' \in Nat
  BY <1>1 DEF Load, CallOK, Call
<1>3. CASE AtCeiling(state) /\ Returns(t, MaxInt64)
  <2>1. last' \in Stamp /\ learnt' \in Stamp /\ issued' \in Nat
    BY <1>1, <1>2, <1>3, Widths DEF Returns, Later
  <2>2. th' = [th EXCEPT ![t] = Idle] /\ CallOK(Idle, peak)
    BY <1>1, <1>3, IdleOK DEF Returns
  <2>3. th' \in [Thread -> Call] /\ \A u \in Thread : CallOK(th'[u], peak')
    BY <1>1, <1>2, <2>2 DEF CallOK
  <2>4. Passed(last)' /\ Passed(learnt)'
    BY <1>2, <1>3 DEF Passed, AtCeiling
  <2> QED
    BY <1>1, <1>2, <2>1, <2>3, <2>4, InvParts
<1>4. CASE ~AtCeiling(state) /\ overflows /\ th' = [th EXCEPT ![t].pc = "sleep"]
           /\ UNCHANGED history
  <2> DEFINE d == [c EXCEPT !.pc = "sleep"]
  <2>1. CallOK(d, peak)
    BY <1>2 DEF CallOK, Call
  <2>2. th' = [th EXCEPT ![t] = d]
    BY <1>4
  <2> HIDE DEF d
  <2> QED
    BY <1>2, <1>4, <2>1, <2>2, LocalStep, Zenon
<1>5. CASE /\ ~AtCeiling(state) /\ ~overflows
           /\ th' = [th EXCEPT ![t].pc = "cas", ![t].old = state, ![t].new = new]
           /\ UNCHANGED history
  <2> DEFINE d == [c EXCEPT !.pc = "cas", !.old = state, !.new = new]
  <2>1. /\ new \in Stamp /\ Less(state, new)
        /\ c.fn = "update" => Less(c.remote, new)
        /\ new.p <= peak + Drift
    <3>1. /\ state.p \in Nat /\ c.now \in Nat /\ c.now <= peak /\ c.remote.p <= peak + Drift
          /\ c.remote.p \in Nat /\ c.fn \in {"now", "update"}
      BY <1>1, <1>2, Widths DEF CallOK, Call, Stamp
    <3>2. CASE c.fn = "now"
      BY <1>1, <1>2, <1>5, <3>1, <3>2, NowNewLater, Widths DEF max
    <3>3. CASE c.fn = "update"
      <4>1. new = UpdateNew(state, c.remote, c.now) /\ ~UpdateOverflows(state, c.remote, c.now)
        BY <1>5, <3>3
      <4>2. Chosen(state, c.remote, c.now) <= peak + Drift
        BY <1>1, <3>1, Widths DEF max, Chosen
      <4>3. /\ new \in Stamp /\ Less(state, new) /\ Less(c.remote, new)
            /\ new.p = Chosen(state, c.remote, c.now)
        BY <1>1, <1>2, <4>1, UpdateNewLater
      <4> QED
        BY <4>2, <4>3
    <3> QED
      BY <3>1, <3>2, <3>3
  <2>2. th' = [th EXCEPT ![t] = d]
    BY <1>5, Zenon
  <2> HIDE DEF new
  <2>3. CallOK(d, peak)
    BY <1>1, <1>2, <1>5, <2>1, Zenon DEF CallOK, Call
  <2> HIDE DEF d
  <2> QED
    BY <1>2, <1>5, <2>2, <2>3, LocalStep, Zenon
<1> QED
  BY <1>3, <1>4, <1>5 DEF Load

\* The swap succeeds on the loaded value only, so the state word moves forward.
LEMMA SwapStep ==
  ASSUME Inv, NEW t \in Thread, CompareAndSwap(t)
  PROVE  Inv'
<1> DEFINE c == th[t]
<1>1. /\ state \in Stamp /\ last \in Stamp /\ learnt \in Stamp
      /\ wall \in -1 .. MaxWall /\ calls \in Nat /\ issued \in Nat
      /\ peak \in 0 .. MaxPhysical /\ peak \in Nat
      /\ Passed(last) /\ Passed(learnt) /\ state.p <= peak + Drift
      /\ th \in [Thread -> Call] /\ \A u \in Thread : CallOK(th[u], peak)
  BY InvParts, Widths
<1>2. /\ c.pc = "cas" /\ c.fn \in {"now", "update"} /\ c.new \in Stamp /\ c.old \in Stamp
      /\ c.remote \in Stamp /\ UNCHANGED <<wall, calls>>
      /\ ~AtCeiling(c.old) /\ Less(c.old, c.new) /\ c.new.p <= peak + Drift
      /\ c.fn = "update" => Less(c.remote, c.new)
  BY <1>1 DEF CompareAndSwap, CallOK, Call
<1>3. CASE state = c.old /\ state' = c.new /\ Returns(t, c.new) /\ UNCHANGED peak
  <2>1. last' \in Stamp /\ learnt' \in Stamp /\ issued' \in Nat
    BY <1>1, <1>2, <1>3 DEF Returns, Later
  <2>2. th' = [th EXCEPT ![t] = Idle] /\ CallOK(Idle, peak)
    BY <1>1, <1>3, IdleOK DEF Returns
  <2>3. th' \in [Thread -> Call] /\ \A u \in Thread : CallOK(th'[u], peak')
    BY <1>1, <1>3, <2>2 DEF CallOK
  <2>4. ~Less(state', last) /\ ~Less(state', learnt)
    BY <1>1, <1>2, <1>3, LessOrder DEF Passed
  <2>5. ~Less(state', state') /\ (c.fn = "update" => ~Less(state', c.remote))
    BY <1>1, <1>2, <1>3, LessOrder
  <2>6. Passed(last)' /\ Passed(learnt)'
    BY <1>2, <1>3, <2>4, <2>5 DEF Passed, Returns, Later
  <2> QED
    BY <1>1, <1>2, <1>3, <2>1, <2>3, <2>6, InvParts
<1>4. CASE Resample(t) /\ UNCHANGED <<state, history>>
  BY <1>2, <1>4, ResampleStep
<1> QED
  BY <1>3, <1>4 DEF CompareAndSwap

\* No step of a goroutine or of the wall clock breaks the invariant.
LEMMA NextInv == Inv /\ [Next]_vars => Inv'
<1> SUFFICES ASSUME Inv, [Next]_vars PROVE Inv'
  OBVIOUS
<1>0. /\ Sample \in 0 .. MaxPhysical /\ peak \in 0 .. MaxPhysical /\ calls \in Nat
      /\ wall \in -1 .. MaxWall /\ th \in [Thread -> Call]
  BY InvParts, SampleType
<1>1. ASSUME NEW t \in Thread, CallNow(t) PROVE Inv'
  <2>1. Zero \in Stamp /\ Zero.p <= Sample + Drift
    BY <1>0, Widths DEF Zero
  <2> QED
    BY <1>1, <2>1, StartStep DEF CallNow
<1>2. ASSUME NEW t \in Thread, NEW r \in Remote, CallUpdate(t, r) PROVE Inv'
  <2>1. UNCHANGED <<state, wall, history>> /\ calls' = calls + 1 /\ calls' \in Nat
    BY <1>0, <1>2 DEF CallUpdate
  <2>2. CASE UNCHANGED th
    <3>1. peak' \in 0 .. MaxPhysical /\ peak' >= peak
      BY <1>0, <1>2, Widths DEF CallUpdate, max
    <3>2. CallOK(th[t], peak')
      BY <1>0, <3>1, InvParts, Widths, PeakGrows
    <3>3. th' = [th EXCEPT ![t] = th[t]]
      BY <1>0, <2>2
    <3> QED
      BY <2>1, <3>1, <3>2, <3>3, LocalStep, Zenon
  <2>3. CASE ~(r.p < 0) /\ ~TooFar(r, Sample)
    <3>1. r \in Stamp /\ r.p <= Sample + Drift
      BY <1>0, <2>3, ClockConstants DEF Stamp, TooFar
    <3> QED
      BY <1>2, <2>1, <2>3, <3>1, StartStep DEF CallUpdate
  <2> QED
    BY <1>2, <2>2, <2>3 DEF CallUpdate
<1>3. ASSUME NEW t \in Thread, Wake(t) PROVE Inv'
  BY <1>3, ResampleStep DEF Wake
<1>4. CASE Tick \/ StepBack \/ UNCHANGED vars
  <2>1. wall' \in -1 .. MaxWall /\ UNCHANGED <<state, th, calls, history, peak>>
    BY <1>0, <1>4, Widths DEF Tick, StepBack, vars, history
  <2>2. Passed(last)' /\ Passed(learnt)'
    BY <2>1, InvParts DEF Passed, history
  <2> QED
    BY <2>1, <2>2, InvParts DEF history
<1> QED
  BY <1>1, <1>2, <1>3, <1>4, LoadStep, SwapStep DEF Next

\* The clock's types and its inductive invariant hold in every reachable state.
THEOREM ClockInvariant == Spec => [](TypeOK /\ ClockInv)
<1>1. Inv => TypeOK /\ ClockInv
  BY DEF Inv
<1> QED
  BY <1>1, InitInv, NextInv, PTL DEF Spec

\* No remote timestamp moves the clock more than Drift ahead of the latest time
\* this node has read (Update's drift test).
THEOREM DriftCorrect == Spec => []DriftBounded
<1>1. ClockInv => DriftBounded
  BY DEF ClockInv
<1> QED
  BY <1>1, ClockInvariant, PTL

\* The result of a Now that returns: later than every timestamp returned before and
\* every one taken over, or MaxInt64.
LEMMA ReturnLater ==
  ASSUME Inv, Next, issued' # issued
  PROVE  \/ Less(last, last') /\ Less(learnt, last')
         \/ last' = MaxInt64
<1>1. PICK t \in Thread : Load(t) \/ CompareAndSwap(t)
  BY DEF Next, CallNow, CallUpdate, Wake, Tick, StepBack, history
<1>2. issued \in Nat /\ state \in Stamp /\ last \in Stamp /\ learnt \in Stamp
      /\ CallOK(th[t], peak) /\ Passed(last) /\ Passed(learnt)
  BY InvParts
<1>3. CASE Load(t)
  BY <1>3 DEF Load, Returns, history
<1>4. CASE CompareAndSwap(t)
  <2>1. /\ th[t].pc = "cas" /\ state = th[t].old
        /\ Returns(t, th[t].new) /\ last' = th[t].new
    BY <1>4 DEF CompareAndSwap, Returns, history
  <2>2. th[t].new \in Stamp /\ Less(state, th[t].new) /\ ~AtCeiling(state)
    BY <1>2, <2>1 DEF CallOK, Call
  <2> QED
    BY <1>2, <2>1, <2>2, LessOrder DEF Passed
<1> QED
  BY <1>1, <1>3, <1>4

\* Now returns strictly increasing timestamps across all goroutines, until the
\* clock saturates.
THEOREM NowIncreasesCorrect == Spec => NowIncreases
<1>1. Inv /\ [Next]_vars => [issued' # issued => Less(last, last') \/ last' = MaxInt64]_vars
  BY ReturnLater DEF vars
<1> QED
  BY <1>1, InitInv, NextInv, PTL DEF Spec, NowIncreases

\* Now returns timestamps later than every remote one Update has taken over, until
\* the clock saturates.
THEOREM CausalityCorrect == Spec => NowAfterRemote
<1>1. Inv /\ [Next]_vars => [issued' # issued => Less(learnt, last') \/ last' = MaxInt64]_vars
  BY ReturnLater DEF vars
<1> QED
  BY <1>1, InitInv, NextInv, PTL DEF Spec, NowAfterRemote
=============================================================================
