----------------------------- MODULE Lifecycle -----------------------------
(***************************************************************************)
(* One oryx process from its start to its end: the storage engine of       *)
(* Storage under the two servers that call it, the snapshotter's two       *)
(* goroutines, and the order in which runServe, Grpc.Stop and engine.Stop  *)
(* take everything down (cmd/oryx/cmd/serve.go, server, core/engine.go,    *)
(* core/snap, core/wal).                                                   *)
(*                                                                         *)
(* A segment whose file is closed - by Stop, or because clearSegment could *)
(* not open it again - goes on taking records into its buffer until a      *)
(* Flush has failed.                                                       *)
(***************************************************************************)
EXTENDS Storage

CONSTANTS
  RespWriter,   \* the writers that are event loops of the RESP server; the
                \* others are handlers of the gRPC server
  MaxTicks      \* bound: ticks of the snapshot interval

ASSUME LifecycleConstants == RespWriter \subseteq Writer /\ MaxTicks \in Nat

VARIABLES
  main,      \* what runServe waits for or does next
  resp,      \* the RESP server: "starting", "up", "down"
  grpc,      \* the gRPC server: "starting", "up", "down"
  stopping,  \* the next segment wal.Stop closes
  broken,    \* segments whose file clearSegment could not open again
  failed,    \* segments whose bufio.Writer has kept a write error
  producer,  \* the snapshotter's producer: "wait", "send"
  consumer,  \* its consumer: "wait", "taken", "create"
  queued,    \* snp.ch holds a request
  inProgress,\* the flag of the same name
  ticks,     \* ticks so far
  gap,       \* (history) segments a failed Create left written but not fsynced
  late       \* (history) keys whose current version went to a closed segment

schedVars == <<producer, consumer, queued, inProgress, ticks>>
serverVars == <<main, resp, grpc, stopping>>
logVars == <<broken, failed, gap, late>>
lifeVars == <<serverVars, schedVars, logVars>>
lvars == <<vars, main, resp, grpc, stopping, broken, failed, producer, consumer,
           queued, inProgress, ticks, gap, late>>

\* What an earlier process may have left in the log.
Earlier == {<< >>} \cup {<<[key |-> 1, val |-> [ts |-> 1, node |-> Self, data |-> d, tomb |-> FALSE]]>>
                          : d \in Data}

\* engine.Start has returned, and runServe has started both servers' goroutines.
LifeInit ==
  /\ \E log \in Earlier :
       /\ mem = [k \in Key |-> Replayed(k, log)]
       /\ wal = [s \in Seg |-> Opened(IF s = SegOf[1] THEN log ELSE << >>, FALSE)]
  /\ clk = mem[1].ts /\ durable = {k \in Key : mem[k] # NoVal}
  /\ op = [p \in Proc |-> Idle]
  /\ snap = NoEntries /\ snp = IdleSnapshotter
  /\ offs = NoOffsets /\ roots = NoRoots /\ orphan = NoEntries /\ tmp = NoEntries
  /\ cut = {} /\ count = [ops |-> 0, snaps |-> 0, crashes |-> 0]
  /\ main = "running" /\ resp = "starting" /\ grpc = "starting" /\ stopping = 1
  /\ broken = {} /\ failed = {} /\ gap = {} /\ late = {}
  /\ producer = "wait" /\ consumer = "wait" /\ queued = FALSE /\ inProgress = FALSE
  /\ ticks = 0
-----------------------------------------------------------------------------
(* Calls.                                                                  *)

Serving(p) == IF p \in RespWriter THEN resp = "up" ELSE grpc = "up"
\* wal.Stop has ended the segment's backgroundSync and closed its file.
Stopped(s) == main = "evtStop" \/ (main = "walStop" /\ s < stopping)
Open(s) == ~Stopped(s) /\ s \notin broken

Dead == main \in {"exited", "killed", "recovered"}

Call ==
  /\ ~Dead
  /\ \/ \E p \in Writer, k \in Key :
          /\ Serving(p)
          /\ DeleteLoad(p, k) \/ (\E d \in Data : Set(p, k, d))
     \/ \E p \in Writer \ RespWriter, k \in Key, v \in RemoteVersions :
          Serving(p) /\ Replicate(p, k, v)
     \/ \E p \in Evictor, k \in Key, r \in Reasons : Evict(p, k, r)
  /\ UNCHANGED lifeVars

LifeStamp(p) == ~Dead /\ DeleteStamp(p) /\ UNCHANGED lifeVars

LifeApply(p) ==
  /\ ~Dead /\ Apply(p)
  /\ late' = IF Stale(op[p]) THEN late ELSE late \ {op[p].key}
  /\ UNCHANGED <<serverVars, schedVars, broken, failed, gap>>

LifePublish(p) ==
  /\ ~Dead /\ op[p].pc = "stored" /\ Open(SegOf[op[p].key])
  /\ PublishRecord(p) /\ UNCHANGED lifeVars

\* Mutation: wal.Stop keeps the lock of the segment.
PublishClosedBlocks(p) == FALSE

\* Publish to a segment whose file is closed: the record stays in the buffer, or
\* Write returns the error of an earlier Flush.
PublishClosed(p) ==
  LET o == op[p]
      s == SegOf[o.key] IN
  /\ ~Dead /\ o.pc = "stored" /\ ~Open(s)
  /\ wal' = IF s \in failed THEN wal
            ELSE [wal EXCEPT ![s] = Fits(@, [key |-> o.key, val |-> o.val])]
  /\ op' = [op EXCEPT ![p] = Idle]
  /\ late' = IF mem[o.key] = o.val THEN late \cup {o.key} ELSE late
  /\ UNCHANGED <<mem, clk, snapVars, rangeVars, durable, cut, count>>
  /\ UNCHANGED <<serverVars, schedVars, broken, failed, gap>>
-----------------------------------------------------------------------------
(* Background work of the engine.                                          *)

\* Mutation: the tick does not see a single record.
UnsyncedSome(s) == Len(wal[s].buf) > 1

Unsynced(s) == wal[s].buf # << >>

LifeSync(s) ==
  /\ ~Dead /\ ~Stopped(s) /\ Unsynced(s)
  /\ \/ Open(s) /\ BackgroundSync(s) /\ gap' = gap \ {s} /\ UNCHANGED failed
     \/ ~Open(s) /\ failed' = failed \cup {s} /\ UNCHANGED <<vars, gap>>
  /\ UNCHANGED <<serverVars, schedVars, broken, late>>

SnapshotterRuns == main \in {"running", "respStop", "grpcStop", "snpStop"}

\* The producer's tick: queueSnapShot looks at the flag ...
Tick ==
  /\ SnapshotterRuns /\ producer = "wait" /\ ticks < MaxTicks
  /\ ticks' = ticks + 1
  /\ producer' = IF inProgress THEN "wait" ELSE "send"
  /\ UNCHANGED <<vars, serverVars, logVars, consumer, queued, inProgress>>

\* ... and sends, unless a request waits already.
Send ==
  /\ SnapshotterRuns /\ producer = "send"
  /\ producer' = "wait" /\ queued' = TRUE
  /\ UNCHANGED <<vars, serverVars, logVars, consumer, inProgress, ticks>>

\* The consumer receives a request ...
Take ==
  /\ SnapshotterRuns /\ consumer = "wait" /\ queued
  /\ consumer' = "taken" /\ queued' = FALSE
  /\ UNCHANGED <<vars, serverVars, logVars, producer, inProgress, ticks>>

\* ... sets the flag, and calls Create ...
StartCreate ==
  /\ SnapshotterRuns /\ consumer = "taken"
  /\ CreateSnapshot
  /\ consumer' = "create" /\ inProgress' = TRUE
  /\ UNCHANGED <<serverVars, logVars, producer, queued, ticks>>

\* ... and clears the flag when it has returned.
FinishCreate ==
  /\ SnapshotterRuns /\ consumer = "create" /\ snp.pc = "idle"
  /\ consumer' = "wait" /\ inProgress' = FALSE
  /\ UNCHANGED <<vars, serverVars, logVars, producer, queued, ticks>>

\* Create's steps.  Flush and Seek fail on a closed segment, and Create with them.
CreateStep ==
  /\ SnapshotterRuns
  /\ PrepareSegment \/ CopyRoots \/ Visit \/ Rename \/ ClearOne
  /\ snp.pc \in {"prepare", "clear"} => Open(snp.seg)
  /\ UNCHANGED lifeVars

CreateFails ==
  /\ SnapshotterRuns /\ SnapshotFails
  /\ failed' = IF /\ snp.pc \in {"prepare", "clear"}
                  /\ ~Open(snp.seg) /\ wal[snp.seg].buf # << >>
               THEN failed \cup {snp.seg} ELSE failed
  /\ gap' = gap \cup {s \in Seg : wal[s].synced < Len(wal[s].file)}
  /\ UNCHANGED <<serverVars, schedVars, broken, late>>

\* clearSegment has replaced the file and cannot open the new one.
ReopenFails ==
  LET s == snp.seg IN
  /\ SnapshotterRuns /\ snp.pc = "clear" /\ Open(s)
  /\ offs[s] > 0 /\ Trailing(wal[s], offs[s]) # << >>
  /\ wal' = [wal EXCEPT ![s] = clearSegment(@, offs[s])]
  /\ durable' = durable \cup Synced(s, wal'[s])
  /\ broken' = broken \cup {s}
  /\ DropSnapshotter
  /\ UNCHANGED <<mem, clk, op, snap, cut, count, serverVars, schedVars, failed, gap, late>>
-----------------------------------------------------------------------------
(* The servers, and the way down.                                          *)

Step(from, to) == main = from /\ main' = to

\* gnet calls OnBoot, also after a Stop that found no engine to stop.
OnBoot ==
  /\ ~Dead /\ resp = "starting" /\ resp' = "up"
  /\ UNCHANGED <<vars, main, grpc, stopping, schedVars, logVars>>

\* Grpc.Run reaches Serve.  After GracefulStop, Serve returns ErrServerStopped and
\* the goroutine calls os.Exit(1).
GrpcServe ==
  /\ ~Dead /\ grpc = "starting"
  /\ IF main \in {"running", "respStop", "grpcStop"}
     THEN grpc' = "up" /\ UNCHANGED main
     ELSE main' = "killed" /\ UNCHANGED grpc
  /\ UNCHANGED <<vars, resp, stopping, schedVars, logVars>>

Signal ==
  /\ Step("running", "respStop")
  /\ UNCHANGED <<vars, resp, grpc, stopping, schedVars, logVars>>

\* RESPServer.Stop: nothing before OnBoot; otherwise gnet's Stop waits for the
\* event loops.
RespStop ==
  /\ Step("respStop", "grpcStop")
  /\ IF resp = "starting" THEN UNCHANGED resp
     ELSE /\ \A p \in RespWriter : op[p].pc = "idle"
          /\ resp' = "down"
  /\ UNCHANGED <<vars, grpc, stopping, schedVars, logVars>>

\* Mutation: Stop closes the connections and does not wait for the handlers.
HandlersDoneHardStop == TRUE

HandlersDone == \A p \in Writer \ RespWriter : op[p].pc = "idle"

\* GracefulStop waits for the handlers.
GrpcStop ==
  /\ Step("grpcStop", "snpStop")
  /\ HandlersDone
  /\ grpc' = IF grpc = "up" THEN "down" ELSE grpc
  /\ UNCHANGED <<vars, resp, stopping, schedVars, logVars>>

\* Snapshotter.Stop waits for producer and consumer; the consumer may leave a
\* request in the channel.
SnpStop ==
  /\ Step("snpStop", "walStop")
  /\ producer = "wait" /\ consumer = "wait"
  /\ UNCHANGED <<vars, resp, grpc, stopping, schedVars, logVars>>

\* What wal.Stop does to an open segment before Close.
Closed(seg) == Sync(Flush(seg))

\* One iteration of wal.Stop.
WalStop ==
  LET s == stopping IN
  /\ main = "walStop"
  /\ main' = IF s = NSegs THEN "evtStop" ELSE main
  /\ stopping' = s + 1
  /\ wal' = IF Open(s) THEN [wal EXCEPT ![s] = Closed(@)] ELSE wal
  /\ durable' = durable \cup Synced(s, wal'[s])
  /\ UNCHANGED <<mem, clk, op, snapVars, rangeVars, cut, count>>
  /\ UNCHANGED <<resp, grpc, schedVars, logVars>>

\* The evictor's Stop waits for its goroutines; the process ends.
EvtStop ==
  /\ Step("evtStop", "exited")
  /\ \A p \in Evictor : op[p].pc = "idle"
  /\ UNCHANGED <<vars, resp, grpc, stopping, schedVars, logVars>>

\* The next process: NewEngine recovers.  What it does then is as before.
Restart ==
  /\ main \in {"exited", "killed"} /\ main' = "recovered"
  /\ CrashAndRecover
  /\ UNCHANGED <<resp, grpc, stopping, schedVars, logVars>>

\* The steps of goroutines that have something to do.
Work ==
  \/ \E p \in Writer : LifeStamp(p)
  \/ \E p \in Proc : LifeApply(p) \/ LifePublish(p) \/ PublishClosed(p)
  \/ \E s \in Seg : LifeSync(s)
  \/ Send \/ Take \/ StartCreate \/ FinishCreate
  \/ CreateStep \/ CreateFails \/ ReopenFails
  \/ RespStop \/ GrpcStop \/ SnpStop \/ WalStop \/ EvtStop

LifeNext == Work \/ Call \/ Tick \/ OnBoot \/ GrpcServe \/ Signal \/ Restart

LifeSpec == LifeInit /\ [][LifeNext]_lvars

\* While some goroutine can go on, one does.  Callers, the start of the servers, the
\* snapshot ticker, the signal and the next process are not fair.
LifeFairSpec == LifeSpec /\ WF_lvars(Work)
-----------------------------------------------------------------------------
(* Properties.                                                             *)

\* A graceful stop loses nothing: the process that follows answers with what
\* clients were told is stored or something newer, whatever the snapshotter, the sync tickers and
\* the evictor were doing when the signal came.  Left out: a RESP server whose
\* Stop came before OnBoot and that still served; evictions that ran after the
\* log was closed; segments that could not be opened again; records a zero
\* boundary threw away.
StopKeepsAcked ==
  [][main = "exited" /\ main' = "recovered" /\ resp # "up" =>
       \A k \in Key : \/ k \in cut \/ SegOf[k] \in broken
                      \/ (k \in late /\ mem[k].tomb)
                      \/ mem'[k].ts > mem[k].ts
                      \/ (mem'[k].ts = mem[k].ts /\ Get(mem'[k]) = Get(mem[k]))]_lvars

\* What PrepareSnapshot wrote out stays without fsync after a failed Create until
\* the next record comes: backgroundSync looks at the buffer only.
Forgotten(s) == s \in gap /\ wal[s].buf = << >>

\* While the process lives, every write reaches the disk, at the latest with a tick
\* of its segment's sync interval.
EventuallySynced ==
  \A k \in Key : (mem[k] # NoVal) ~>
    \/ mem[k] = NoVal \/ k \in durable \cup cut \cup late \/ Dead
    \/ SegOf[k] \in broken \/ Forgotten(SegOf[k])

\* A process that was told to stop stops: nobody waits for a goroutine that waits
\* for somebody else.
SignalEnds == (main = "respStop") ~> Dead
=============================================================================
