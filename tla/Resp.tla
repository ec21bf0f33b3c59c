-------------------------------- MODULE Resp --------------------------------
(***************************************************************************)
(* The RESP front end (server/resp.go): gnet's event loops read what a     *)
(* connection has sent into a buffer that the next read overwrites,        *)
(* OnTraffic parses commands out of it, calls the database of a single     *)
(* node for each of them (core/engine.go) and writes the replies.          *)
(*                                                                         *)
(* On the wire a command is a head, which gives the number of arguments,   *)
(* and one bulk string per argument.  A read ends wherever the network     *)
(* made it end; to OnTraffic it is the same whether it ends inside a bulk  *)
(* string or before it.  An argument is a place in the buffer until the    *)
(* code copies it.                                                         *)
(***************************************************************************)
EXTENDS Integers, Sequences, SequencesExt

CONSTANTS
  Conn,       \* connections
  EventLoop,  \* gnet's event loops
  Key,
  None,       \* no data, no argument, no connection, no event loop
  Err,        \* the reply with an error of the database
  CommandOf,  \* the commands a client sends, as the sequences of their arguments
  maxArgs,
  MaxCmds     \* bound: commands sent

ASSUME RespConstants ==
  /\ None \notin Key \cup Conn \cup EventLoop
  /\ \A c \in Conn : \A args \in CommandOf[c] : None \notin ToSet(args)
  /\ maxArgs \in Nat /\ MaxCmds \in Nat

VARIABLES
  loopOf,   \* the event loop that serves a connection
  sent,     \* (history) the commands of a connection
  stream,   \* what is on its way to the server
  buffer,   \* each event loop's buffer
  loop,     \* what each event loop is doing
  replies,  \* what a client has received
  db,       \* the data the database holds for a key
  ch,       \* accesses the evictor has been told of and has not looked at
  cut       \* (history) the connections that had a read end inside a command

vars == <<loopOf, sent, stream, buffer, loop, replies, db, ch, cut>>

\* conn: the connection OnTraffic runs for; at: where the rest of data begins in
\* the buffer; out: outBuf.  Inside DEL, key: which argument is next; found: its
\* Load found it; count: the keys that existed so far.
Polling == [conn |-> None, at |-> 1, out |-> << >>, key |-> 0, found |-> FALSE, count |-> 0]

Init ==
  /\ loopOf \in [Conn -> EventLoop]
  /\ sent = [c \in Conn |-> << >>]
  /\ stream = [c \in Conn |-> << >>]
  /\ buffer = [l \in EventLoop |-> << >>]
  /\ loop = [l \in EventLoop |-> Polling]
  /\ replies = [c \in Conn |-> << >>]
  /\ db = [k \in Key |-> None]
  /\ ch = {}
  /\ cut = {}
-----------------------------------------------------------------------------
(* The wire.                                                               *)

\* The i-th command of a connection, in pieces.
Frame(args, i) ==
  <<[head |-> TRUE, n |-> Len(args), arg |-> None, of |-> i]>>
    \o [j \in DOMAIN args |-> [head |-> FALSE, n |-> 0, arg |-> args[j], of |-> i]]

Send(c, args) ==
  /\ MapThenSumSet(LAMBDA d : Len(sent[d]), Conn) < MaxCmds
  /\ sent' = [sent EXCEPT ![c] = Append(@, args)]
  /\ stream' = [stream EXCEPT ![c] = @ \o Frame(args, Len(sent[c]) + 1)]
  /\ UNCHANGED <<loopOf, buffer, loop, replies, db, ch, cut>>

\* OnTraffic begins: c.Next(-1) takes all of the n pieces that have arrived.
OnTraffic(c, n) ==
  LET l == loopOf[c] IN
  /\ loop[l].conn = None /\ n \in DOMAIN stream[c]
  /\ buffer' = [buffer EXCEPT ![l] = SubSeq(stream[c], 1, n)]
  /\ stream' = [stream EXCEPT ![c] = SubSeq(@, n + 1, Len(@))]
  /\ loop' = [loop EXCEPT ![l] = [Polling EXCEPT !.conn = c]]
  /\ cut' = cut \cup {d \in {c} : n < Len(stream[c]) /\ ~stream[c][n + 1].head}
  /\ UNCHANGED <<loopOf, sent, replies, db, ch>>

\* The part of the buffer that is still to be parsed.
data(l) == SubSeq(buffer[l], loop[l].at, Len(buffer[l]))

\* parseRESPFrame finds a whole command at the beginning of data.
parseRESPFrame(d) ==
  /\ d # << >> /\ d[1].head /\ d[1].n <= maxArgs
  /\ d[1].n < Len(d) /\ \A j \in 1 .. d[1].n : ~d[j + 1].head

\* Its arguments.
Args(d) == [j \in 1 .. d[1].n |-> d[j + 1].arg]

\* Mutation: the last argument is not consumed.
ReadShort(d) == d[1].n

\* How much of data the command took.
Read(d) == d[1].n + 1

\* OnTraffic ends: nothing, or no whole command, is left, and the replies are
\* written.  What is left of data is gone.
Write(l) ==
  LET c == loop[l].conn IN
  /\ c # None /\ loop[l].key = 0 /\ ~parseRESPFrame(data(l))
  /\ replies' = [replies EXCEPT ![c] = @ \o loop[l].out]
  /\ loop' = [loop EXCEPT ![l] = Polling]
  /\ UNCHANGED <<loopOf, sent, stream, buffer, db, ch, cut>>
-----------------------------------------------------------------------------
(* Bytes that outlive the call.  An owned copy has no event loop; a string *)
(* made by unsafe.String would stay a place in the buffer.                 *)

\* Mutation: argument j of the command at the beginning of data, not copied.
Alias(l, j) == [bytes |-> data(l)[j + 1].arg, loop |-> l, at |-> loop[l].at + j]

\* SET's copy of the value.
CopyValue(l, j) == [bytes |-> data(l)[j + 1].arg, loop |-> None, at |-> 0]

\* Publish's clone of the key.
CloneKey(l, j) == [bytes |-> data(l)[j + 1].arg, loop |-> None, at |-> 0]

\* What the bytes are now.
Deref(b) ==
  IF b.loop = None THEN b.bytes
  ELSE IF b.at \in DOMAIN buffer[b.loop] THEN buffer[b.loop][b.at].arg ELSE None
-----------------------------------------------------------------------------
(* dispatchToBuffer.                                                       *)

\* Event loop l is about to dispatch a command with the name op and arguments that
\* many and valid.
Dispatches(l, op, arity) ==
  /\ loop[l].conn # None /\ loop[l].key = 0 /\ parseRESPFrame(data(l))
  /\ LET args == Args(data(l)) IN Len(args) \in arity /\ args[1] = op

\* The reply r to the command, and on to the next one.
Reply(l, r) ==
  loop' = [loop EXCEPT ![l] = [@ EXCEPT !.at = @ + Read(data(l)), !.key = 0, !.found = FALSE, !.count = 0,
                                        !.out = Append(@, [of |-> data(l)[1].of, is |-> r])]]

\* eng.evt.Publish may drop the access, and copies the key otherwise.
Publish(l) ==
  \/ UNCHANGED ch
  \/ ch' = ch \cup {[key |-> CloneKey(l, 2), hash |-> Args(data(l))[2]]}

\* GET and EXISTS: engine.Get.
Get(l) ==
  LET args == Args(data(l))
      found == db[args[2]] # None IN
  /\ \/ Dispatches(l, "GET", {2}) /\ Reply(l, IF found THEN Deref(db[args[2]]) ELSE None)
     \/ Dispatches(l, "EXISTS", {2}) /\ Reply(l, IF found THEN 1 ELSE 0)
  /\ IF found THEN Publish(l) ELSE UNCHANGED ch
  /\ UNCHANGED <<loopOf, sent, stream, buffer, replies, db, cut>>

\* SET: engine.Set.  When the log fails, the value is in memory all the same.
Set(l) ==
  /\ Dispatches(l, "SET", {3})
  /\ db' = [db EXCEPT ![Args(data(l))[2]] = CopyValue(l, 3)]
  /\ Publish(l)
  /\ Reply(l, "OK") \/ Reply(l, Err)
  /\ UNCHANGED <<loopOf, sent, stream, buffer, replies, cut>>

\* DEL: engine.Delete for one key after the other; its Load ...
DelLoad(l) ==
  LET j == IF loop[l].key = 0 THEN 2 ELSE loop[l].key
      args == Args(data(l)) IN
  /\ (loop[l].key # 0 /\ ~loop[l].found) \/ Dispatches(l, "DEL", 2 .. maxArgs)
  /\ IF db[args[j]] # None
     THEN loop' = [loop EXCEPT ![l].key = j, ![l].found = TRUE]
     ELSE IF j = Len(args) THEN Reply(l, loop[l].count)
     ELSE loop' = [loop EXCEPT ![l].key = j + 1]
  /\ UNCHANGED <<loopOf, sent, stream, buffer, replies, db, ch, cut>>

\* ... and its ApplyDelete.  An error ends the command.
DelApply(l) ==
  LET j == loop[l].key
      args == Args(data(l)) IN
  /\ loop[l].found
  /\ db' = [db EXCEPT ![args[j]] = None]
  /\ \/ Reply(l, Err)
     \/ IF j = Len(args) THEN Reply(l, loop[l].count + 1)
        ELSE loop' = [loop EXCEPT ![l].key = j + 1, ![l].found = FALSE, ![l].count = @ + 1]
  /\ UNCHANGED <<loopOf, sent, stream, buffer, replies, ch, cut>>

\* What does not touch the database.
Other(l) ==
  LET d == data(l)
      n == d[1].n
      op == d[2].arg IN
  /\ loop[l].conn # None /\ loop[l].key = 0 /\ parseRESPFrame(d)
  /\ CASE n = 0                                    -> Reply(l, "empty")
       [] n > 0 /\ op = "GET"                      -> n # 2 /\ Reply(l, "args")
       [] n > 0 /\ op = "EXISTS"                   -> n # 2 /\ Reply(l, "args")
       [] n > 0 /\ op = "SET"                      -> n # 3 /\ Reply(l, "args")
       [] n > 0 /\ op = "DEL"                      -> n < 2 /\ Reply(l, "args")
       [] n > 0 /\ op = "PING"                     -> Reply(l, IF n > 1 THEN d[3].arg ELSE "PONG")
       [] n > 0 /\ op = "ECHO"                     -> Reply(l, IF n > 1 THEN d[3].arg ELSE None)
       [] n > 0 /\ op = "QUIT"                     -> Reply(l, "OK")
       [] OTHER                                    -> Reply(l, "unknown")
  /\ UNCHANGED <<loopOf, sent, stream, buffer, replies, db, ch, cut>>

\* The evictor's run takes an access out of its channel.
Seen(m) ==
  /\ m \in ch
  /\ ch' = ch \ {m}
  /\ UNCHANGED <<loopOf, sent, stream, buffer, loop, replies, db, cut>>

Next ==
  \/ \E c \in Conn : \/ \E args \in CommandOf[c] : Send(c, args)
                     \/ \E n \in DOMAIN stream[c] : OnTraffic(c, n)
  \/ \E l \in EventLoop : Get(l) \/ Set(l) \/ DelLoad(l) \/ DelApply(l) \/ Other(l) \/ Write(l)
  \/ \E m \in ch : Seen(m)

Spec == Init /\ [][Next]_vars
-----------------------------------------------------------------------------
(* Properties.                                                             *)

\* Bytes that stay behind in the database and in the evictor's channel are what the
\* client sent, however often the buffer has been used since (#79, and the comment on
\* SET's copies).
Owned ==
  /\ \A k \in Key : db[k] # None => Deref(db[k]) = db[k].bytes
  /\ \A m \in ch : Deref(m.key) = m.hash

\* Nothing c sends is more than OnTraffic can parse in one go: no read ended inside a
\* command and no command has too many arguments.
Whole(c) == c \notin cut /\ \A i \in DOMAIN sent[c] : Len(sent[c][i]) <= maxArgs

\* A connection's replies come in the order of its commands, each at most once, and
\* when all of its reads were whole, every command has one.
Answered ==
  \A c \in Conn :
    /\ \A i, j \in DOMAIN replies[c] : i < j => replies[c][i].of < replies[c][j].of
    /\ Whole(c) /\ stream[c] = << >> /\ loop[loopOf[c]].conn # c
         => Len(replies[c]) = Len(sent[c])

\* The commands c has had a reply to.
Done(c) == [i \in DOMAIN replies[c] |-> sent[c][replies[c][i].of]]
Writes(args, k) == args # << >> /\ args[1] \in {"SET", "DEL"} /\ k \in ToSet(Tail(args))

\* Pipelined commands take effect in their order: when nobody else writes k, a
\* connection's GET of k answers with its own last SET or DEL before it.  A DEL that
\* failed may have stopped before k.
SessionOrder ==
  \A c \in Conn, k \in Key : \A i \in DOMAIN replies[c] :
    LET earlier == {j \in 1 .. i - 1 : Writes(Done(c)[j], k)}
        last == Done(c)[Max(earlier)] IN
    /\ Done(c)[i] = <<"GET", k>> /\ earlier # {} /\ Whole(c)
    /\ \A j \in earlier : Done(c)[j][1] = "DEL" => replies[c][j].is # Err
    /\ \A d \in Conn \ {c} : \A j \in DOMAIN sent[d] : ~Writes(sent[d][j], k)
    => replies[c][i].is = IF last[1] = "SET" THEN last[3] ELSE None
=============================================================================
