------------------------------ MODULE Request ------------------------------
(***************************************************************************)
(* The life of a request (server/request.c): accepted and read by the      *)
(* event loop, queued, executed by the worker thread, and answered by the  *)
(* event loop again.  The queue is the PriorityQueue that the module       *)
(* TransQueue implements; the operation itself is the module Storage.      *)
(*                                                                         *)
(* A connection carries one message: the bytes of its length, the least    *)
(* significant first, and its body in MessagePack.  A cell stands for a    *)
(* byte: type is the mark it is when it is taken for the first byte of an  *)
(* object, n the number it is when it is taken for a number; an integer is *)
(* one cell, however large.  How many bytes recv and send move is the      *)
(* choice of the network, and a client may go away at any time.  recv and  *)
(* send that would block change nothing.                                   *)
(***************************************************************************)
EXTENDS Integers, Sequences

CONSTANTS
    Conn,             \* the connections that can be open at a time
    Message,          \* the messages that clients send
    Body,             \* Body[m] is the sequence of the cells of m
    Sends,            \* Sends[c] is the set of messages that c may carry
    LenBytes,         \* sizeof(msg_len)
    Base,             \* the number of values of a byte
    RecvMax,          \* sizeof(buffer) - 1
    MAX_MESSAGE_SIZE,
    Padding,          \* what the three bytes behind msg->cmd may hold
    ReplyLen,         \* the length of a reply
    NULL

Cell(type, n) == [type |-> type, n |-> n]
Zero == Cell("int", 0)
Cells == [type : {"int", "nil", "byte", "array", "str", "map", "reply"}, n : Nat]

ASSUME RequestAssumption ==
    /\ Body \in [Message -> Seq(Cells)]
    /\ \A m \in Message : Len(Body[m]) > 0 /\ Len(Body[m]) < Base ^ LenBytes
    /\ Sends \in [Conn -> SUBSET Message]
    /\ LenBytes \in Nat \ {0} /\ Base \in Nat \ {0} /\ ReplyLen \in Nat \ {0}
    /\ RecvMax \in Nat /\ RecvMax >= LenBytes
    /\ MAX_MESSAGE_SIZE \in Nat
    /\ Padding \subseteq Int /\ Padding # {}
    /\ NULL \notin Conn

(* Facts of arithmetic that the provers do not know. *)
ASSUME PowerAssumption == Base ^ 0 = 1 /\ \A k \in 0 .. LenBytes : Base ^ k \in Nat \ {0}

VARIABLES
    req,     \* the request of a connection
    watch,   \* its watcher: "off", "read" or "write", before the loop has told
             \* the kernel "reading" or "writing", and "lost" if it never will
    queue,   \* the transaction queue
    worker,  \* the worker: where it is, and whose transaction it has
    loop,    \* the event loop: "poll" in epoll_wait, "run" in the callbacks,
             \* "read" where parse_request falls through to READ
    async,   \* server.trigger is set
    process, \* "up" or "ended"
    out      \* what the client has got

vars == <<req, watch, queue, worker, loop, async, process, out>>

Entry == [key : Int, trans : Conn]

PQ == INSTANCE PriorityQueue

Idle == [pc |-> "wait", conn |-> NULL]

(* A message as the code has it: the command, and one string or two. *)
NoMsg == [cmd |-> 0, data |-> <<>>]
NoRequest == [state |-> "none", sent |-> NULL, got |-> 0, total |-> 0,
              buf |-> <<>>, msg |-> NoMsg, whole |-> FALSE]

Init ==
    /\ req = [c \in Conn |-> NoRequest]
    /\ watch = [c \in Conn |-> "off"]
    /\ PQ!Init
    /\ worker = Idle
    /\ loop = [pc |-> "poll", conn |-> NULL]
    /\ async = FALSE
    /\ process = "up"
    /\ out = [c \in Conn |-> <<>>]
-----------------------------------------------------------------------------
(* The event loop of libev. *)

Running == process = "up" /\ loop.pc = "run"

(* epoll_wait returns: the trigger, or a watched socket. *)
Wake ==
    /\ process = "up" /\ loop.pc = "poll"
    /\ async \/ \E c \in Conn : watch[c] \in {"read", "write"}
    /\ loop' = [loop EXCEPT !.pc = "run"]
    /\ async' = FALSE
    /\ UNCHANGED <<req, watch, queue, worker, process, out>>

(* After the callbacks the loop tells the kernel what was started. *)
Poll ==
    /\ Running
    /\ loop' = [loop EXCEPT !.pc = "poll"]
    /\ watch' = [c \in Conn |-> CASE watch[c] = "reading" -> "read"
                                  [] watch[c] = "writing" -> "write"
                                  [] OTHER -> watch[c]]
    /\ UNCHANGED <<req, queue, worker, async, process, out>>

(* The process dies of a signal. *)
Dies ==
    /\ process' = "ended"
    /\ UNCHANGED <<req, watch, queue, worker, loop, async, out>>

init_request(c, m) ==
    /\ req' = [req EXCEPT ![c] = [NoRequest EXCEPT !.state = "INIT", !.sent = m]]
    /\ watch' = [watch EXCEPT ![c] = "reading"]
    /\ out' = [out EXCEPT ![c] = <<>>]

(* A connection comes.  It may get the memory of a freed request to which  *)
(* the worker still has a pointer.                                         *)
accept_cb(c, m) ==
    /\ process = "up" /\ loop.pc \in {"poll", "run"}
    /\ req[c] = NoRequest
    /\ init_request(c, m)
    /\ loop' = [loop EXCEPT !.pc = "run"]
    /\ UNCHANGED <<queue, worker, async, process>>

(* Called from the event loop, whose callback returns then. *)
destroy_request(c) ==
    /\ req' = [req EXCEPT ![c] = NoRequest]
    /\ watch' = [watch EXCEPT ![c] = "off"]
    /\ loop' = [pc |-> "run", conn |-> NULL]
    /\ UNCHANGED <<queue, worker, async, process, out>>
-----------------------------------------------------------------------------
(* The bytes that come over a connection. *)

Wire ==
    [m \in Message |->
        [i \in 1 .. LenBytes |-> Cell("int", (Len(Body[m]) \div Base ^ (i - 1)) % Base)]
            \o Body[m]]

(* msg_len: the bytes that have not come are zero in the local buffer. *)
LengthRead(m, bytes) ==
    Len(Body[m]) % Base ^ (IF bytes > LenBytes THEN LenBytes ELSE bytes)

(* What a byte of the stack may be. *)
Stack == {Zero, Cell("byte", Base)}

(* The bytes of the local buffer behind the length.  The buffer is zeroed  *)
(* and has one byte more than recv may fill; what is read behind its end   *)
(* is whatever is on the stack.                                            *)
Copied(m, bytes, count, stack) ==
    [i \in 1 .. count |->
        IF LenBytes + i <= bytes THEN Wire[m][LenBytes + i]
        ELSE IF LenBytes + i <= RecvMax + 1 THEN Zero ELSE stack]

Bytes2Copy(bytes, len) == IF bytes > len THEN len ELSE bytes

(* What does not fit is refused as a whole. *)
buffer_push(buf, total, cells) ==
    IF Len(buf) + Len(cells) > total THEN buf ELSE buf \o cells

buffer_left(r) == r.total - Len(r.buf)

AtMost(a, b) == 0 .. (IF a < b THEN a ELSE b)
-----------------------------------------------------------------------------
(* msgpack_unpack_next, parse_data and parse_command. *)

(* A string at i: its mark, its size, its bytes. *)
IsString(b, i) ==
    /\ i + 1 <= Len(b) /\ b[i].type = "str"
    /\ i + 1 + b[i + 1].n <= Len(b)
After(b, i) == i + 2 + b[i + 1].n
String(b, i) == SubSeq(b, i + 2, i + 1 + b[i + 1].n)

(* Mutant: the size counts the final zero. *)
MessageSetShort(s) == [i \in DOMAIN s |-> IF i = Len(s) THEN Zero ELSE s[i]]

(* message_set copies with strncpy: from the first zero byte on, zeros. *)
message_set(s) ==
    [i \in DOMAIN s |-> IF \E j \in 1 .. i : s[j].n = 0 THEN Zero ELSE s[i]]

IsPair(b) == Len(b) >= 2 /\ b[1].type = "array" /\ b[2].type = "int"

(* Data that is neither a string nor a map makes the code log the number   *)
(* of its type with the format of a string; that of nil is printed.  A     *)
(* byte may be the mark of any object, and an array may be incomplete.     *)
MayLogBadType(b) ==
    Len(b) >= 3 /\ b[1].type = "array" /\ b[3].type \in {"int", "byte", "array"}
LogsBadType(b) == MayLogBadType(b) /\ b[3].type = "int"

Accepted(b) ==
    /\ IsPair(b) /\ Len(b) >= 3
    /\ \/ IsString(b, 3)
       \/ b[3].type = "map" /\ IsString(b, 4) /\ IsString(b, After(b, 4))

(* The key, or the key and the value of the first pair of the map. *)
Strings(b) ==
    IF b[3].type = "str" THEN <<String(b, 3)>>
    ELSE <<String(b, 4), String(b, After(b, 4))>>

(* The command is an enumeration of one byte. *)
message_command(num) == num % Base

Msg(b) == [cmd |-> message_command(b[2].n),
           data |-> [i \in DOMAIN Strings(b) |-> message_set(Strings(b)[i])]]

Known(cmd) == cmd \in 1 .. 5
-----------------------------------------------------------------------------
(* parse_request *)

InCallback(c) ==
    /\ process = "up"
    /\ loop = [pc |-> "read", conn |-> c] \/ (Running /\ watch[c] = "read")

(* Reply(cmd) is what serialize_reply makes of the result of cmd. *)
Reply(cmd) == [i \in 1 .. ReplyLen |-> Cell("reply", Base * cmd + i)]

(* request_reply up to ev_io_init: a buffer of the size of the reply. *)
request_reply(r, reply) ==
    [r EXCEPT !.state = "WRITE", !.total = Len(reply),
              !.buf = buffer_push(<<>>, Len(reply), reply)]

(* on_request answers an unknown command itself, and wakes itself. *)
ReplyAtOnce(c, msg) ==
    /\ req' = [req EXCEPT
            ![c] = request_reply([@ EXCEPT !.msg = msg, !.got = 0], Reply(0))]
    /\ watch' = [watch EXCEPT ![c] = "writing"]
    /\ loop' = [pc |-> "run", conn |-> NULL]
    /\ async' = TRUE
    /\ UNCHANGED <<queue, worker, process, out>>

(* Mutant: the watcher of a queued request is not stopped. *)
EnqueueWatched(c, msg) ==
    /\ req' = [req EXCEPT ![c].state = "SERVICE", ![c].buf = <<>>, ![c].msg = msg,
                          ![c].got = 0]
    /\ \E pad \in Padding : PQ!Push([key |-> msg.cmd + 256 * pad, trans |-> c])
    /\ loop' = [pc |-> "run", conn |-> NULL]
    /\ UNCHANGED <<watch, worker, async, process, out>>

(* on_request: convert_request and push_queue.  The key of the entry is    *)
(* read as an int from the one byte command.                               *)
Enqueue(c, msg) ==
    /\ req' = [req EXCEPT ![c].state = "SERVICE", ![c].buf = <<>>, ![c].msg = msg,
                          ![c].got = 0]
    /\ watch' = [watch EXCEPT ![c] = "off"]
    /\ \E pad \in Padding : PQ!Push([key |-> msg.cmd + 256 * pad, trans |-> c])
    /\ loop' = [pc |-> "run", conn |-> NULL]
    /\ UNCHANGED <<worker, async, process, out>>

(* The case PARSE, with the bytes that are in the buffer.  A number that   *)
(* is no command may be an index behind the names of the commands.         *)
Parse(c, b) ==
    \/ MayLogBadType(b) /\ Dies
    \/ ~LogsBadType(b) /\ ~Accepted(b) /\ destroy_request(c)
    \/ Accepted(b) /\ Known(Msg(b).cmd) /\ Enqueue(c, Msg(b))
    \/ Accepted(b) /\ ~Known(Msg(b).cmd) /\ ReplyAtOnce(c, Msg(b))
    \/ Accepted(b) /\ Msg(b).cmd > 5 /\ Dies

(* The case INIT, up to the fall through. *)
parse_init(c) ==
    /\ Running /\ watch[c] = "read" /\ req[c].state = "INIT"
    /\ \E bytes \in AtMost(RecvMax, Len(Wire[req[c].sent])), stack \in Stack :
         LET m == req[c].sent
             len == LengthRead(m, bytes)
             copied == Copied(m, bytes, Bytes2Copy(bytes, len), stack)
         IN  IF len > MAX_MESSAGE_SIZE THEN destroy_request(c)
             ELSE /\ req' = [req EXCEPT
                        ![c].state = "READ", ![c].got = bytes, ![c].total = len,
                        ![c].whole = (bytes = Len(Wire[m])),
                        ![c].buf = buffer_push(<<>>, len, copied)]
                  /\ loop' = [pc |-> "read", conn |-> c]
                  /\ UNCHANGED <<watch, queue, worker, async, process, out>>

(* The case READ: what is left is asked for once, and whatever comes is    *)
(* the end of the message (!buffer_left(buf) negates only buf->total).     *)
parse_read(c) ==
    /\ InCallback(c) /\ req[c].state = "READ"
    /\ LET r == req[c]
           rest == SubSeq(Wire[r.sent], r.got + 1, Len(Wire[r.sent]))
       IN  \E bytes \in AtMost(buffer_left(r), Len(rest)) :
             Parse(c, r.buf \o SubSeq(rest, 1, bytes))

(* recv would block, and parse_request returns from the fall through. *)
parse_blocks(c) ==
    /\ process = "up" /\ loop = [pc |-> "read", conn |-> c]
    /\ buffer_left(req[c]) > 0
    /\ loop' = [pc |-> "run", conn |-> NULL]
    /\ UNCHANGED <<req, watch, queue, worker, async, process, out>>

(* recv fails, or the state is none of the three. *)
parse_fails(c) ==
    /\ InCallback(c)
    /\ req[c].state = "READ" => buffer_left(req[c]) > 0
    /\ destroy_request(c)

parse_request(c) ==
    parse_init(c) \/ parse_read(c) \/ parse_blocks(c) \/ parse_fails(c)
-----------------------------------------------------------------------------
(* write_reply *)

(* Mutant: the start of the buffer does not move. *)
WriteAgain(c) ==
    \E bytes \in 1 .. Len(req[c].buf) :
      /\ out' = [out EXCEPT ![c] = @ \o SubSeq(req[c].buf, 1, bytes)]
      /\ req' = [req EXCEPT ![c].buf = SubSeq(@, 1, Len(@) - bytes)]
      /\ UNCHANGED <<watch, queue, worker, loop, async, process>>

Write(c) ==
    \E bytes \in 1 .. Len(req[c].buf) :
      /\ out' = [out EXCEPT ![c] = @ \o SubSeq(req[c].buf, 1, bytes)]
      /\ req' = [req EXCEPT ![c].buf = SubSeq(@, bytes + 1, Len(@))]
      /\ UNCHANGED <<watch, queue, worker, loop, async, process>>

(* A request is destroyed when all is written, or when send fails. *)
write_reply(c) ==
    /\ Running /\ watch[c] = "write"
    /\ \/ req[c].state = "WRITE" /\ Write(c)
       \/ destroy_request(c)
-----------------------------------------------------------------------------
(* transaction_queue_worker *)

(* Mutant: the worker does not wait for an entry. *)
PopForced ==
    /\ process = "up" /\ worker.pc = "wait" /\ queue = {}
    /\ worker' = [pc |-> "execute", conn |-> NULL]
    /\ UNCHANGED <<req, watch, queue, loop, async, process, out>>

pop_queue ==
    /\ process = "up" /\ worker.pc = "wait"
    /\ \E e \in queue : PQ!Pop(e) /\ worker' = [pc |-> "execute", conn |-> e.trans]
    /\ UNCHANGED <<req, watch, loop, async, process, out>>

(* operation_update destroys the request and returns NULL, from which      *)
(* serialize_reply reads the code.                                         *)
execute_update ==
    /\ process = "up" /\ worker.pc = "execute" /\ req[worker.conn].msg.cmd = 4
    /\ Dies

(* What two threads that change the list of started watchers at the same   *)
(* time may lose: one of the new ones.                                     *)
Losses(c) ==
    LET started == {c} \cup {d \in Conn : watch[d] \in {"reading", "writing"}}
    IN  {{}} \cup (IF loop.pc = "poll" THEN {} ELSE {{d} : d \in started})

(* The operation and request_reply up to ev_io_start. *)
execute ==
    /\ process = "up" /\ worker.pc = "execute" /\ req[worker.conn].msg.cmd # 4
    /\ LET c == worker.conn
       IN  /\ req' = [req EXCEPT ![c] = request_reply(@, Reply(@.msg.cmd))]
           /\ \E lost \in Losses(c) :
                watch' = [d \in Conn |-> IF d \in lost THEN "lost"
                                         ELSE IF d = c THEN "writing" ELSE watch[d]]
    /\ worker' = [worker EXCEPT !.pc = "send"]
    /\ UNCHANGED <<queue, loop, async, process, out>>

(* Mutant: the loop is not woken. *)
NoAsyncSend ==
    /\ process = "up" /\ worker.pc = "send"
    /\ worker' = Idle
    /\ UNCHANGED <<req, watch, queue, loop, async, process, out>>

(* ev_async_send, with the server taken from the request.  The loop may    *)
(* have written the reply and freed the request before.                    *)
async_send ==
    /\ process = "up" /\ worker.pc = "send"
    /\ worker' = Idle
    /\ async' = TRUE
    /\ UNCHANGED <<req, watch, queue, loop, process, out>>

async_send_freed ==
    /\ process = "up" /\ worker.pc = "send" /\ req[worker.conn] = NoRequest
    /\ Dies
-----------------------------------------------------------------------------
LoopStep ==
    \/ Wake \/ Poll
    \/ \E c \in Conn : parse_request(c) \/ write_reply(c)

WorkerStep == pop_queue \/ execute_update \/ execute \/ async_send \/ async_send_freed

Next ==
    \/ \E c \in Conn : \E m \in Sends[c] : accept_cb(c, m)
    \/ LoopStep \/ WorkerStep

Spec == Init /\ [][Next]_vars

(* Both threads run on.  In every round libev calls the watchers that are  *)
(* ready, and every client sends on, reads on, or goes away.               *)
FairSpec ==
    /\ Spec
    /\ WF_vars(Wake) /\ WF_vars(Poll) /\ WF_vars(WorkerStep)
    /\ \A c \in Conn : SF_vars(parse_request(c)) /\ SF_vars(write_reply(c))
-----------------------------------------------------------------------------
(* The values of a request, its watcher, the queue and the two threads; a  *)
(* buffer never holds more than its total.                                 *)
TypeOK ==
    /\ \A c \in Conn :
         /\ req[c].state \in {"none", "INIT", "READ", "SERVICE", "WRITE"}
         /\ req[c].sent \in Message \cup {NULL}
         /\ req[c].buf \in Seq(Cells) /\ Len(req[c].buf) <= req[c].total
         /\ req[c].total \in Nat /\ req[c].got \in Nat
         /\ out[c] \in Seq(Cells)
    /\ watch \in [Conn -> {"off", "read", "write", "reading", "writing", "lost"}]
    /\ queue \subseteq Entry
    /\ worker \in {Idle} \cup [pc : {"execute", "send"}, conn : Conn]
    /\ loop \in [pc : {"poll", "run"}, conn : {NULL}] \cup [pc : {"read"}, conn : Conn]
    /\ async \in BOOLEAN /\ process \in {"up", "ended"}

(* The requests that were given to the worker thread. *)
Given ==
    {e.trans : e \in queue} \cup (IF worker.pc = "execute" THEN {worker.conn} ELSE {})

(* From push_queue to ev_io_start a request belongs to the worker: it is   *)
(* there once, nothing can call back on it, and so the loop neither frees  *)
(* nor changes it.  Every request in SERVICE is on its way.                *)
WorkerOwns ==
    process = "up" =>
        /\ \A c \in Conn : c \in Given <=> req[c].state = "SERVICE"
        /\ \A c \in Given : watch[c] = "off" /\ loop.conn # c
        /\ \A e, f \in queue : e.trans = f.trans => e = f
        /\ worker.pc = "execute" => \A e \in queue : e.trans # worker.conn

(* What a client has got is a part of one reply, the reply to the command  *)
(* the server understood on this connection, in order and without gaps,    *)
(* and what is left in the buffer is the rest of it.                       *)
OwnReply ==
    \A c \in Conn :
        req[c].state = "WRITE" =>
            out[c] \o req[c].buf = Reply(IF Known(req[c].msg.cmd) THEN req[c].msg.cmd ELSE 0)

AsSent(c) ==
    LET b == Body[req[c].sent] IN req[c].msg = [cmd |-> b[2].n, data |-> Strings(b)]

HasNul(m) ==
    \E i \in DOMAIN Strings(Body[m]) :
        \E j \in DOMAIN Strings(Body[m])[i] : Strings(Body[m])[i][j].n = 0

(* The number that the client sent for a command fits into a byte. *)
Fits(m) == Body[m][2].n < Base

(* What is executed is the command that the client sent, on what the       *)
(* client sent, with three exceptions: a number too large for a byte is    *)
(* another command, and a message that did not come with one recv, or that *)
(* has a zero byte in its strings, may have other strings.  Pieces and     *)
(* zero bytes never change the command.                                    *)
OnlySplitAlters ==
    \A c \in Given : Fits(req[c].sent) =>
        /\ req[c].msg.cmd = Body[req[c].sent][2].n
        /\ req[c].whole /\ ~HasNul(req[c].sent) => AsSent(c)

(* A request that is not waiting in the queue gets there or comes to its   *)
(* end, with its connection closed, unless its watcher was lost.  (In the  *)
(* queue it may be overtaken for ever by requests with smaller keys.)      *)
RequestsEnd ==
    \A c \in Conn :
        LET waits == \E e \in queue : e.trans = c
        IN  (req[c].state # "none" /\ ~waits)
                ~> (req[c].state = "none" \/ waits \/ watch[c] = "lost" \/ process = "ended")
-----------------------------------------------------------------------------
(* TODO.md: the transaction that the client asked for is put into the      *)
(* queue.                                                                  *)
QueuedAsSent == \A c \in Given : AsSent(c)
=============================================================================
