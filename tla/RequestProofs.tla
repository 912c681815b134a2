---------------------------- MODULE RequestProofs ----------------------------
(***************************************************************************)
(* The life of a request, for any number of connections, any messages and  *)
(* any way the network cuts them.                                          *)
(*                                                                         *)
(* The argument is about who may touch a request.  Its state and its       *)
(* watcher go together: a watcher that can call back belongs to a request  *)
(* that is being read or written, and a request in SERVICE has none, so    *)
(* that the loop cannot reach it (Watching).  On top of that, the buffer   *)
(* of a request that is being read is what recv has left there (ReadInv)   *)
(* and nothing was sent before the reply (Unanswered).                     *)
(***************************************************************************)
EXTENDS Request, SequenceTheorems, TLAPS

ParsedMessage == [cmd : Nat, data : Seq(Seq(Cells))]

Requests ==
    [state : {"none", "INIT", "READ", "SERVICE", "WRITE"}, sent : Message \cup {NULL},
     got : Nat, total : Nat, buf : Seq(Cells), msg : ParsedMessage, whole : BOOLEAN]

(* The types of the variables, requests and messages as whole records. *)
Typed ==
    /\ req \in [Conn -> Requests]
    /\ out \in [Conn -> Seq(Cells)]
    /\ watch \in [Conn -> {"off", "read", "write", "reading", "writing", "lost"}]
    /\ queue \subseteq Entry
    /\ worker \in {Idle} \cup [pc : {"execute", "send"}, conn : Conn]
    /\ loop \in [pc : {"poll", "run"}, conn : {NULL}] \cup [pc : {"read"}, conn : Conn]
    /\ async \in BOOLEAN /\ process \in {"up", "ended"}

(* A buffer holds no more than its total, and only a free slot has no      *)
(* message.                                                                *)
Sized ==
    \A c \in Conn :
        /\ Len(req[c].buf) <= req[c].total
        /\ req[c].state # "none" => req[c].sent \in Message

(* The watcher of a request and its state. *)
Watching ==
    /\ \A c \in Conn :
         /\ watch[c] \in {"read", "reading"} => req[c].state \in {"INIT", "READ"}
         /\ watch[c] \in {"write", "writing"} => req[c].state = "WRITE"
         /\ watch[c] = "lost" => req[c].state \in {"INIT", "READ", "WRITE"}
    /\ loop.pc = "read" => watch[loop.conn] = "read" /\ req[loop.conn].state = "READ"

(* A request is in SERVICE exactly while the worker thread owns it. *)
Owned ==
    /\ \A c \in Conn : c \in Given <=> req[c].state = "SERVICE"
    /\ \A e, f \in queue : e.trans = f.trans => e = f
    /\ worker.pc = "execute" => \A e \in queue : e.trans # worker.conn

(* Before the reply nothing is sent, and the worker gets known commands. *)
Unanswered ==
    \A c \in Conn :
        /\ req[c].state \in {"INIT", "READ", "SERVICE"} => out[c] = <<>>
        /\ req[c].state = "SERVICE" => Known(req[c].msg.cmd)

Inv == Typed /\ Sized /\ Watching /\ Owned
-----------------------------------------------------------------------------
(* Facts about the bytes. *)

(* A zero byte and a byte of the stack are cells. *)
LEMMA StackCells == Zero \in Cells /\ Stack \subseteq Cells
BY RequestAssumption DEF Zero, Stack, Cell, Cells

(* The length in front of a message, and its body behind it. *)
LEMMA WireBytes ==
    ASSUME NEW m \in Message
    PROVE  /\ Body[m] \in Seq(Cells) /\ Len(Body[m]) \in Nat
           /\ Wire[m] \in Seq(Cells)
           /\ Len(Wire[m]) = LenBytes + Len(Body[m])
           /\ \A i \in 1 .. Len(Body[m]) : Wire[m][LenBytes + i] = Body[m][i]
<1> DEFINE head == [i \in 1 .. LenBytes |->
                       Cell("int", (Len(Body[m]) \div Base ^ (i - 1)) % Base)]
<1>1. Body[m] \in Seq(Cells) /\ Len(Body[m]) \in Nat
  BY RequestAssumption
<1>2. ASSUME NEW i \in 1 .. LenBytes PROVE head[i] \in Cells
  <2>1. i - 1 \in 0 .. LenBytes BY RequestAssumption
  <2> DEFINE pow == Base ^ (i - 1)
             l == Len(Body[m])
  <2>2. pow \in Nat \ {0} BY <2>1, PowerAssumption
  <2>3. l \in Nat BY <1>1
  <2> HIDE DEF pow, l
  <2>4. l \div pow \in Nat BY <2>2, <2>3
  <2>5. (l \div pow) % Base \in Nat BY <2>4, RequestAssumption
  <2> QED BY <2>5 DEF Cell, Cells, pow, l
<1>3. head \in Seq(Cells) /\ Len(head) = LenBytes
  <2>1. LenBytes \in Nat BY RequestAssumption
  <2> HIDE DEF head
  <2>2. DOMAIN head = 1 .. LenBytes BY DEF head
  <2>3. head \in [1 .. LenBytes -> Cells] BY <1>2 DEF head
  <2> QED BY <2>1, <2>2, <2>3
<1>4. Wire[m] = head \o Body[m]
  BY DEF Wire
<1> HIDE DEF head
<1>5. LenBytes \in Nat BY RequestAssumption
<1>6. /\ Wire[m] \in Seq(Cells)
      /\ Len(Wire[m]) = LenBytes + Len(Body[m])
      /\ \A i \in 1 .. LenBytes + Len(Body[m]) :
            Wire[m][i] = IF i <= LenBytes THEN head[i] ELSE Body[m][i - LenBytes]
  <2> DEFINE b == Body[m]
             w == head \o b
  <2>1. b \in Seq(Cells) BY <1>1
  <2> HIDE DEF b
  <2>2. /\ w \in Seq(Cells)
        /\ Len(w) = LenBytes + Len(b)
        /\ \A i \in 1 .. LenBytes + Len(b) :
              w[i] = IF i <= LenBytes THEN head[i] ELSE b[i - LenBytes]
    BY <1>3, <2>1, <1>5
  <2> QED BY <1>4, <2>2 DEF b
<1>7. ASSUME NEW i \in 1 .. Len(Body[m]) PROVE Wire[m][LenBytes + i] = Body[m][i]
  <2>1. /\ LenBytes + i \in 1 .. LenBytes + Len(Body[m])
        /\ ~(LenBytes + i <= LenBytes) /\ (LenBytes + i) - LenBytes = i
    BY <1>1, <1>5
  <2> QED BY <2>1, <1>6
<1> QED BY <1>1, <1>6, <1>7

(* The length is read right once all of its bytes are there. *)
LEMMA LengthBytes ==
    ASSUME NEW m \in Message, NEW bytes \in Nat
    PROVE  /\ LengthRead(m, bytes) \in Nat
           /\ bytes >= LenBytes => LengthRead(m, bytes) = Len(Body[m])
           /\ bytes = 0 => LengthRead(m, bytes) = 0
<1> DEFINE k == IF bytes > LenBytes THEN LenBytes ELSE bytes
           pow == Base ^ k
           l == Len(Body[m])
<1>1. k \in 0 .. LenBytes BY RequestAssumption
<1>2. pow \in Nat \ {0} BY <1>1, PowerAssumption
<1>3. l \in Nat BY WireBytes
<1>4. LengthRead(m, bytes) = l % pow BY DEF LengthRead
<1>5. bytes >= LenBytes => l < pow
  <2>1. bytes >= LenBytes => k = LenBytes BY RequestAssumption
  <2> HIDE DEF k
  <2> QED BY <2>1, RequestAssumption
<1>6. bytes = 0 => pow = 1
  <2>1. bytes = 0 => k = 0 BY RequestAssumption
  <2> HIDE DEF k
  <2> QED BY <2>1, PowerAssumption
<1> HIDE DEF pow, l
<1>7. l % pow \in Nat BY <1>2, <1>3
<1>8. l < pow => l % pow = l BY <1>2, <1>3
<1>9. pow = 1 => l % pow = 0 BY <1>3
<1> QED BY <1>4, <1>5, <1>6, <1>7, <1>8, <1>9 DEF l

(* The copied bytes are cells, as many as were asked for. *)
LEMMA CopiedCells ==
    ASSUME NEW m \in Message, NEW bytes \in Nat, bytes <= Len(Wire[m]),
           NEW count \in Nat, NEW stack \in Stack
    PROVE  /\ Copied(m, bytes, count, stack) \in Seq(Cells)
           /\ Len(Copied(m, bytes, count, stack)) = count
<1> DEFINE cells == Copied(m, bytes, count, stack)
<1>1. ASSUME NEW i \in 1 .. count PROVE cells[i] \in Cells
  <2>1. CASE LenBytes + i <= bytes
    <3>1. LenBytes + i \in 1 .. Len(Wire[m]) BY <2>1, WireBytes, RequestAssumption
    <3> QED BY <2>1, <3>1, WireBytes DEF Copied
  <2>2. CASE ~(LenBytes + i <= bytes)
    BY <2>2, StackCells DEF Copied
  <2> QED BY <2>1, <2>2
<1>2. DOMAIN cells = 1 .. count /\ cells = [i \in 1 .. count |-> cells[i]]
  BY DEF Copied
<1> HIDE DEF cells
<1>3. cells \in [1 .. count -> Cells] BY <1>1, <1>2
<1>4. cells \in Seq(Cells) /\ Len(cells) = count BY <1>2, <1>3
<1> QED BY <1>4 DEF cells

(* What buffer_push leaves in an empty buffer fits. *)
LEMMA PushFits ==
    ASSUME NEW total \in Nat, NEW cells \in Seq(Cells)
    PROVE  /\ buffer_push(<<>>, total, cells) \in Seq(Cells)
           /\ Len(buffer_push(<<>>, total, cells)) <= total
           /\ Len(cells) <= total => buffer_push(<<>>, total, cells) = cells
BY DEF buffer_push

(* A reply is a sequence of cells. *)
LEMMA ReplyCells ==
    ASSUME NEW cmd \in Nat
    PROVE  Reply(cmd) \in Seq(Cells) /\ Len(Reply(cmd)) = ReplyLen
<1> DEFINE reply == Reply(cmd)
<1>1. ReplyLen \in Nat /\ Base \in Nat BY RequestAssumption
<1>2. ASSUME NEW i \in 1 .. ReplyLen PROVE reply[i] \in Cells
  <2>1. Base * cmd + i \in Nat BY <1>1
  <2> QED BY <2>1 DEF Reply, Cell, Cells
<1>3. DOMAIN reply = 1 .. ReplyLen /\ reply = [i \in 1 .. ReplyLen |-> reply[i]]
  BY DEF Reply
<1> HIDE DEF reply
<1>4. reply \in [1 .. ReplyLen -> Cells] BY <1>2, <1>3
<1>5. reply \in Seq(Cells) /\ Len(reply) = ReplyLen BY <1>1, <1>3, <1>4
<1> QED BY <1>5 DEF reply

(* request_reply stores the whole reply. *)
LEMMA ReplyStored ==
    ASSUME NEW r \in Requests, NEW cmd \in Nat
    PROVE  request_reply(r, Reply(cmd)) =
               [r EXCEPT !.state = "WRITE", !.total = ReplyLen, !.buf = Reply(cmd)]
<1>1. Reply(cmd) \in Seq(Cells) /\ Len(Reply(cmd)) = ReplyLen /\ ReplyLen \in Nat
  BY ReplyCells, RequestAssumption
<1>2. buffer_push(<<>>, ReplyLen, Reply(cmd)) = Reply(cmd)
  BY <1>1, PushFits
<1> QED BY <1>1, <1>2 DEF request_reply

(* message_set keeps the size. *)
LEMMA SetCells ==
    ASSUME NEW s \in Seq(Cells)
    PROVE  message_set(s) \in Seq(Cells)
<1> DEFINE t == message_set(s)
<1>1. Len(s) \in Nat /\ DOMAIN s = 1 .. Len(s) OBVIOUS
<1>2. \A i \in 1 .. Len(s) : t[i] \in Cells
  BY StackCells DEF message_set
<1>3. t = [i \in 1 .. Len(s) |-> t[i]]
  BY <1>1 DEF message_set
<1> HIDE DEF t
<1>4. t \in [1 .. Len(s) -> Cells] BY <1>2, <1>3
<1>5. t \in Seq(Cells) BY <1>1, <1>4
<1> QED BY <1>5 DEF t

(* A string of a body is a part of it. *)
LEMMA StringCells ==
    ASSUME NEW b \in Seq(Cells), NEW i \in Nat \ {0}, IsString(b, i)
    PROVE  String(b, i) \in Seq(Cells) /\ After(b, i) \in Nat \ {0}
<1>1. i + 1 \in 1 .. Len(b) BY DEF IsString
<1>2. b[i + 1] \in Cells BY <1>1
<1>3. b[i + 1].n \in Nat BY <1>2 DEF Cells
<1> DEFINE n == b[i + 1].n
<1>4. i + 1 + n <= Len(b) BY DEF IsString
<1> HIDE DEF n
<1>5. \A j \in i + 2 .. i + 1 + n : b[j] \in Cells BY <1>3, <1>4 DEF n
<1>6. SubSeq(b, i + 2, i + 1 + n) \in Seq(Cells)
  BY <1>3, <1>5, SubSeqProperties DEF n
<1> QED BY <1>3, <1>6 DEF String, After, n

(* A number that fits into a byte is kept by the one byte of a command. *)
LEMMA SmallCommand ==
    ASSUME NEW x \in Nat, x < Base
    PROVE  message_command(x) = x
<1>1. Base \in Int /\ Base > 0 BY RequestAssumption
<1>2. x % Base = x BY <1>1
<1> QED BY <1>2 DEF message_command

(* What is parsed from an accepted body is a message. *)
LEMMA ParsedCells ==
    ASSUME NEW b \in Seq(Cells), Accepted(b)
    PROVE  /\ Msg(b) \in ParsedMessage
           /\ b[2].n \in Nat /\ Msg(b).cmd = b[2].n % Base
           /\ Strings(b) \in Seq(Seq(Cells))
<1>1. Len(b) >= 3 /\ b[2] \in Cells /\ b[3] \in Cells
  BY DEF Accepted
<1>2. b[2].n \in Nat BY <1>1 DEF Cells
<1>3. Strings(b) \in Seq(Seq(Cells))
  <2>1. CASE b[3].type = "str"
    <3>1. IsString(b, 3) BY <2>1 DEF Accepted
    <3>2. String(b, 3) \in Seq(Cells) BY <3>1, StringCells
    <3> QED BY <2>1, <3>2 DEF Strings
  <2>2. CASE b[3].type # "str"
    <3>1. IsString(b, 4) /\ IsString(b, After(b, 4)) BY <2>2 DEF Accepted, IsString
    <3>2. String(b, 4) \in Seq(Cells) /\ After(b, 4) \in Nat \ {0}
      BY <3>1, StringCells
    <3>3. String(b, After(b, 4)) \in Seq(Cells)
      BY <3>1, <3>2, StringCells
    <3> QED BY <2>2, <3>2, <3>3 DEF Strings
  <2> QED BY <2>1, <2>2
<1> DEFINE s == Strings(b)
           d == [i \in DOMAIN s |-> message_set(s[i])]
<1>4. Len(s) \in Nat /\ DOMAIN s = 1 .. Len(s) /\ \A i \in 1 .. Len(s) : s[i] \in Seq(Cells)
  BY <1>3
<1> HIDE DEF s
<1>5. \A i \in 1 .. Len(s) : message_set(s[i]) \in Seq(Cells)
  BY <1>4, SetCells
<1>6. d \in [1 .. Len(s) -> Seq(Cells)] BY <1>4, <1>5
<1>7. d \in Seq(Seq(Cells)) BY <1>4, <1>6
<1>8. Msg(b) = [cmd |-> b[2].n % Base, data |-> d] BY DEF Msg, message_command, s
<1>9. b[2].n % Base \in Nat BY <1>2, RequestAssumption
<1> HIDE DEF d
<1> QED BY <1>2, <1>3, <1>7, <1>8, <1>9 DEF ParsedMessage
-----------------------------------------------------------------------------
(* A freed slot is a request. *)
LEMMA NoRequestType ==
    /\ NoRequest \in Requests /\ NoRequest.state = "none"
    /\ NoRequest.buf = <<>> /\ NoRequest.total = 0
BY DEF NoRequest, Requests, NoMsg, ParsedMessage

(* The fields of a request. *)
LEMMA RequestFields ==
    ASSUME NEW r \in Requests
    PROVE  /\ r.state \in {"none", "INIT", "READ", "SERVICE", "WRITE"}
           /\ r.sent \in Message \cup {NULL}
           /\ r.got \in Nat /\ r.total \in Nat /\ r.buf \in Seq(Cells)
           /\ r.msg \in ParsedMessage /\ r.msg.cmd \in Nat /\ r.whole \in BOOLEAN
BY DEF Requests, ParsedMessage

(* The invariant holds before the first connection. *)
LEMMA InitInv == Init => Inv
<1> SUFFICES ASSUME Init PROVE Inv
    OBVIOUS
<1> USE DEF Init, PQ!Init, Idle
<1>1. \A c \in Conn : req[c] = NoRequest /\ watch[c] = "off" OBVIOUS
<1>2. Typed
  <2>1. req \in [Conn -> Requests] BY NoRequestType
  <2>2. out \in [Conn -> Seq(Cells)] OBVIOUS
  <2>3. watch \in [Conn -> {"off", "read", "write", "reading", "writing", "lost"}] OBVIOUS
  <2>4. loop \in [pc : {"poll", "run"}, conn : {NULL}] OBVIOUS
  <2> QED BY <2>1, <2>2, <2>3, <2>4 DEF Typed
<1>3. Sized
  <2>1. Len(NoRequest.buf) <= NoRequest.total BY NoRequestType
  <2> QED BY <1>1, <2>1, NoRequestType DEF Sized
<1>4. Watching BY <1>1 DEF Watching
<1>5. Owned BY <1>1, NoRequestType DEF Owned, Given
<1> QED BY <1>2, <1>3, <1>4, <1>5 DEF Inv

(* What a step does to one request, its watcher and the loop, when the     *)
(* worker thread does not own it before or after.                          *)
LEMMA OneRequestKeeps ==
    ASSUME Inv, NEW c \in Conn, NEW r \in Requests, NEW w,
           req' = [req EXCEPT ![c] = r], watch' = [watch EXCEPT ![c] = w],
           req[c].state # "SERVICE",
           Len(r.buf) <= r.total, r.state # "none" => r.sent \in Message,
           \/ w = "off" /\ r.state \in {"none"}
           \/ w \in {"read", "reading"} /\ r.state \in {"INIT", "READ"}
           \/ w \in {"write", "writing"} /\ r.state = "WRITE",
           loop' \in [pc : {"poll", "run"}, conn : {NULL}]
               \/ (loop' = [pc |-> "read", conn |-> c] /\ w = "read" /\ r.state = "READ"),
           queue' = queue, worker' = worker,
           async' \in BOOLEAN, process' \in {"up", "ended"},
           out' \in [Conn -> Seq(Cells)]
    PROVE  Inv'
<1>t. /\ req \in [Conn -> Requests]
      /\ watch \in [Conn -> {"off", "read", "write", "reading", "writing", "lost"}]
  BY DEF Inv, Typed
<1>2. /\ req'[c] = r /\ watch'[c] = w
      /\ \A d \in Conn \ {c} : req'[d] = req[d] /\ watch'[d] = watch[d]
  BY <1>t
<1>3. Given' = Given BY DEF Given
<1>4. Typed'
  <2>1. req' \in [Conn -> Requests] BY <1>t
  <2>2. watch' \in [Conn -> {"off", "read", "write", "reading", "writing", "lost"}]
    BY <1>t
  <2> QED BY <2>1, <2>2 DEF Inv, Typed
<1>5. Sized' BY <1>2 DEF Inv, Sized
<1>6. Watching'
  <2>1. ASSUME NEW d \in Conn
        PROVE  /\ watch'[d] \in {"read", "reading"} => req'[d].state \in {"INIT", "READ"}
               /\ watch'[d] \in {"write", "writing"} => req'[d].state = "WRITE"
               /\ watch'[d] = "lost" => req'[d].state \in {"INIT", "READ", "WRITE"}
    <3>1. CASE d = c BY <3>1, <1>2
    <3>2. CASE d # c BY <3>2, <1>2 DEF Inv, Watching
    <3> QED BY <3>1, <3>2
  <2>2. loop'.pc = "read" => watch'[loop'.conn] = "read" /\ req'[loop'.conn].state = "READ"
    <3>1. CASE loop' \in [pc : {"poll", "run"}, conn : {NULL}] BY <3>1
    <3>2. CASE loop' = [pc |-> "read", conn |-> c] /\ w = "read" /\ r.state = "READ"
      <4>1. loop'.conn = c BY <3>2
      <4> QED BY <4>1, <3>2, <1>2
    <3> QED BY <3>1, <3>2
  <2> QED BY <2>1, <2>2 DEF Watching
<1>7. Owned'
  <2>1. \A d \in Conn : d \in Given <=> req[d].state = "SERVICE" BY DEF Inv, Owned
  <2>2. r.state # "SERVICE" OBVIOUS
  <2>3. \A d \in Conn : d \in Given' <=> req'[d].state = "SERVICE"
    BY <1>2, <1>3, <2>1, <2>2
  <2> QED BY <2>3 DEF Inv, Owned
<1> QED BY <1>4, <1>5, <1>6, <1>7 DEF Inv

(* Freeing a request that the worker does not own. *)
LEMMA DestroyKeeps ==
    ASSUME Inv, NEW c \in Conn, destroy_request(c), req[c].state # "SERVICE"
    PROVE  Inv'
<1>1. /\ req' = [req EXCEPT ![c] = NoRequest]
      /\ watch' = [watch EXCEPT ![c] = "off"]
      /\ loop' = [pc |-> "run", conn |-> NULL]
      /\ UNCHANGED <<queue, worker, async, process, out>>
  BY DEF destroy_request
<1>2. loop' \in [pc : {"poll", "run"}, conn : {NULL}] BY <1>1
<1>3. async \in BOOLEAN /\ process \in {"up", "ended"} /\ out \in [Conn -> Seq(Cells)]
  BY DEF Inv, Typed
<1>4. Len(NoRequest.buf) <= NoRequest.total BY NoRequestType
<1> QED BY <1>1, <1>2, <1>3, <1>4, NoRequestType, OneRequestKeeps

(* The end of the process changes nothing else. *)
LEMMA DiesKeeps == ASSUME Inv, Dies PROVE Inv'
BY DEF Dies, Inv, Typed, Sized, Watching, Owned, Given

(* A request that was understood goes to the worker thread. *)
LEMMA EnqueueKeeps ==
    ASSUME Inv, NEW c \in Conn, NEW msg \in ParsedMessage, Enqueue(c, msg),
           req[c].state = "READ"
    PROVE  /\ Inv'
           /\ req'[c] = [req[c] EXCEPT !.state = "SERVICE", !.buf = <<>>, !.msg = msg, !.got = 0]
           /\ \A d \in Conn \ {c} : req'[d] = req[d]
<1>t. /\ req \in [Conn -> Requests]
      /\ watch \in [Conn -> {"off", "read", "write", "reading", "writing", "lost"}]
  BY DEF Inv, Typed
<1>1. /\ req' = [req EXCEPT ![c].state = "SERVICE", ![c].buf = <<>>, ![c].msg = msg,
                            ![c].got = 0]
      /\ watch' = [watch EXCEPT ![c] = "off"]
      /\ loop' = [pc |-> "run", conn |-> NULL]
      /\ UNCHANGED <<worker, async, process, out>>
  BY DEF Enqueue
<1>2. PICK pad \in Padding :
          queue' = queue \cup {[key |-> msg.cmd + 256 * pad, trans |-> c]}
  BY DEF Enqueue, PQ!Push
<1> DEFINE e == [key |-> msg.cmd + 256 * pad, trans |-> c]
<1>3. e \in Entry
  <2>1. msg.cmd \in Nat /\ pad \in Int BY RequestAssumption DEF ParsedMessage
  <2>2. msg.cmd + 256 * pad \in Int BY <2>1
  <2> QED BY <2>2, Zenon DEF Entry
<1>4. e.trans = c OBVIOUS
<1> HIDE DEF e
<1>5. queue' = queue \cup {e} BY <1>2 DEF e
<1>6. /\ req'[c] = [req[c] EXCEPT !.state = "SERVICE", !.buf = <<>>, !.msg = msg, !.got = 0]
      /\ \A d \in Conn \ {c} : req'[d] = req[d] /\ watch'[d] = watch[d]
      /\ watch'[c] = "off"
      /\ DOMAIN req' = Conn /\ req' = [d \in Conn |-> req'[d]]
  BY <1>1, <1>t
<1> DEFINE r == req[c]
           r1 == req'[c]
<1>r. r \in Requests BY <1>t
<1>7. /\ r1 \in Requests /\ r1.state = "SERVICE" /\ r1.buf = <<>>
      /\ r1.sent = r.sent /\ r1.total = r.total
  <2>1. r1 = [r EXCEPT !.state = "SERVICE", !.buf = <<>>, !.msg = msg, !.got = 0]
    BY <1>6
  <2> HIDE DEF r, r1
  <2>2. <<>> \in Seq(Cells) OBVIOUS
  <2> QED BY <2>1, <2>2, <1>r DEF Requests
<1>8. Given' = Given \cup {c} BY <1>1, <1>4, <1>5 DEF Given
<1>9. Typed'
  <2>1. req' \in [Conn -> Requests] BY <1>6, <1>7, <1>t
  <2>2. loop' \in [pc : {"poll", "run"}, conn : {NULL}] BY <1>1
  <2>3. watch' \in [Conn -> {"off", "read", "write", "reading", "writing", "lost"}]
    BY <1>1, <1>t
  <2>4. queue' \subseteq Entry BY <1>3, <1>5 DEF Inv, Typed
  <2> QED BY <1>1, <2>1, <2>2, <2>3, <2>4 DEF Inv, Typed
<1>10. Sized'
  <2>1. Len(r1.buf) <= r1.total /\ r.sent \in Message
    <3>1. r.total \in Nat BY <1>r, RequestFields
    <3> QED BY <3>1, <1>7 DEF Inv, Sized
  <2> QED BY <2>1, <1>6, <1>7, ZenonT(60) DEF Inv, Sized
<1>11. Watching'
  <2>1. loop'.pc # "read" BY <1>1
  <2> QED BY <2>1, <1>6, <1>7 DEF Inv, Watching
<1>12. Owned'
  <2>0. /\ \A d \in Conn : d \in Given <=> req[d].state = "SERVICE"
        /\ \A f, g \in queue : f.trans = g.trans => f = g
        /\ worker.pc = "execute" => \A f \in queue : f.trans # worker.conn
    BY DEF Inv, Owned
  <2>1. c \notin Given BY <2>0
  <2>2. \A f \in queue : f.trans # c BY <2>1 DEF Given
  <2>3. worker.pc = "execute" => worker.conn # c BY <2>1 DEF Given
  <2>4. \A d \in Conn : d \in Given' <=> req'[d].state = "SERVICE"
    <3>1. TAKE d \in Conn
    <3>2. CASE d = c BY <3>2, <1>7, <1>8
    <3>3. CASE d # c BY <3>3, <1>6, <1>8, <2>0
    <3> QED BY <3>2, <3>3
  <2>5. \A f, g \in queue' : f.trans = g.trans => f = g
    BY <1>4, <1>5, <2>0, <2>2
  <2>6. worker'.pc = "execute" => \A f \in queue' : f.trans # worker'.conn
    BY <1>1, <1>4, <1>5, <2>0, <2>3
  <2> QED BY <2>4, <2>5, <2>6 DEF Owned
<1> QED BY <1>6, <1>9, <1>10, <1>11, <1>12 DEF Inv

(* An unknown command is answered by the event loop. *)
LEMMA ReplyAtOnceKeeps ==
    ASSUME Inv, NEW c \in Conn, NEW msg \in ParsedMessage, ReplyAtOnce(c, msg),
           req[c].state = "READ"
    PROVE  /\ Inv'
           /\ req'[c] = [req[c] EXCEPT !.msg = msg, !.got = 0, !.state = "WRITE",
                                       !.total = ReplyLen, !.buf = Reply(0)]
           /\ \A d \in Conn \ {c} : req'[d] = req[d]
<1> DEFINE r == [req[c] EXCEPT !.msg = msg, !.got = 0]
           r1 == [req[c] EXCEPT !.msg = msg, !.got = 0, !.state = "WRITE",
                                !.total = ReplyLen, !.buf = Reply(0)]
<1>t. req \in [Conn -> Requests] /\ req[c] \in Requests
  BY DEF Inv, Typed
<1>1. /\ req' = [req EXCEPT ![c] = request_reply(r, Reply(0))]
      /\ watch' = [watch EXCEPT ![c] = "writing"]
      /\ loop' = [pc |-> "run", conn |-> NULL]
      /\ async' = TRUE
      /\ UNCHANGED <<queue, worker, process, out>>
  BY DEF ReplyAtOnce
<1>2. r \in Requests BY <1>t DEF Requests
<1>3. request_reply(r, Reply(0)) =
          [r EXCEPT !.state = "WRITE", !.total = ReplyLen, !.buf = Reply(0)]
  BY <1>2, ReplyStored
<1>4. request_reply(r, Reply(0)) = r1
  BY <1>3, <1>t DEF Requests
<1>5. Reply(0) \in Seq(Cells) /\ Len(Reply(0)) = ReplyLen /\ ReplyLen \in Nat
  BY ReplyCells, RequestAssumption
<1>6. /\ r1 \in Requests /\ r1.state = "WRITE" /\ r1.sent = req[c].sent
      /\ r1.buf = Reply(0) /\ r1.total = ReplyLen
  BY <1>t, <1>5 DEF Requests
<1> HIDE DEF r, r1
<1>7. req' = [req EXCEPT ![c] = r1] BY <1>1, <1>4
<1>8. loop' \in [pc : {"poll", "run"}, conn : {NULL}] BY <1>1
<1>9. process \in {"up", "ended"} /\ out \in [Conn -> Seq(Cells)] /\ async' \in BOOLEAN
  BY <1>1 DEF Inv, Typed
<1>10. Len(r1.buf) <= r1.total /\ r1.sent \in Message
  BY <1>5, <1>6 DEF Inv, Sized
<1>11. Inv'
  BY <1>1, <1>6, <1>7, <1>8, <1>9, <1>10, OneRequestKeeps
<1>12. req'[c] = r1 /\ \A d \in Conn \ {c} : req'[d] = req[d]
  BY <1>7, <1>t
<1> QED BY <1>11, <1>12 DEF r1
-----------------------------------------------------------------------------
(* The bytes that PARSE sees: the buffer, and what the second recv brings. *)
BodyRead(r, bytes) ==
    r.buf \o SubSeq(SubSeq(Wire[r.sent], r.got + 1, Len(Wire[r.sent])), 1, bytes)

ReadChoices(r) ==
    AtMost(buffer_left(r), Len(SubSeq(Wire[r.sent], r.got + 1, Len(Wire[r.sent]))))

(* They are cells. *)
LEMMA BodyReadCells ==
    ASSUME NEW r \in Requests, r.sent \in Message, Len(r.buf) <= r.total,
           NEW bytes \in ReadChoices(r)
    PROVE  BodyRead(r, bytes) \in Seq(Cells) /\ bytes \in Nat /\ bytes <= buffer_left(r)
<1> DEFINE w == Wire[r.sent]
           rest == SubSeq(w, r.got + 1, Len(w))
<1>1. w \in Seq(Cells) /\ Len(w) \in Nat BY WireBytes
<1>2. r.got \in Nat /\ r.buf \in Seq(Cells) /\ r.total \in Nat BY RequestFields
<1> HIDE DEF w
<1>3. rest \in Seq(Cells)
  <2>1. \A i \in r.got + 1 .. Len(w) : w[i] \in Cells BY <1>1, <1>2
  <2> QED BY <1>1, <1>2, <2>1, SubSeqProperties
<1> HIDE DEF rest
<1>4. Len(rest) \in Nat /\ buffer_left(r) \in Nat
  BY <1>2, <1>3 DEF buffer_left
<1>5. bytes \in Nat /\ bytes <= Len(rest) /\ bytes <= buffer_left(r)
  <2>1. bytes \in AtMost(buffer_left(r), Len(rest)) BY DEF ReadChoices, rest, w
  <2> QED BY <1>4, <2>1 DEF AtMost
<1>6. SubSeq(rest, 1, bytes) \in Seq(Cells)
  <2>1. \A i \in 1 .. bytes : rest[i] \in Cells BY <1>3, <1>4, <1>5
  <2> QED BY <1>5, <2>1, SubSeqProperties
<1>7. r.buf \o SubSeq(rest, 1, bytes) \in Seq(Cells)
  BY <1>2, <1>6, ConcatProperties
<1> QED BY <1>5, <1>7 DEF BodyRead, rest, w

(* parse_read in these terms. *)
LEMMA ReadStep ==
    ASSUME Inv, NEW c \in Conn, parse_read(c)
    PROVE  /\ req[c].state = "READ"
           /\ \E bytes \in ReadChoices(req[c]) : Parse(c, BodyRead(req[c], bytes))
BY DEF parse_read, ReadChoices, BodyRead

(* The first recv: what parse_init leaves when it does not refuse. *)
FirstRecv(r, bytes, stack) ==
    LET len == LengthRead(r.sent, bytes)
    IN  [r EXCEPT !.state = "READ", !.got = bytes, !.total = len,
                  !.whole = (bytes = Len(Wire[r.sent])),
                  !.buf = buffer_push(<<>>, len,
                                      Copied(r.sent, bytes, Bytes2Copy(bytes, len), stack))]

(* It stores what it has copied, which fits. *)
LEMMA FirstRecvStores ==
    ASSUME NEW r \in Requests, r.sent \in Message, NEW bytes \in Nat,
           bytes <= Len(Wire[r.sent]), NEW stack \in Stack
    PROVE  /\ FirstRecv(r, bytes, stack) \in Requests
           /\ FirstRecv(r, bytes, stack).state = "READ"
           /\ FirstRecv(r, bytes, stack).sent = r.sent
           /\ FirstRecv(r, bytes, stack).got = bytes
           /\ FirstRecv(r, bytes, stack).total = LengthRead(r.sent, bytes)
           /\ FirstRecv(r, bytes, stack).whole = (bytes = Len(Wire[r.sent]))
           /\ FirstRecv(r, bytes, stack).buf =
                 Copied(r.sent, bytes, Bytes2Copy(bytes, LengthRead(r.sent, bytes)), stack)
           /\ Len(FirstRecv(r, bytes, stack).buf) <= LengthRead(r.sent, bytes)
<1> DEFINE len == LengthRead(r.sent, bytes)
           n == Bytes2Copy(bytes, len)
           cells == Copied(r.sent, bytes, n, stack)
           f == FirstRecv(r, bytes, stack)
           whole == bytes = Len(Wire[r.sent])
<1>1. len \in Nat BY LengthBytes
<1>2. n \in Nat /\ n <= len BY <1>1 DEF Bytes2Copy
<1> HIDE DEF n, len
<1>3. cells \in Seq(Cells) /\ Len(cells) = n BY <1>2, CopiedCells
<1> HIDE DEF cells
<1>4. buffer_push(<<>>, len, cells) = cells
  BY <1>1, <1>2, <1>3, PushFits
<1>5. f = [r EXCEPT !.state = "READ", !.got = bytes, !.total = len,
                    !.whole = whole, !.buf = cells]
  BY <1>4 DEF FirstRecv, len, n, cells
<1>6. whole \in BOOLEAN OBVIOUS
<1> HIDE DEF f, whole
<1>7. /\ f \in Requests /\ f.state = "READ" /\ f.sent = r.sent /\ f.got = bytes
      /\ f.total = len /\ f.whole = whole /\ f.buf = cells
  BY <1>1, <1>3, <1>5, <1>6 DEF Requests
<1>8. Len(f.buf) <= len BY <1>2, <1>3, <1>7, <1>1
<1> QED BY <1>7, <1>8 DEF f, cells, n, len, whole

(* parse_init in these terms. *)
LEMMA FirstRecvStep ==
    ASSUME Inv, NEW c \in Conn, parse_init(c)
    PROVE  /\ req[c].state = "INIT" /\ watch[c] = "read"
           /\ \/ destroy_request(c)
              \/ /\ \E bytes \in AtMost(RecvMax, Len(Wire[req[c].sent])), stack \in Stack :
                       req' = [req EXCEPT ![c] = FirstRecv(req[c], bytes, stack)]
                 /\ loop' = [pc |-> "read", conn |-> c]
                 /\ UNCHANGED <<watch, queue, worker, async, process, out>>
<1>1. req[c].state = "INIT" /\ watch[c] = "read" BY DEF parse_init
<1>2. PICK bytes \in AtMost(RecvMax, Len(Wire[req[c].sent])), stack \in Stack :
         LET m == req[c].sent
             len == LengthRead(m, bytes)
             copied == Copied(m, bytes, Bytes2Copy(bytes, len), stack)
         IN  IF len > MAX_MESSAGE_SIZE THEN destroy_request(c)
             ELSE /\ req' = [req EXCEPT
                        ![c].state = "READ", ![c].got = bytes, ![c].total = len,
                        ![c].whole = (bytes = Len(Wire[m])),
                        ![c].buf = buffer_push(<<>>, len, copied)]
                  /\ loop' = [pc |-> "read", conn |-> c]
                  /\ UNCHANGED <<watch, queue, worker, async, process, out>>
  BY DEF parse_init
<1>3. CASE LengthRead(req[c].sent, bytes) > MAX_MESSAGE_SIZE
  BY <1>1, <1>2, <1>3
<1>4. CASE ~(LengthRead(req[c].sent, bytes) > MAX_MESSAGE_SIZE)
  <2>1. req' = [req EXCEPT ![c] = FirstRecv(req[c], bytes, stack)]
    <3>1. req \in [Conn -> Requests] BY DEF Inv, Typed
    <3> DEFINE m == req[c].sent
               len == LengthRead(m, bytes)
               push == buffer_push(<<>>, len, Copied(m, bytes, Bytes2Copy(bytes, len), stack))
               whole == bytes = Len(Wire[m])
    <3>2. req' = [req EXCEPT ![c].state = "READ", ![c].got = bytes, ![c].total = len,
                             ![c].whole = whole, ![c].buf = push]
      BY <1>2, <1>4
    <3>3. FirstRecv(req[c], bytes, stack) =
              [req[c] EXCEPT !.state = "READ", !.got = bytes, !.total = len,
                             !.whole = whole, !.buf = push]
      BY DEF FirstRecv
    <3> HIDE DEF len, push, whole
    <3> QED BY <3>1, <3>2, <3>3 DEF Requests
  <2> QED BY <1>1, <1>2, <1>4, <2>1
<1> QED BY <1>3, <1>4

(* The invariant is kept by every step of the two threads and the network. *)
LEMMA NextInv == Inv /\ [Next]_vars => Inv'
<1> SUFFICES ASSUME Inv, [Next]_vars PROVE Inv'
    OBVIOUS
<1>t. /\ req \in [Conn -> Requests] /\ out \in [Conn -> Seq(Cells)]
      /\ watch \in [Conn -> {"off", "read", "write", "reading", "writing", "lost"}]
      /\ async \in BOOLEAN /\ process \in {"up", "ended"}
      /\ queue \subseteq Entry
      /\ worker \in {Idle} \cup [pc : {"execute", "send"}, conn : Conn]
      /\ loop \in [pc : {"poll", "run"}, conn : {NULL}] \cup [pc : {"read"}, conn : Conn]
  BY DEF Inv, Typed
<1>r. \A c \in Conn : req[c] \in Requests BY <1>t
<1>1. ASSUME NEW c \in Conn, NEW m \in Sends[c], accept_cb(c, m) PROVE Inv'
  <2> DEFINE r == [NoRequest EXCEPT !.state = "INIT", !.sent = m]
  <2>1. m \in Message BY <1>1, RequestAssumption
  <2>2. /\ req' = [req EXCEPT ![c] = r] /\ watch' = [watch EXCEPT ![c] = "reading"]
        /\ out' = [out EXCEPT ![c] = <<>>] /\ req[c] = NoRequest
        /\ loop' = [loop EXCEPT !.pc = "run"] /\ loop.pc \in {"poll", "run"}
        /\ UNCHANGED <<queue, worker, async, process>>
    BY <1>1 DEF accept_cb, init_request
  <2>3. r \in Requests /\ r.state = "INIT" /\ r.sent = m /\ Len(r.buf) <= r.total
    <3>1. /\ r \in Requests /\ r.state = "INIT" /\ r.sent = m
          /\ r.buf = <<>> /\ r.total = 0
      BY <2>1, NoRequestType DEF Requests
    <3> QED BY <3>1
  <2> HIDE DEF r
  <2>4. loop' \in [pc : {"poll", "run"}, conn : {NULL}] BY <2>2, <1>t
  <2>5. out' \in [Conn -> Seq(Cells)] BY <2>2, <1>t
  <2>6. req[c].state # "SERVICE" BY <2>2, NoRequestType
  <2> QED BY <1>t, <2>1, <2>2, <2>3, <2>4, <2>5, <2>6, OneRequestKeeps
<1>2. CASE Wake
  <2>1. /\ loop.pc = "poll" /\ loop' = [loop EXCEPT !.pc = "run"] /\ async' = FALSE
        /\ UNCHANGED <<req, watch, queue, worker, process, out>>
    BY <1>2 DEF Wake
  <2>2. loop' \in [pc : {"poll", "run"}, conn : {NULL}] BY <2>1, <1>t
  <2>3. Typed' BY <2>1, <2>2 DEF Inv, Typed
  <2>4. loop'.pc # "read" BY <2>2
  <2> QED BY <2>1, <2>3, <2>4 DEF Inv, Sized, Watching, Owned, Given
<1>3. CASE Poll
  <2>1. /\ loop.pc = "run" /\ loop' = [loop EXCEPT !.pc = "poll"]
        /\ watch' = [c \in Conn |-> CASE watch[c] = "reading" -> "read"
                                      [] watch[c] = "writing" -> "write"
                                      [] OTHER -> watch[c]]
        /\ UNCHANGED <<req, queue, worker, async, process, out>>
    BY <1>3 DEF Poll, Running
  <2>2. loop' \in [pc : {"poll", "run"}, conn : {NULL}] BY <2>1, <1>t
  <2>3. \A c \in Conn : watch'[c] = IF watch[c] = "reading" THEN "read"
                                     ELSE IF watch[c] = "writing" THEN "write" ELSE watch[c]
    BY <2>1
  <2>4. watch' \in [Conn -> {"off", "read", "write", "reading", "writing", "lost"}]
    <3>1. DOMAIN watch' = Conn /\ watch' = [c \in Conn |-> watch'[c]] BY <2>1
    <3> QED BY <2>3, <3>1, <1>t
  <2>5. Typed' BY <2>1, <2>2, <2>4 DEF Inv, Typed
  <2>6. Watching'
    <3>1. loop'.pc # "read" BY <2>2
    <3> QED BY <2>1, <2>3, <3>1 DEF Inv, Watching
  <2> QED BY <2>1, <2>5, <2>6 DEF Inv, Sized, Owned, Given
<1>4. ASSUME NEW c \in Conn, parse_init(c) PROVE Inv'
  <2>1. req[c].state = "INIT" /\ watch[c] = "read" BY <1>4, FirstRecvStep
  <2>2. CASE destroy_request(c) BY <2>1, <2>2, DestroyKeeps
  <2>3. CASE /\ \E bytes \in AtMost(RecvMax, Len(Wire[req[c].sent])), stack \in Stack :
                   req' = [req EXCEPT ![c] = FirstRecv(req[c], bytes, stack)]
             /\ loop' = [pc |-> "read", conn |-> c]
             /\ UNCHANGED <<watch, queue, worker, async, process, out>>
    <3>1. PICK bytes \in AtMost(RecvMax, Len(Wire[req[c].sent])), stack \in Stack :
              req' = [req EXCEPT ![c] = FirstRecv(req[c], bytes, stack)]
      BY <2>3
    <3>2. req[c].sent \in Message BY <2>1 DEF Inv, Sized
    <3>3. bytes \in Nat /\ bytes <= Len(Wire[req[c].sent])
      BY <3>2, WireBytes, RequestAssumption DEF AtMost
    <3> DEFINE f == FirstRecv(req[c], bytes, stack)
    <3>4. f \in Requests /\ f.state = "READ" /\ f.sent \in Message /\ Len(f.buf) <= f.total
      BY <1>r, <3>2, <3>3, FirstRecvStores
    <3> HIDE DEF f
    <3>5. req' = [req EXCEPT ![c] = f] BY <3>1 DEF f
    <3>6. watch' = [watch EXCEPT ![c] = "read"] BY <2>1, <2>3, <1>t
    <3>7. /\ queue' = queue /\ worker' = worker /\ loop' = [pc |-> "read", conn |-> c]
          /\ async' \in BOOLEAN /\ process' \in {"up", "ended"}
          /\ out' \in [Conn -> Seq(Cells)]
      BY <1>t, <2>3
    <3>8. req[c].state # "SERVICE" BY <2>1
    <3> QED BY <3>4, <3>5, <3>6, <3>7, <3>8, OneRequestKeeps
  <2> QED BY <2>2, <2>3, <1>4, FirstRecvStep
<1>5. ASSUME NEW c \in Conn, parse_read(c) PROVE Inv'
  <2>1. req[c].state = "READ" BY <1>5, ReadStep
  <2>2. PICK bytes \in ReadChoices(req[c]) : Parse(c, BodyRead(req[c], bytes))
    BY <1>5, ReadStep
  <2> DEFINE b == BodyRead(req[c], bytes)
  <2>3. b \in Seq(Cells)
    BY <1>r, <2>1, BodyReadCells DEF Inv, Sized
  <2> HIDE DEF b
  <2>4. CASE Dies BY <2>4, DiesKeeps
  <2>5. CASE destroy_request(c) BY <2>1, <2>5, DestroyKeeps
  <2>6. CASE Accepted(b) /\ Enqueue(c, Msg(b))
    BY <2>1, <2>3, <2>6, ParsedCells, EnqueueKeeps
  <2>7. CASE Accepted(b) /\ ReplyAtOnce(c, Msg(b))
    BY <2>1, <2>3, <2>7, ParsedCells, ReplyAtOnceKeeps
  <2> QED BY <2>2, <2>4, <2>5, <2>6, <2>7 DEF Parse, b
<1>6. ASSUME NEW c \in Conn, parse_blocks(c) PROVE Inv'
  <2>1. /\ loop' = [pc |-> "run", conn |-> NULL]
        /\ UNCHANGED <<req, watch, queue, worker, async, process, out>>
    BY <1>6 DEF parse_blocks
  <2>2. loop' \in [pc : {"poll", "run"}, conn : {NULL}] /\ loop'.pc # "read" BY <2>1
  <2>3. Typed' BY <2>1, <2>2 DEF Inv, Typed
  <2> QED BY <2>1, <2>2, <2>3 DEF Inv, Sized, Watching, Owned, Given
<1>7. ASSUME NEW c \in Conn, parse_fails(c) PROVE Inv'
  <2>1. destroy_request(c) BY <1>7 DEF parse_fails
  <2>2. req[c].state # "SERVICE"
    BY <1>7 DEF parse_fails, InCallback, Inv, Watching
  <2> QED BY <2>1, <2>2, DestroyKeeps
<1>8. ASSUME NEW c \in Conn, write_reply(c) PROVE Inv'
  <2>1. watch[c] = "write" /\ loop.pc = "run" /\ req[c].state = "WRITE"
    BY <1>8 DEF write_reply, Running, Inv, Watching
  <2>2. CASE destroy_request(c) BY <2>1, <2>2, DestroyKeeps
  <2>3. CASE Write(c)
    <3>1. PICK bytes \in 1 .. Len(req[c].buf) :
            /\ out' = [out EXCEPT ![c] = @ \o SubSeq(req[c].buf, 1, bytes)]
            /\ req' = [req EXCEPT ![c].buf = SubSeq(@, bytes + 1, Len(@))]
            /\ UNCHANGED <<watch, queue, worker, loop, async, process>>
      BY <2>3 DEF Write
    <3> DEFINE buf == req[c].buf
               rest == SubSeq(buf, bytes + 1, Len(buf))
               r == [req[c] EXCEPT !.buf = rest]
    <3>2. buf \in Seq(Cells) /\ req[c].total \in Nat BY <1>r, RequestFields
    <3>3. Len(buf) <= req[c].total /\ req[c].sent \in Message
      BY <2>1 DEF Inv, Sized
    <3>4. req' = [req EXCEPT ![c] = r] BY <3>1, <1>t
    <3> HIDE DEF buf
    <3>5. bytes \in 1 .. Len(buf) BY DEF buf
    <3>6. rest \in Seq(Cells) /\ Len(rest) <= Len(buf)
      <4>1. \A i \in bytes + 1 .. Len(buf) : buf[i] \in Cells BY <3>2, <3>5
      <4> QED BY <3>2, <3>5, <4>1, SubSeqProperties
    <3>7. SubSeq(buf, 1, bytes) \in Seq(Cells)
      <4>1. \A i \in 1 .. bytes : buf[i] \in Cells BY <3>2, <3>5
      <4> QED BY <3>2, <3>5, <4>1, SubSeqProperties
    <3> HIDE DEF rest
    <3>8. /\ r \in Requests /\ r.state = "WRITE" /\ r.sent \in Message
          /\ r.buf = rest /\ r.total = req[c].total
      BY <1>r, <2>1, <3>3, <3>6 DEF Requests
    <3> HIDE DEF r
    <3>9. Len(r.buf) <= r.total BY <3>2, <3>3, <3>6, <3>8
    <3>10. out' \in [Conn -> Seq(Cells)]
      <4>1. out[c] \o SubSeq(buf, 1, bytes) \in Seq(Cells)
        BY <1>t, <3>7, ConcatProperties
      <4> QED BY <1>t, <3>1, <4>1 DEF buf
    <3>11. watch' = [watch EXCEPT ![c] = "write"] BY <2>1, <3>1, <1>t
    <3>12. loop' \in [pc : {"poll", "run"}, conn : {NULL}] BY <2>1, <3>1, <1>t
    <3>13. /\ queue' = queue /\ worker' = worker
           /\ async' \in BOOLEAN /\ process' \in {"up", "ended"}
      BY <1>t, <3>1
    <3>14. req[c].state # "SERVICE" BY <2>1
    <3> QED BY <3>4, <3>8, <3>9, <3>10, <3>11, <3>12, <3>13, <3>14, OneRequestKeeps
  <2> QED BY <1>8, <2>2, <2>3 DEF write_reply
<1>9. CASE pop_queue
  <2>1. PICK e \in queue : /\ queue' = queue \ {e}
                           /\ worker' = [pc |-> "execute", conn |-> e.trans]
    BY <1>9 DEF pop_queue, PQ!Pop
  <2>2. UNCHANGED <<req, watch, loop, async, process, out>> /\ worker.pc = "wait"
    BY <1>9 DEF pop_queue
  <2>3. e.trans \in Conn BY <1>t DEF Entry
  <2>4. /\ \A d \in Conn : d \in Given <=> req[d].state = "SERVICE"
        /\ \A f, g \in queue : f.trans = g.trans => f = g
    BY DEF Inv, Owned
  <2>5. Given' = Given
    <3>1. Given = {f.trans : f \in queue} BY <2>2 DEF Given
    <3>2. Given' = {f.trans : f \in queue \ {e}} \cup {e.trans} BY <2>1 DEF Given
    <3> QED BY <3>1, <3>2
  <2>6. Typed'
    <3>1. worker' \in [pc : {"execute", "send"}, conn : Conn] BY <2>1, <2>3
    <3> QED BY <2>1, <2>2, <3>1 DEF Inv, Typed
  <2>7. Owned'
    <3>1. \A f \in queue' : f.trans # e.trans BY <2>1, <2>4
    <3> QED BY <2>1, <2>2, <2>4, <2>5, <3>1 DEF Owned
  <2> QED BY <2>2, <2>6, <2>7 DEF Inv, Sized, Watching
<1>10. CASE execute_update \/ async_send_freed
  BY <1>10, DiesKeeps DEF execute_update, async_send_freed
<1>11. CASE execute
  <2> DEFINE c == worker.conn
             r == req[c]
             r1 == request_reply(r, Reply(r.msg.cmd))
  <2>1. worker.pc = "execute" /\ worker' = [worker EXCEPT !.pc = "send"]
        /\ UNCHANGED <<queue, loop, async, process, out>>
    BY <1>11 DEF execute
  <2>2. c \in Conn /\ worker' \in [pc : {"execute", "send"}, conn : Conn] /\ worker'.pc = "send"
    BY <2>1, <1>t, SMTT(30) DEF Idle
  <2>3. PICK lost \in Losses(c) :
            watch' = [d \in Conn |-> IF d \in lost THEN "lost"
                                     ELSE IF d = c THEN "writing" ELSE watch[d]]
    BY <1>11 DEF execute
  <2>4. req' = [req EXCEPT ![c] = r1]
    BY <1>11 DEF execute
  <2>5. c \in Given /\ r.state = "SERVICE"
    BY <2>1, <2>2 DEF Given, Inv, Owned
  <2>6. r \in Requests /\ r.msg.cmd \in Nat BY <1>r, <2>2, RequestFields
  <2>7. r1 = [r EXCEPT !.state = "WRITE", !.total = ReplyLen, !.buf = Reply(r.msg.cmd)]
    BY <2>6, ReplyStored
  <2>8. Reply(r.msg.cmd) \in Seq(Cells) /\ Len(Reply(r.msg.cmd)) = ReplyLen /\ ReplyLen \in Nat
    BY <2>6, ReplyCells, RequestAssumption
  <2> HIDE DEF r, r1
  <2>9. /\ r1 \in Requests /\ r1.state = "WRITE" /\ r1.sent = r.sent
        /\ Len(r1.buf) <= r1.total
    <3> DEFINE rep == Reply(r.msg.cmd)
    <3>1. r1 = [r EXCEPT !.state = "WRITE", !.total = ReplyLen, !.buf = rep] BY <2>7
    <3>2. rep \in Seq(Cells) /\ Len(rep) = ReplyLen /\ ReplyLen \in Nat BY <2>8
    <3> HIDE DEF rep
    <3>3. /\ r1 \in Requests /\ r1.state = "WRITE" /\ r1.sent = r.sent
          /\ r1.buf = rep /\ r1.total = ReplyLen
      BY <2>6, <3>1, <3>2 DEF Requests
    <3> QED BY <3>2, <3>3
  <2> HIDE DEF c
  <2>10. req'[c] = r1 /\ \A d \in Conn \ {c} : req'[d] = req[d]
    BY <1>t, <2>2, <2>4
  <2>11. /\ \A d \in lost : d = c \/ watch[d] \in {"reading", "writing"}
         /\ \A d \in Conn \ {c} : watch'[d] = IF d \in lost THEN "lost" ELSE watch[d]
         /\ watch'[c] \in {"lost", "writing"}
    BY <2>2, <2>3 DEF Losses
  <2>12. Typed'
    <3>1. req' \in [Conn -> Requests] BY <1>t, <2>2, <2>4, <2>9
    <3>2. watch' \in [Conn -> {"off", "read", "write", "reading", "writing", "lost"}]
      BY <1>t, <2>3
    <3> QED BY <2>1, <2>2, <3>1, <3>2 DEF Inv, Typed
  <2>13. Sized'
    <3>1. r1.sent \in Message BY <2>2, <2>5, <2>9 DEF Inv, Sized, r
    <3> QED BY <2>9, <2>10, <3>1 DEF Inv, Sized
  <2>14. Watching'
    <3>1. ASSUME NEW d \in Conn
          PROVE  /\ watch'[d] \in {"read", "reading"} => req'[d].state \in {"INIT", "READ"}
                 /\ watch'[d] \in {"write", "writing"} => req'[d].state = "WRITE"
                 /\ watch'[d] = "lost" => req'[d].state \in {"INIT", "READ", "WRITE"}
      <4>1. CASE d = c BY <4>1, <2>9, <2>10, <2>11
      <4>2. CASE d # c BY <4>2, <2>10, <2>11 DEF Inv, Watching
      <4> QED BY <4>1, <4>2
    <3>2. ASSUME loop'.pc = "read"
          PROVE  watch'[loop'.conn] = "read" /\ req'[loop'.conn].state = "READ"
      <4> DEFINE d == loop.conn
      <4>1. loop.pc = "read" /\ d \in Conn /\ loop' = loop BY <2>1, <3>2, <1>t
      <4>2. watch[d] = "read" /\ req[d].state = "READ" BY <4>1 DEF Inv, Watching
      <4>3. d # c BY <4>2, <2>5 DEF r
      <4>4. d \notin lost BY <4>2, <4>3, <2>11
      <4> QED BY <4>1, <4>2, <4>3, <4>4, <2>10, <2>11
    <3> QED BY <3>1, <3>2 DEF Watching
  <2>15. Owned'
    <3>1. /\ \A d \in Conn : d \in Given <=> req[d].state = "SERVICE"
          /\ \A f, g \in queue : f.trans = g.trans => f = g
          /\ \A f \in queue : f.trans # c
      BY <2>1 DEF Inv, Owned, c
    <3>2. Given = {f.trans : f \in queue} \cup {c} BY <2>1 DEF Given, c
    <3>3. Given' = {f.trans : f \in queue} BY <2>1, <2>2 DEF Given
    <3>4. \A d \in Conn : d \in Given' <=> req'[d].state = "SERVICE"
      <4>1. TAKE d \in Conn
      <4>2. CASE d = c BY <4>2, <3>1, <3>3, <2>9, <2>10
      <4>3. CASE d # c BY <4>3, <3>1, <3>2, <3>3, <2>10
      <4> QED BY <4>2, <4>3
    <3> QED BY <2>1, <2>2, <3>1, <3>4 DEF Owned
  <2> QED BY <2>12, <2>13, <2>14, <2>15 DEF Inv
<1>12. CASE async_send
  <2>1. worker.pc = "send" /\ worker' = Idle /\ async' = TRUE
        /\ UNCHANGED <<req, watch, queue, loop, process, out>>
    BY <1>12 DEF async_send
  <2>2. Given' = Given BY <2>1 DEF Given, Idle
  <2> QED BY <2>1, <2>2 DEF Inv, Typed, Sized, Watching, Owned, Idle
<1>13. CASE UNCHANGED vars
  BY <1>13 DEF vars, Inv, Typed, Sized, Watching, Owned, Given
<1> QED
  BY <1>1, <1>2, <1>3, <1>4, <1>5, <1>6, <1>7, <1>8, <1>9, <1>10, <1>11, <1>12, <1>13
     DEF Next, LoopStep, WorkerStep, parse_request

(* The invariant holds in every behaviour. *)
LEMMA SpecInv == Spec => []Inv
BY InitInv, NextInv, PTL DEF Spec

(* Requests, watchers, the queue and both threads keep their types, and no *)
(* buffer ever holds more than its total, however the network cuts the     *)
(* messages.                                                               *)
THEOREM TypeCorrect == Spec => []TypeOK
<1>1. Inv => TypeOK
  <2> SUFFICES ASSUME Inv PROVE TypeOK
    OBVIOUS
  <2>1. ASSUME NEW c \in Conn
        PROVE  /\ req[c].state \in {"none", "INIT", "READ", "SERVICE", "WRITE"}
               /\ req[c].sent \in Message \cup {NULL}
               /\ req[c].buf \in Seq(Cells) /\ Len(req[c].buf) <= req[c].total
               /\ req[c].total \in Nat /\ req[c].got \in Nat
               /\ out[c] \in Seq(Cells)
    <3>1. req[c] \in Requests /\ out[c] \in Seq(Cells) BY DEF Inv, Typed
    <3> QED BY <3>1, RequestFields DEF Inv, Sized
  <2> QED BY <2>1 DEF TypeOK, Inv, Typed
<1> QED BY <1>1, SpecInv, PTL

(* From push_queue to ev_io_start a request belongs to the worker thread:  *)
(* it is there once, no watcher can call back on it, and every request in  *)
(* SERVICE is on its way.                                                  *)
THEOREM RequestOwnership == Spec => []WorkerOwns
<1>1. Inv => WorkerOwns
  <2> SUFFICES ASSUME Inv PROVE WorkerOwns
    OBVIOUS
  <2>1. Given \subseteq Conn BY DEF Inv, Typed, Given, Entry, Idle
  <2>2. ASSUME NEW c \in Given PROVE watch[c] = "off" /\ loop.conn # c
    <3>1. c \in Conn /\ req[c].state = "SERVICE" BY <2>1 DEF Inv, Owned
    <3>2. watch[c] = "off" BY <3>1 DEF Inv, Watching, Typed
    <3>3. loop.conn # c
      BY <3>1, RequestAssumption DEF Inv, Watching, Typed
    <3> QED BY <3>2, <3>3
  <2> QED BY <2>2 DEF WorkerOwns, Inv, Owned
<1> QED BY <1>1, SpecInv, PTL
-----------------------------------------------------------------------------
(* What a step may do to one request and to what its client has got. *)

SecondRecv(r, r1) ==
    \E bytes \in ReadChoices(r) :
        LET b == BodyRead(r, bytes)
        IN  /\ Accepted(b)
            /\ \/ /\ Known(Msg(b).cmd)
                  /\ r1 = [r EXCEPT !.state = "SERVICE", !.buf = <<>>, !.msg = Msg(b), !.got = 0]
               \/ /\ ~Known(Msg(b).cmd)
                  /\ r1 = [r EXCEPT !.msg = Msg(b), !.got = 0, !.state = "WRITE",
                                    !.total = ReplyLen, !.buf = Reply(0)]

RequestMoves(c) ==
    \/ req'[c] = req[c] /\ out'[c] = out[c]
    \/ req'[c] = NoRequest
    \/ /\ \E m \in Message : req'[c] = [NoRequest EXCEPT !.state = "INIT", !.sent = m]
       /\ out'[c] = <<>>
    \/ /\ req[c].state = "INIT" /\ out'[c] = out[c]
       /\ \E bytes \in AtMost(RecvMax, Len(Wire[req[c].sent])), stack \in Stack :
             req'[c] = FirstRecv(req[c], bytes, stack)
    \/ req[c].state = "READ" /\ out'[c] = out[c] /\ SecondRecv(req[c], req'[c])
    \/ /\ req[c].state = "SERVICE" /\ out'[c] = out[c]
       /\ req'[c] = [req[c] EXCEPT !.state = "WRITE", !.total = ReplyLen,
                                   !.buf = Reply(req[c].msg.cmd)]
    \/ /\ req[c].state = "WRITE"
       /\ \E bytes \in 1 .. Len(req[c].buf) :
            /\ out'[c] = out[c] \o SubSeq(req[c].buf, 1, bytes)
            /\ req'[c] = [req[c] EXCEPT !.buf = SubSeq(@, bytes + 1, Len(@))]

(* There is nothing else that a step does to a request. *)
LEMMA NextMoves == ASSUME Inv, [Next]_vars PROVE \A c \in Conn : RequestMoves(c)
<1>t. req \in [Conn -> Requests] /\ out \in [Conn -> Seq(Cells)]
  BY DEF Inv, Typed
<1>1. ASSUME UNCHANGED <<req, out>> PROVE \A c \in Conn : RequestMoves(c)
  BY <1>1 DEF RequestMoves
<1>2. ASSUME NEW c \in Conn, out' = out, \A d \in Conn \ {c} : req'[d] = req[d],
             RequestMoves(c)
      PROVE  \A d \in Conn : RequestMoves(d)
  <2>1. ASSUME NEW d \in Conn \ {c} PROVE RequestMoves(d)
    BY <1>2, <2>1 DEF RequestMoves
  <2> QED BY <1>2, <2>1
<1>3. ASSUME NEW c \in Conn, destroy_request(c) PROVE \A d \in Conn : RequestMoves(d)
  <2>1. /\ out' = out /\ \A d \in Conn \ {c} : req'[d] = req[d]
        /\ req'[c] = NoRequest
    BY <1>3, <1>t DEF destroy_request
  <2>2. RequestMoves(c) BY <2>1 DEF RequestMoves
  <2> QED BY <1>2, <2>1, <2>2
<1>4. ASSUME NEW c \in Conn, NEW m \in Sends[c], accept_cb(c, m)
      PROVE  \A d \in Conn : RequestMoves(d)
  <2>1. m \in Message BY <1>4, RequestAssumption
  <2>2. /\ req' = [req EXCEPT ![c] = [NoRequest EXCEPT !.state = "INIT", !.sent = m]]
        /\ out' = [out EXCEPT ![c] = <<>>]
    BY <1>4 DEF accept_cb, init_request
  <2>3. RequestMoves(c) BY <1>t, <2>1, <2>2 DEF RequestMoves
  <2>4. ASSUME NEW d \in Conn \ {c} PROVE RequestMoves(d)
    <3>1. req'[d] = req[d] /\ out'[d] = out[d] BY <1>t, <2>2
    <3> QED BY <3>1 DEF RequestMoves
  <2> QED BY <2>3, <2>4
<1>5. ASSUME NEW c \in Conn, parse_init(c) PROVE \A d \in Conn : RequestMoves(d)
  <2>1. req[c].state = "INIT" BY <1>5, FirstRecvStep
  <2>2. ASSUME /\ \E bytes \in AtMost(RecvMax, Len(Wire[req[c].sent])), stack \in Stack :
                     req' = [req EXCEPT ![c] = FirstRecv(req[c], bytes, stack)]
               /\ UNCHANGED <<watch, queue, worker, async, process, out>>
        PROVE  \A d \in Conn : RequestMoves(d)
    <3>1. PICK bytes \in AtMost(RecvMax, Len(Wire[req[c].sent])), stack \in Stack :
              req' = [req EXCEPT ![c] = FirstRecv(req[c], bytes, stack)]
      BY <2>2
    <3>2. req'[c] = FirstRecv(req[c], bytes, stack) /\ \A d \in Conn \ {c} : req'[d] = req[d]
      BY <1>t, <3>1
    <3>3. out' = out BY <2>2
    <3>4. RequestMoves(c) BY <2>1, <3>2, <3>3 DEF RequestMoves
    <3> QED BY <1>2, <3>2, <3>3, <3>4
  <2> QED BY <1>3, <1>5, <2>2, FirstRecvStep
<1>6. ASSUME NEW c \in Conn, parse_read(c) PROVE \A d \in Conn : RequestMoves(d)
  <2>1. req[c].state = "READ" BY <1>6, ReadStep
  <2>2. PICK bytes \in ReadChoices(req[c]) : Parse(c, BodyRead(req[c], bytes))
    BY <1>6, ReadStep
  <2> DEFINE b == BodyRead(req[c], bytes)
  <2>3. b \in Seq(Cells)
    BY <1>t, <2>1, BodyReadCells DEF Inv, Sized
  <2> HIDE DEF b
  <2>4. CASE Dies BY <1>1, <2>4 DEF Dies
  <2>5. CASE destroy_request(c) BY <1>3, <2>5
  <2>6. CASE Accepted(b) /\ Known(Msg(b).cmd) /\ Enqueue(c, Msg(b))
    <3>1. Msg(b) \in ParsedMessage BY <2>3, <2>6, ParsedCells
    <3>2. /\ req'[c] = [req[c] EXCEPT !.state = "SERVICE", !.buf = <<>>, !.msg = Msg(b), !.got = 0]
          /\ \A d \in Conn \ {c} : req'[d] = req[d]
      BY <2>1, <2>6, <3>1, EnqueueKeeps
    <3>3. out' = out BY <2>6 DEF Enqueue
    <3>4. SecondRecv(req[c], req'[c]) BY <2>6, <3>2 DEF SecondRecv, b
    <3>5. RequestMoves(c) BY <2>1, <3>3, <3>4 DEF RequestMoves
    <3> QED BY <1>2, <3>2, <3>3, <3>5
  <2>7. CASE Accepted(b) /\ ~Known(Msg(b).cmd) /\ ReplyAtOnce(c, Msg(b))
    <3>1. Msg(b) \in ParsedMessage BY <2>3, <2>7, ParsedCells
    <3>2. /\ req'[c] = [req[c] EXCEPT !.msg = Msg(b), !.got = 0, !.state = "WRITE",
                                      !.total = ReplyLen, !.buf = Reply(0)]
          /\ \A d \in Conn \ {c} : req'[d] = req[d]
      BY <2>1, <2>7, <3>1, ReplyAtOnceKeeps
    <3>3. out' = out BY <2>7 DEF ReplyAtOnce
    <3>4. SecondRecv(req[c], req'[c]) BY <2>7, <3>2 DEF SecondRecv, b
    <3>5. RequestMoves(c) BY <2>1, <3>3, <3>4 DEF RequestMoves
    <3> QED BY <1>2, <3>2, <3>3, <3>5
  <2> QED BY <2>2, <2>4, <2>5, <2>6, <2>7 DEF Parse, b
<1>7. ASSUME NEW c \in Conn, write_reply(c) PROVE \A d \in Conn : RequestMoves(d)
  <2>1. CASE destroy_request(c) BY <1>3, <2>1
  <2>2. CASE req[c].state = "WRITE" /\ Write(c)
    <3>1. PICK bytes \in 1 .. Len(req[c].buf) :
            /\ out' = [out EXCEPT ![c] = @ \o SubSeq(req[c].buf, 1, bytes)]
            /\ req' = [req EXCEPT ![c].buf = SubSeq(@, bytes + 1, Len(@))]
      BY <2>2 DEF Write
    <3>2. /\ out'[c] = out[c] \o SubSeq(req[c].buf, 1, bytes)
          /\ req'[c] = [req[c] EXCEPT !.buf = SubSeq(@, bytes + 1, Len(@))]
      BY <1>t, <3>1
    <3>3. RequestMoves(c) BY <2>2, <3>2 DEF RequestMoves
    <3>4. ASSUME NEW d \in Conn \ {c} PROVE RequestMoves(d)
      <4>1. req'[d] = req[d] /\ out'[d] = out[d] BY <1>t, <3>1
      <4> QED BY <4>1 DEF RequestMoves
    <3> QED BY <3>3, <3>4
  <2> QED BY <1>7, <2>1, <2>2 DEF write_reply
<1>8. ASSUME execute PROVE \A d \in Conn : RequestMoves(d)
  <2> DEFINE c == worker.conn
             r == req[c]
  <2>1. worker.pc = "execute" /\ out' = out
        /\ req' = [req EXCEPT ![c] = request_reply(r, Reply(r.msg.cmd))]
    BY <1>8 DEF execute
  <2>2. c \in Conn BY <2>1 DEF Inv, Typed, Idle
  <2>3. r.state = "SERVICE" BY <2>1, <2>2 DEF Given, Inv, Owned
  <2>4. r \in Requests /\ r.msg.cmd \in Nat BY <1>t, <2>2, RequestFields
  <2>5. request_reply(r, Reply(r.msg.cmd)) =
            [r EXCEPT !.state = "WRITE", !.total = ReplyLen, !.buf = Reply(r.msg.cmd)]
    BY <2>4, ReplyStored
  <2> HIDE DEF c
  <2>6. /\ req'[c] = [r EXCEPT !.state = "WRITE", !.total = ReplyLen, !.buf = Reply(r.msg.cmd)]
        /\ \A d \in Conn \ {c} : req'[d] = req[d]
    BY <1>t, <2>1, <2>2, <2>5
  <2>7. RequestMoves(c) BY <2>1, <2>3, <2>6 DEF RequestMoves
  <2> QED BY <1>2, <2>1, <2>2, <2>6, <2>7
<1>9. CASE \/ Wake \/ Poll \/ pop_queue \/ execute_update \/ async_send \/ async_send_freed
           \/ UNCHANGED vars \/ \E c \in Conn : parse_blocks(c)
  BY <1>1, <1>9 DEF Wake, Poll, pop_queue, execute_update, async_send, async_send_freed,
      vars, parse_blocks, Dies
<1>10. ASSUME NEW c \in Conn, parse_fails(c) PROVE \A d \in Conn : RequestMoves(d)
  BY <1>3, <1>10 DEF parse_fails
<1> QED
  BY <1>4, <1>5, <1>6, <1>7, <1>8, <1>9, <1>10
     DEF Next, LoopStep, WorkerStep, parse_request
-----------------------------------------------------------------------------
(* Concatenation of cells is associative. *)
LEMMA ConcatThree ==
    ASSUME NEW x \in Seq(Cells), NEW y \in Seq(Cells), NEW z \in Seq(Cells)
    PROVE  (x \o y) \o z = x \o (y \o z)
BY ConcatAssociative

(* What is sent and what is left are together what was there. *)
LEMMA SentAndLeft ==
    ASSUME NEW sent \in Seq(Cells), NEW buf \in Seq(Cells), NEW bytes \in 1 .. Len(buf)
    PROVE  (sent \o SubSeq(buf, 1, bytes)) \o SubSeq(buf, bytes + 1, Len(buf)) = sent \o buf
<1> DEFINE a == SubSeq(buf, 1, bytes)
           b == SubSeq(buf, bytes + 1, Len(buf))
<1>1. Len(buf) \in Nat /\ bytes \in Nat /\ \A i \in 1 .. Len(buf) : buf[i] \in Cells
  OBVIOUS
<1>2. a \in Seq(Cells)
  <2>1. \A i \in 1 .. bytes : buf[i] \in Cells BY <1>1
  <2> QED BY <1>1, <2>1, SubSeqProperties
<1>3. b \in Seq(Cells)
  <2>1. \A i \in bytes + 1 .. Len(buf) : buf[i] \in Cells BY <1>1
  <2> QED BY <1>1, <2>1, SubSeqProperties
<1>4. a \o b = buf
  <2>1. 1 \in 1 .. Len(buf) + 1 /\ bytes \in 1 - 1 .. Len(buf) /\ Len(buf) \in bytes .. Len(buf)
    BY <1>1
  <2>2. a \o b = SubSeq(buf, 1, Len(buf)) BY <2>1, ConcatAdjacentSubSeq
  <2> QED BY <2>2, SubSeqFull
<1> HIDE DEF a, b
<1>5. (sent \o a) \o b = sent \o (a \o b)
  BY <1>2, <1>3, ConcatThree, ZenonT(30)
<1> QED BY <1>4, <1>5 DEF a, b

(* Until the reply nothing is sent, and then its parts in order. *)
LEMMA NextReply ==
    Inv /\ Unanswered /\ OwnReply /\ [Next]_vars => (Unanswered /\ OwnReply)'
<1> SUFFICES ASSUME Inv, Unanswered, OwnReply, [Next]_vars,
                    NEW c \in Conn
             PROVE  /\ req'[c].state \in {"INIT", "READ", "SERVICE"} => out'[c] = <<>>
                    /\ req'[c].state = "SERVICE" => Known(req'[c].msg.cmd)
                    /\ req'[c].state = "WRITE" =>
                          out'[c] \o req'[c].buf =
                              Reply(IF Known(req'[c].msg.cmd) THEN req'[c].msg.cmd ELSE 0)
    BY DEF Unanswered, OwnReply
<1> DEFINE r == req[c]
           r1 == req'[c]
           Wanted == Reply(IF Known(r.msg.cmd) THEN r.msg.cmd ELSE 0)
<1>1. r \in Requests /\ out[c] \in Seq(Cells) BY DEF Inv, Typed
<1>2. /\ r.state \in {"INIT", "READ", "SERVICE"} => out[c] = <<>>
      /\ r.state = "SERVICE" => Known(r.msg.cmd)
      /\ r.state = "WRITE" => out[c] \o r.buf = Wanted
  BY DEF Unanswered, OwnReply
<1>3. RequestMoves(c) BY NextMoves
<1>4. CASE r1 = r /\ out'[c] = out[c]
  BY <1>2, <1>4
<1>5. CASE r1 = NoRequest
  BY <1>5, NoRequestType
<1>6. CASE /\ \E m \in Message : r1 = [NoRequest EXCEPT !.state = "INIT", !.sent = m]
           /\ out'[c] = <<>>
  <2>1. r1.state = "INIT" BY <1>6, NoRequestType DEF Requests
  <2> QED BY <1>6, <2>1
<1>7. CASE /\ r.state = "INIT" /\ out'[c] = out[c]
           /\ \E bytes \in AtMost(RecvMax, Len(Wire[r.sent])), stack \in Stack :
                 r1 = FirstRecv(r, bytes, stack)
  <2>1. PICK bytes \in AtMost(RecvMax, Len(Wire[r.sent])), stack \in Stack :
            r1 = FirstRecv(r, bytes, stack)
    BY <1>7
  <2>2. r.sent \in Message BY <1>7 DEF Inv, Sized
  <2>3. bytes \in Nat /\ bytes <= Len(Wire[r.sent])
    BY <2>2, WireBytes, RequestAssumption DEF AtMost
  <2>4. r1.state = "READ" BY <1>1, <2>1, <2>2, <2>3, FirstRecvStores
  <2> QED BY <1>2, <1>7, <2>4
<1>8. CASE r.state = "READ" /\ out'[c] = out[c] /\ SecondRecv(r, r1)
  <2>0. out'[c] = <<>> BY <1>2, <1>8
  <2>1. PICK bytes \in ReadChoices(r) :
            LET b == BodyRead(r, bytes)
            IN  /\ Accepted(b)
                /\ \/ /\ Known(Msg(b).cmd)
                      /\ r1 = [r EXCEPT !.state = "SERVICE", !.buf = <<>>, !.msg = Msg(b), !.got = 0]
                   \/ /\ ~Known(Msg(b).cmd)
                      /\ r1 = [r EXCEPT !.msg = Msg(b), !.got = 0, !.state = "WRITE",
                                        !.total = ReplyLen, !.buf = Reply(0)]
    BY <1>8 DEF SecondRecv
  <2> DEFINE b == BodyRead(r, bytes)
  <2>2. b \in Seq(Cells) BY <1>1, <1>8, BodyReadCells DEF Inv, Sized
  <2>3. Accepted(b) BY <2>1
  <2> HIDE DEF b
  <2>5. CASE Known(Msg(b).cmd) /\ r1 = [r EXCEPT !.state = "SERVICE", !.buf = <<>>, !.msg = Msg(b), !.got = 0]
    <3>1. r1.state = "SERVICE" /\ r1.msg = Msg(b) BY <1>1, <2>5 DEF Requests
    <3> QED BY <2>0, <2>5, <3>1
  <2>6. CASE ~Known(Msg(b).cmd) /\ r1 = [r EXCEPT !.msg = Msg(b), !.got = 0, !.state = "WRITE",
                                             !.total = ReplyLen, !.buf = Reply(0)]
    <3>1. r1.state = "WRITE" /\ r1.msg = Msg(b) /\ r1.buf = Reply(0) BY <1>1, <2>6 DEF Requests
    <3>2. <<>> \o Reply(0) = Reply(0) BY ReplyCells, ConcatEmptySeq
    <3> QED BY <2>0, <2>6, <3>1, <3>2
  <2> QED BY <2>1, <2>5, <2>6 DEF b
<1>9. CASE /\ r.state = "SERVICE" /\ out'[c] = out[c]
           /\ r1 = [r EXCEPT !.state = "WRITE", !.total = ReplyLen, !.buf = Reply(r.msg.cmd)]
  <2>1. r1.state = "WRITE" /\ r1.msg = r.msg /\ r1.buf = Reply(r.msg.cmd)
    BY <1>1, <1>9 DEF Requests
  <2>2. <<>> \o Reply(r.msg.cmd) = Reply(r.msg.cmd)
    BY <1>1, RequestFields, ReplyCells, ConcatEmptySeq
  <2> QED BY <1>2, <1>9, <2>1, <2>2
<1>10. CASE /\ r.state = "WRITE"
            /\ \E bytes \in 1 .. Len(r.buf) :
                 /\ out'[c] = out[c] \o SubSeq(r.buf, 1, bytes)
                 /\ r1 = [r EXCEPT !.buf = SubSeq(@, bytes + 1, Len(@))]
  <2>1. PICK bytes \in 1 .. Len(r.buf) :
             /\ out'[c] = out[c] \o SubSeq(r.buf, 1, bytes)
             /\ r1 = [r EXCEPT !.buf = SubSeq(@, bytes + 1, Len(@))]
    BY <1>10
  <2>2. r1.state = "WRITE" /\ r1.msg = r.msg /\ r1.buf = SubSeq(r.buf, bytes + 1, Len(r.buf))
    BY <1>1, <1>10, <2>1 DEF Requests
  <2>3. out'[c] \o r1.buf = out[c] \o r.buf
    <3>1. r.buf \in Seq(Cells) BY <1>1, RequestFields
    <3>2. (out[c] \o SubSeq(r.buf, 1, bytes)) \o SubSeq(r.buf, bytes + 1, Len(r.buf))
              = out[c] \o r.buf
      BY <1>1, <3>1, SentAndLeft, Zenon
    <3> QED BY <2>1, <2>2, <3>2, Zenon
  <2> QED BY <1>2, <1>10, <2>2, <2>3
<1> QED BY <1>3, <1>4, <1>5, <1>6, <1>7, <1>8, <1>9, <1>10 DEF RequestMoves

(* What a client gets is the reply to the command that the server          *)
(* understood on its connection, in order and without gaps, and never a    *)
(* part of another reply.                                                  *)
THEOREM OneReplyInOrder == Spec => []OwnReply
<1>1. Init => Unanswered /\ OwnReply
  <2> SUFFICES ASSUME Init PROVE Unanswered /\ OwnReply
    OBVIOUS
  <2>1. \A c \in Conn : req[c].state = "none" BY NoRequestType DEF Init
  <2> QED BY <2>1 DEF Unanswered, OwnReply
<1> QED BY <1>1, NextReply, SpecInv, PTL DEF Spec
-----------------------------------------------------------------------------
(* What the first recv has left in the buffer of a request. *)
ReadPart(r) ==
    /\ r.got <= Len(Wire[r.sent])
    /\ r.total = LengthRead(r.sent, r.got)
    /\ \E stack \in Stack :
         r.buf = Copied(r.sent, r.got, Bytes2Copy(r.got, r.total), stack)
    /\ r.whole <=> (r.got = Len(Wire[r.sent]))

(* The bytes of the buffer come before those of the second recv. *)
LEMMA BodyReadBytes ==
    ASSUME NEW r \in Requests, r.sent \in Message, Len(r.buf) <= r.total,
           NEW bytes \in ReadChoices(r)
    PROVE  /\ \A i \in 1 .. Len(r.buf) : BodyRead(r, bytes)[i] = r.buf[i]
           /\ Len(r.buf) = r.total => BodyRead(r, bytes) = r.buf
<1> DEFINE w == Wire[r.sent]
           rest == SubSeq(w, r.got + 1, Len(w))
           more == SubSeq(rest, 1, bytes)
<1>1. w \in Seq(Cells) /\ Len(w) \in Nat BY WireBytes
<1>2. r.got \in Nat /\ r.buf \in Seq(Cells) /\ r.total \in Nat BY RequestFields
<1> HIDE DEF w
<1>3. rest \in Seq(Cells)
  <2>1. \A i \in r.got + 1 .. Len(w) : w[i] \in Cells BY <1>1, <1>2
  <2> QED BY <1>1, <1>2, <2>1, SubSeqProperties
<1> HIDE DEF rest
<1>4. Len(rest) \in Nat /\ buffer_left(r) \in Nat
  BY <1>2, <1>3 DEF buffer_left
<1>5. bytes \in Nat /\ bytes <= Len(rest) /\ bytes <= buffer_left(r)
  <2>1. bytes \in AtMost(buffer_left(r), Len(rest)) BY DEF ReadChoices, rest, w
  <2> QED BY <1>4, <2>1 DEF AtMost
<1>6. more \in Seq(Cells) /\ (bytes = 0 => more = <<>>)
  <2>1. \A i \in 1 .. bytes : rest[i] \in Cells BY <1>3, <1>4, <1>5
  <2>2. more \in Seq(Cells) BY <1>5, <2>1, SubSeqProperties
  <2>3. bytes = 0 => more = <<>>
    <3>1. bytes = 0 => bytes < 1 OBVIOUS
    <3> QED BY <3>1, <1>5, SubSeqEmpty
  <2> QED BY <2>2, <2>3
<1> HIDE DEF more
<1>7. BodyRead(r, bytes) = r.buf \o more BY DEF BodyRead, more, rest, w
<1>8. \A i \in 1 .. Len(r.buf) : (r.buf \o more)[i] = r.buf[i]
  BY <1>2, <1>6, ConcatProperties
<1>9. Len(r.buf) = r.total => r.buf \o more = r.buf
  <2>1. Len(r.buf) = r.total => bytes = 0 BY <1>2, <1>5 DEF buffer_left
  <2> QED BY <1>2, <1>6, <2>1, ConcatEmptySeq
<1> QED BY <1>7, <1>8, <1>9

(* The number of a command that is known is the one that was sent: neither *)
(* a zero nor a byte of the stack can stand in its place.                  *)
LEMMA CommandAsSent ==
    ASSUME NEW r \in Requests, r.sent \in Message, Len(r.buf) <= r.total, ReadPart(r),
           NEW bytes \in ReadChoices(r),
           Accepted(BodyRead(r, bytes)), Known(Msg(BodyRead(r, bytes)).cmd)
    PROVE  BodyRead(r, bytes)[2] = Body[r.sent][2]
<1> DEFINE b == BodyRead(r, bytes)
           n == Bytes2Copy(r.got, r.total)
<1>1. /\ r.got \in Nat /\ r.total \in Nat /\ r.got <= Len(Wire[r.sent])
      /\ r.total = LengthRead(r.sent, r.got)
  BY RequestFields DEF ReadPart
<1>2. n \in Nat /\ n <= r.got /\ n <= r.total /\ (n = r.got \/ n = r.total)
  BY <1>1 DEF Bytes2Copy
<1>3. PICK stack \in Stack : r.buf = Copied(r.sent, r.got, n, stack)
  BY DEF ReadPart
<1> HIDE DEF n
<1>4. Len(r.buf) = n BY <1>1, <1>2, <1>3, CopiedCells
<1>5. \A i \in 1 .. n : b[i] = r.buf[i] BY <1>4, BodyReadBytes
<1>6. Len(b) >= 3 /\ b[1].type = "array" /\ b[2].type = "int" /\ b[2].n # 0
  <2>1. b[2].n % Base \in 1 .. 5 BY DEF Known, Msg, message_command
  <2>2. 0 % Base = 0 BY RequestAssumption
  <2>3. b[2].n # 0 BY <2>1, <2>2
  <2> QED BY <2>3 DEF Accepted, IsPair
<1>7. \A i \in 1 .. n : r.buf[i] = IF LenBytes + i <= r.got THEN Wire[r.sent][LenBytes + i]
                                   ELSE IF LenBytes + i <= RecvMax + 1 THEN Zero ELSE stack
  BY <1>3 DEF Copied
<1>8. /\ Zero.type = "int" /\ Zero.n = 0
      /\ stack.type = "byte" \/ (stack.type = "int" /\ stack.n = 0)
  BY <1>3 DEF Stack, Zero, Cell
<1>9. n >= 2
  <2> SUFFICES ASSUME n = 0 \/ n = 1 PROVE FALSE
    BY <1>2
  <2>1. n # r.total
    <3>1. n = r.total => b = r.buf BY <1>4, BodyReadBytes
    <3> QED BY <3>1, <1>4, <1>6
  <2>2. n = r.got BY <1>2, <2>1
  <2>3. n = 1 BY <1>1, <2>1, <2>2, LengthBytes
  <2>4. ~(LenBytes + 1 <= r.got) BY <2>2, <2>3, RequestAssumption
  <2>5. b[1] = Zero \/ b[1] = stack BY <1>5, <1>7, <2>3, <2>4
  <2> QED BY <1>6, <1>8, <2>5
<1>10. b[2] = r.buf[2] BY <1>2, <1>5, <1>9
<1>11. LenBytes + 2 <= r.got
  <2> SUFFICES ASSUME ~(LenBytes + 2 <= r.got) PROVE FALSE
    OBVIOUS
  <2>1. b[2] = Zero \/ b[2] = stack BY <1>2, <1>7, <1>9, <1>10
  <2> QED BY <1>6, <1>8, <2>1
<1>12. b[2] = Wire[r.sent][LenBytes + 2] BY <1>2, <1>7, <1>9, <1>10, <1>11
<1>13. 2 \in 1 .. Len(Body[r.sent])
  BY <1>1, <1>11, WireBytes, RequestAssumption
<1> QED BY <1>12, <1>13, WireBytes

(* A message that came with one recv is in the buffer as it was sent. *)
LEMMA WholeBody ==
    ASSUME NEW r \in Requests, r.sent \in Message, Len(r.buf) <= r.total, ReadPart(r),
           NEW bytes \in ReadChoices(r), r.whole
    PROVE  BodyRead(r, bytes) = Body[r.sent]
<1> DEFINE body == Body[r.sent]
           n == Bytes2Copy(r.got, r.total)
<1>1. /\ body \in Seq(Cells) /\ Len(body) \in Nat
      /\ Len(Wire[r.sent]) = LenBytes + Len(body)
      /\ \A i \in 1 .. Len(body) : Wire[r.sent][LenBytes + i] = body[i]
      /\ LenBytes \in Nat /\ LenBytes >= 1
  BY WireBytes, RequestAssumption
<1>2. r.got \in Nat /\ r.buf \in Seq(Cells) BY RequestFields
<1>3. r.got = LenBytes + Len(body) BY <1>1 DEF ReadPart
<1>4. r.total = Len(body)
  <2>1. r.total = LengthRead(r.sent, r.got) BY DEF ReadPart
  <2>2. r.got >= LenBytes BY <1>1, <1>3
  <2> QED BY <1>2, <2>1, <2>2, LengthBytes
<1>5. n = Len(body) BY <1>1, <1>3, <1>4 DEF Bytes2Copy
<1>6. PICK stack \in Stack : r.buf = Copied(r.sent, r.got, n, stack)
  BY DEF ReadPart
<1> HIDE DEF n, body
<1>7. Len(r.buf) = Len(body)
  <2>1. n \in Nat /\ r.got <= Len(Wire[r.sent]) BY <1>1, <1>3, <1>5
  <2> QED BY <1>2, <1>5, <1>6, <2>1, CopiedCells
<1>8. ASSUME NEW i \in 1 .. Len(body) PROVE r.buf[i] = body[i]
  <2>1. LenBytes + i <= r.got BY <1>1, <1>3
  <2>2. r.buf[i] = Wire[r.sent][LenBytes + i] BY <1>5, <1>6, <2>1 DEF Copied
  <2> QED BY <1>1, <2>2
<1>9. r.buf = body BY <1>1, <1>2, <1>7, <1>8, SeqEqual
<1>10. BodyRead(r, bytes) = r.buf BY <1>4, <1>7, BodyReadBytes
<1> QED BY <1>9, <1>10 DEF body

(* message_set changes nothing where no byte is zero. *)
LEMMA SetAsSent ==
    ASSUME NEW s \in Seq(Cells), \A j \in DOMAIN s : s[j].n # 0
    PROVE  message_set(s) = s
<1>1. DOMAIN s = 1 .. Len(s) /\ Len(s) \in Nat OBVIOUS
<1>2. \A i \in 1 .. Len(s) : message_set(s)[i] = s[i]
  BY <1>1 DEF message_set
<1>3. DOMAIN message_set(s) = 1 .. Len(s) BY <1>1 DEF message_set
<1>4. message_set(s) \in Seq(Cells) BY SetCells
<1>5. Len(message_set(s)) = Len(s) BY <1>1, <1>3, <1>4
<1> QED BY <1>2, <1>4, <1>5, SeqEqual

(* A body whose command fits into a byte, without a zero byte in its       *)
(* strings, is understood as it is.                                        *)
LEMMA MsgAsSent ==
    ASSUME NEW m \in Message, Accepted(Body[m]), ~HasNul(m), Fits(m)
    PROVE  Msg(Body[m]) = [cmd |-> Body[m][2].n, data |-> Strings(Body[m])]
<1> DEFINE s == Strings(Body[m])
<1>1. s \in Seq(Seq(Cells)) BY WireBytes, ParsedCells
<1>2. DOMAIN s = 1 .. Len(s) /\ \A i \in DOMAIN s : s[i] \in Seq(Cells) BY <1>1
<1>3. \A i \in DOMAIN s : \A j \in DOMAIN s[i] : s[i][j].n # 0
  BY DEF HasNul
<1>4. Msg(Body[m]) = [cmd |-> Body[m][2].n, data |-> [i \in DOMAIN s |-> message_set(s[i])]]
  <2>1. Body[m][2].n \in Nat BY WireBytes, ParsedCells
  <2>2. message_command(Body[m][2].n) = Body[m][2].n
    BY <2>1, SmallCommand DEF Fits
  <2> QED BY <2>2 DEF Msg
<1> HIDE DEF s
<1>5. \A i \in DOMAIN s : message_set(s[i]) = s[i] BY <1>2, <1>3, SetAsSent
<1>6. [i \in DOMAIN s |-> message_set(s[i])] = [i \in DOMAIN s |-> s[i]] BY <1>5
<1>7. s = [i \in DOMAIN s |-> s[i]] BY <1>1
<1> QED BY <1>4, <1>6, <1>7 DEF s

(* What the worker gets from a request that is in SERVICE. *)
Understood(r) ==
    Fits(r.sent) =>
        /\ r.msg.cmd = Body[r.sent][2].n
        /\ r.whole /\ ~HasNul(r.sent) =>
              r.msg = [cmd |-> Body[r.sent][2].n, data |-> Strings(Body[r.sent])]

ReadInv ==
    \A c \in Conn :
        /\ req[c].state = "READ" => ReadPart(req[c])
        /\ req[c].state = "SERVICE" => Understood(req[c])

(* Every step keeps what is known of the bytes. *)
LEMMA NextRead == Inv /\ ReadInv /\ [Next]_vars => ReadInv'
<1> SUFFICES ASSUME Inv, ReadInv, [Next]_vars, NEW c \in Conn
             PROVE  /\ req'[c].state = "READ" => ReadPart(req'[c])
                    /\ req'[c].state = "SERVICE" => Understood(req'[c])
    BY DEF ReadInv, ReadPart, Understood
<1> DEFINE r == req[c]
           r1 == req'[c]
<1>1. r \in Requests BY DEF Inv, Typed
<1>2. /\ r.state = "READ" => ReadPart(r)
      /\ r.state = "SERVICE" => Understood(r)
  BY DEF ReadInv
<1>3. RequestMoves(c) BY NextMoves
<1>s. Len(r.buf) <= r.total /\ (r.state # "none" => r.sent \in Message) BY DEF Inv, Sized
<1>4. CASE r1 = r
  BY <1>2, <1>4
<1>5. CASE r1 = NoRequest
  BY <1>5, NoRequestType
<1>6. CASE \E m \in Message : r1 = [NoRequest EXCEPT !.state = "INIT", !.sent = m]
  <2>1. r1.state = "INIT" BY <1>6, NoRequestType DEF Requests
  <2> QED BY <2>1
<1>7. CASE /\ r.state = "INIT"
           /\ \E bytes \in AtMost(RecvMax, Len(Wire[r.sent])), stack \in Stack :
                 r1 = FirstRecv(r, bytes, stack)
  <2>1. PICK bytes \in AtMost(RecvMax, Len(Wire[r.sent])), stack \in Stack :
            r1 = FirstRecv(r, bytes, stack)
    BY <1>7
  <2>2. r.sent \in Message BY <1>7, <1>s
  <2>3. bytes \in Nat /\ bytes <= Len(Wire[r.sent])
    BY <2>2, WireBytes, RequestAssumption DEF AtMost
  <2> HIDE DEF r, r1
  <2>4. /\ r1.state = "READ" /\ r1.sent = r.sent /\ r1.got = bytes
        /\ r1.total = LengthRead(r.sent, bytes)
        /\ r1.whole = (bytes = Len(Wire[r.sent]))
        /\ r1.buf = Copied(r.sent, bytes, Bytes2Copy(bytes, LengthRead(r.sent, bytes)), stack)
    BY <1>1, <2>1, <2>2, <2>3, FirstRecvStores
  <2>5. ReadPart(r1) BY <2>3, <2>4 DEF ReadPart
  <2> QED BY <2>4, <2>5 DEF r1
<1>8. CASE r.state = "READ" /\ SecondRecv(r, r1)
  <2>1. PICK bytes \in ReadChoices(r) :
            LET b == BodyRead(r, bytes)
            IN  /\ Accepted(b)
                /\ \/ /\ Known(Msg(b).cmd)
                      /\ r1 = [r EXCEPT !.state = "SERVICE", !.buf = <<>>, !.msg = Msg(b), !.got = 0]
                   \/ /\ ~Known(Msg(b).cmd)
                      /\ r1 = [r EXCEPT !.msg = Msg(b), !.got = 0, !.state = "WRITE",
                                        !.total = ReplyLen, !.buf = Reply(0)]
    BY <1>8 DEF SecondRecv
  <2> DEFINE b == BodyRead(r, bytes)
  <2>2. r.sent \in Message /\ ReadPart(r) BY <1>2, <1>8, <1>s
  <2>3. Accepted(b) BY <2>1
  <2>4. b \in Seq(Cells) BY <1>1, <1>s, <2>2, BodyReadCells
  <2>5. b[2].n \in Nat /\ Msg(b).cmd = b[2].n % Base BY <2>3, <2>4, ParsedCells
  <2>6. CASE Known(Msg(b).cmd) /\ r1 = [r EXCEPT !.state = "SERVICE", !.buf = <<>>, !.msg = Msg(b), !.got = 0]
    <3>1. b[2] = Body[r.sent][2] BY <1>1, <1>s, <2>2, <2>3, <2>6, CommandAsSent
    <3>2. r.whole => b = Body[r.sent] BY <1>1, <1>s, <2>2, WholeBody
    <3> HIDE DEF b, r, r1
    <3>3. /\ r1.state = "SERVICE" /\ r1.msg = Msg(b) /\ r1.sent = r.sent
          /\ r1.whole = r.whole
      BY <1>1, <2>6 DEF Requests
    <3>4. Fits(r.sent) /\ r.whole /\ ~HasNul(r.sent) =>
              Msg(b) = [cmd |-> Body[r.sent][2].n, data |-> Strings(Body[r.sent])]
      BY <2>2, <2>3, <3>2, MsgAsSent
    <3>5. Fits(r.sent) => Msg(b).cmd = Body[r.sent][2].n
      BY <2>5, <3>1, SmallCommand DEF Fits, message_command
    <3>6. Understood(r1) BY <3>3, <3>4, <3>5 DEF Understood
    <3> QED BY <3>3, <3>6 DEF r1
  <2>7. CASE r1 = [r EXCEPT !.msg = Msg(b), !.got = 0, !.state = "WRITE",
                           !.total = ReplyLen, !.buf = Reply(0)]
    <3>1. r1.state = "WRITE" BY <1>1, <2>7 DEF Requests
    <3> QED BY <3>1
  <2> QED BY <2>1, <2>6, <2>7
<1>9. CASE r1 = [r EXCEPT !.state = "WRITE", !.total = ReplyLen, !.buf = Reply(r.msg.cmd)]
  <2>1. r1.state = "WRITE" BY <1>1, <1>9 DEF Requests
  <2> QED BY <2>1
<1>10. CASE /\ r.state = "WRITE"
            /\ \E bytes \in 1 .. Len(r.buf) :
                 r1 = [r EXCEPT !.buf = SubSeq(@, bytes + 1, Len(@))]
  <2>1. r1.state = "WRITE" BY <1>1, <1>10 DEF Requests
  <2> QED BY <2>1
<1> QED BY <1>3, <1>4, <1>5, <1>6, <1>7, <1>8, <1>9, <1>10 DEF RequestMoves

(* The worker executes the command that the client sent if its number fits *)
(* into a byte, and on what the client sent, unless the message was cut or *)
(* has a zero byte: the length, the copy of the first bytes and the second *)
(* recv fit together, however the bytes come.                              *)
THEOREM CommandUnaltered == Spec => []OnlySplitAlters
<1>1. Init => ReadInv
  <2> SUFFICES ASSUME Init PROVE ReadInv
    OBVIOUS
  <2>1. \A c \in Conn : req[c].state = "none" BY NoRequestType DEF Init
  <2> QED BY <2>1 DEF ReadInv
<1>2. Inv /\ ReadInv => OnlySplitAlters
  <2> SUFFICES ASSUME Inv, ReadInv, NEW c \in Given, Fits(req[c].sent)
               PROVE  /\ req[c].msg.cmd = Body[req[c].sent][2].n
                      /\ req[c].whole /\ ~HasNul(req[c].sent) => AsSent(c)
    BY DEF OnlySplitAlters
  <2>1. c \in Conn BY DEF Inv, Typed, Given, Entry, Idle
  <2>2. req[c].state = "SERVICE" BY <2>1 DEF Inv, Owned
  <2>3. Understood(req[c]) BY <2>1, <2>2 DEF ReadInv
  <2> QED BY <2>3 DEF Understood, AsSent
<1> QED BY <1>1, <1>2, NextRead, SpecInv, PTL DEF Spec
=============================================================================
