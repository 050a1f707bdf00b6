-------------------------- MODULE ConnectionProofs --------------------------
(***************************************************************************)
(* A connection and its protocol are deleted only when nothing refers to   *)
(* them, and the two threads never use one output message at once: for any *)
(* number of messages and packets, whatever m_refCount begins with, and    *)
(* wherever the dispatcher is stopped.                                     *)
(*                                                                         *)
(* And of the bans that decide who may have one: a table never holds one   *)
(* ban twice, who is locked or deleted was sentenced to it, and nobody     *)
(* tries to log in more often than allowed, for any number of accounts,    *)
(* characters, addresses and limits.                                       *)
(*                                                                         *)
(* And of what is saved of players and houses: no record is changed by     *)
(* halves, wherever the connection to the database breaks or the server    *)
(* crashes.                                                                *)
(***************************************************************************)
EXTENDS Connection, Bans, Storage,
        FiniteSetTheorems, SequenceTheorems, WellFoundedInduction, TLAPS

Conn  == [state : {"NONE", "REQUESTED", "CLOSING"}, socketClosed : BOOLEAN,
          writeError : BOOLEAN, pendingRead : 0..1, pendingWrite : 0..1,
          refs : Nat, reading : {"none", "header", "body"},
          writing : Msgs \cup {NoMsg}, alive : BOOLEAN]
Proto == [life : {"none", "attached", "detached", "deleted"}, refs : Nat,
          buffer : Msgs \cup {NoMsg}]

\* "single" is a message between getOutputMessage and send.
Msg   == [at : {"free", "autosend", "single", "toadd", "inflight", "releasing", "lost"},
          sealed : Nat, fresh : BOOLEAN]

WorldType(w) ==
  w \in [conn : Conn, proto : Proto, msg : [Msgs -> Msg], tasks : Seq(Tasks)]

Queued(s) == {s[i] : i \in 1..Len(s)}

\* But for those of the game and the login no task is queued twice, and the
\* login is before the close.
InOrder(s) ==
  /\ \A i, j \in 1..Len(s) : s[i] = s[j] /\ s[i] \notin {"login", "game"} => i = j
  /\ \A i, j \in 1..Len(s) : s[i] = "close" /\ s[j] = "login" => j < i

\* What a connection is doing is what it counts; only one that is open has a
\* protocol.
ConnInv(w) ==
  /\ w.conn.pendingRead = IF w.conn.reading = "none" THEN 0 ELSE 1
  /\ w.conn.pendingWrite = IF w.conn.writing = NoMsg THEN 0 ELSE 1
  /\ w.conn.writeError => w.conn.writing = NoMsg
  /\ w.conn.state = "CLOSING" => w.proto.life # "attached"
  /\ w.proto.life = "none" /\ w.conn.reading # "none" => w.conn.state = "NONE"
  /\ "close" \in Queued(w.tasks) => w.conn.state = "REQUESTED"

\* The connection is to be released, or was.
Released(w, D) == "relConn" \in Queued(w.tasks) \cup D \/ ~w.conn.alive

ReleaseInv(w, D) ==
  /\ Released(w, D) =>
       w.conn.state = "CLOSING" /\ w.conn.reading = "none" /\ w.conn.writing = NoMsg
  /\ "relConn" \in Queued(w.tasks) => "relConn" \notin D /\ w.conn.alive
  /\ "relConn" \in D => w.conn.alive
  /\ "relProto" \in Queued(w.tasks) \cup D => w.proto.life = "detached"
  /\ "relProto" \in Queued(w.tasks) => "relProto" \notin D
  /\ "login" \in Queued(w.tasks) => w.proto.life = "attached"

\* Where a message is tells who may use it, and whether it has its header.
MsgInv(w) ==
  /\ \A m \in Msgs :
       /\ w.msg[m].at = "inflight" <=> w.conn.writing = m
       /\ w.msg[m].at = "releasing" <=> m \in Queued(w.tasks)
       /\ w.msg[m].sealed = IF w.msg[m].at \in {"inflight", "releasing", "lost"} THEN 1 ELSE 0
  /\ w.proto.buffer # NoMsg => w.msg[w.proto.buffer].at \in {"autosend", "toadd"}

Used(w) == {m \in Msgs : w.msg[m].at # "free"}

\* Every message in use is counted by both objects, which outlive it.
CountInv(w) ==
  /\ w.conn.refs = Cardinality(Used(w))
  /\ w.proto.refs >= Cardinality(Used(w))
  /\ ~w.conn.alive \/ w.proto.life \in {"none", "deleted"} => Used(w) = {}

WorldInv(w, D) ==
  WorldType(w) /\ InOrder(w.tasks) /\ ConnInv(w) /\ ReleaseInv(w, D) /\ MsgInv(w) /\ CountInv(w)

Settled(w) == \A m \in Msgs : w.msg[m].at # "single"

IInv ==
  /\ WorldInv(World, timers) /\ Settled(World)
  /\ timers \subseteq Releases
  /\ accepting \in BOOLEAN
  /\ pending \subseteq Unsent
  /\ packets \in 0..MaxPackets

-----------------------------------------------------------------------------
(* The list of tasks.                                                      *)

Names == {"close", "login", "game", "relConn", "relProto"}

LEMMA TasksOf == Tasks = Names \cup Msgs /\ Names \cap Msgs = {}
BY ConnectionAssumption DEF Tasks, Releases, Names

LEMMA QueuedType ==
  ASSUME NEW s \in Seq(Tasks)
  PROVE  Queued(s) \subseteq Tasks /\ Len(s) \in Nat
BY ElementOfSeq, LenProperties DEF Queued

\* A task is put to the end of the list.
LEMMA QueueTask ==
  ASSUME NEW s \in Seq(Tasks), InOrder(s), NEW t \in Names,
         t \in {"login", "game"} \/ t \notin Queued(s),
         t = "login" => "close" \notin Queued(s)
  PROVE  /\ Append(s, t) \in Seq(Tasks)
         /\ InOrder(Append(s, t))
         /\ Queued(Append(s, t)) = Queued(s) \cup {t}
<1>. DEFINE a == Append(s, t)
<1>1. /\ a \in Seq(Tasks) /\ Len(s) \in Nat /\ Len(a) = Len(s) + 1
      /\ \A i \in 1..Len(s) : a[i] = s[i]
      /\ a[Len(s) + 1] = t
  BY AppendProperties, LenProperties, TasksOf
<1>2. \A i \in 1..Len(s) : s[i] \in Queued(s)
  BY DEF Queued
<1>. HIDE DEF a
<1>3. /\ \A i \in 1..Len(a) : i \in 1..Len(s) \/ i = Len(s) + 1
      /\ 1..Len(s) \subseteq 1..Len(a) /\ Len(s) + 1 \in 1..Len(a)
  BY <1>1
<1>4. Queued(a) = Queued(s) \cup {t}
  BY <1>1, <1>3 DEF Queued
<1>5. ASSUME NEW i \in 1..Len(a), NEW j \in 1..Len(a)
      PROVE  /\ a[i] = a[j] /\ a[i] \notin {"login", "game"} => i = j
             /\ a[i] = "close" /\ a[j] = "login" => j < i
  <2>1. CASE i \in 1..Len(s) /\ j \in 1..Len(s)
    BY <1>1, <2>1 DEF InOrder
  <2>2. CASE i \in 1..Len(s) /\ j = Len(s) + 1
    BY <1>1, <1>2, <2>2
  <2>3. CASE i = Len(s) + 1 /\ j \in 1..Len(s)
    BY <1>1, <1>2, <2>3
  <2>4. CASE i = Len(s) + 1 /\ j = Len(s) + 1
    BY <1>1, <2>4
  <2>. QED
    BY <1>3, <2>1, <2>2, <2>3, <2>4
<1>6. InOrder(a)
  BY <1>5 DEF InOrder
<1>. QED
  BY <1>1, <1>4, <1>6 DEF a

\* The task of a message is put to the front.
LEMMA QueueMessage ==
  ASSUME NEW s \in Seq(Tasks), InOrder(s), NEW m \in Msgs, m \notin Queued(s)
  PROVE  /\ <<m>> \o s \in Seq(Tasks)
         /\ InOrder(<<m>> \o s)
         /\ Queued(<<m>> \o s) = Queued(s) \cup {m}
<1>. DEFINE a == <<m>> \o s
<1>1. /\ a \in Seq(Tasks) /\ Len(s) \in Nat /\ Len(a) = Len(s) + 1
      /\ a[1] = m
      /\ \A i \in 2..Len(a) : a[i] = s[i - 1]
  <2>1. <<m>> \in Seq(Tasks) /\ Len(<<m>>) = 1 /\ <<m>>[1] = m
    BY TasksOf
  <2>2. Len(s) \in Nat
    BY LenProperties
  <2>. HIDE DEF a
  <2>3. /\ a \in Seq(Tasks) /\ Len(a) = Len(<<m>>) + Len(s)
        /\ \A i \in 1..(Len(<<m>>) + Len(s)) :
             a[i] = IF i <= Len(<<m>>) THEN <<m>>[i] ELSE s[i - Len(<<m>>)]
    BY <2>1, ConcatProperties DEF a
  <2>. QED
    BY <2>1, <2>2, <2>3
<1>2. \A i \in 1..Len(s) : s[i] \in Queued(s)
  BY DEF Queued
<1>. HIDE DEF a
<1>3. /\ \A i \in 1..Len(a) : i = 1 \/ (i \in 2..Len(a) /\ i - 1 \in 1..Len(s))
      /\ \A i \in 1..Len(s) : i + 1 \in 2..Len(a) /\ i + 1 \in 1..Len(a) /\ s[i] = a[i + 1]
      /\ 1 \in 1..Len(a)
  BY <1>1
<1>4. Queued(a) = Queued(s) \cup {m}
  <2>1. ASSUME NEW t \in Queued(a) PROVE t \in Queued(s) \cup {m}
    <3>1. PICK i \in 1..Len(a) : t = a[i]
      BY <2>1 DEF Queued
    <3>. QED
      BY <1>1, <1>2, <1>3, <3>1
  <2>2. ASSUME NEW t \in Queued(s) PROVE t \in Queued(a)
    <3>1. PICK i \in 1..Len(s) : t = s[i]
      BY <2>2 DEF Queued
    <3>. QED
      BY <1>3, <3>1 DEF Queued
  <2>3. m \in Queued(a)
    BY <1>1, <1>3 DEF Queued
  <2>. QED
    BY <2>1, <2>2, <2>3
<1>5. ASSUME NEW i \in 1..Len(a), NEW j \in 1..Len(a)
      PROVE  /\ a[i] = a[j] /\ a[i] \notin {"login", "game"} => i = j
             /\ a[i] = "close" /\ a[j] = "login" => j < i
  <2>0. m \notin Names
    BY TasksOf
  <2>1. CASE i \in 2..Len(a) /\ j \in 2..Len(a)
    <3>1. i - 1 \in 1..Len(s) /\ j - 1 \in 1..Len(s) /\ a[i] = s[i - 1] /\ a[j] = s[j - 1]
      BY <1>1, <2>1
    <3>. QED
      BY <1>1, <2>1, <3>1 DEF InOrder
  <2>2. CASE i = 1 /\ j \in 2..Len(a)
    BY <1>1, <1>2, <1>3, <2>0, <2>2 DEF Names
  <2>3. CASE i \in 2..Len(a) /\ j = 1
    BY <1>1, <1>2, <1>3, <2>0, <2>3 DEF Names
  <2>4. CASE i = 1 /\ j = 1
    BY <1>1, <2>0, <2>4 DEF Names
  <2>. QED
    BY <1>3, <2>1, <2>2, <2>3, <2>4
<1>6. InOrder(a)
  BY <1>5 DEF InOrder
<1>. QED
  BY <1>1, <1>4, <1>6 DEF a

\* The first task is taken.
LEMMA TakeTask ==
  ASSUME NEW s \in Seq(Tasks), s # <<>>, InOrder(s)
  PROVE  /\ Tail(s) \in Seq(Tasks) /\ InOrder(Tail(s)) /\ Head(s) \in Tasks
         /\ Queued(s) = Queued(Tail(s)) \cup {Head(s)}
         /\ Head(s) \notin {"login", "game"} => Head(s) \notin Queued(Tail(s))
         /\ Head(s) = "close" => "login" \notin Queued(Tail(s))
<1>. DEFINE b == Tail(s)
<1>1. /\ b \in Seq(Tasks) /\ Len(s) \in Nat \ {0} /\ Len(b) = Len(s) - 1
      /\ \A i \in 1..(Len(s) - 1) : b[i] = s[i + 1]
      /\ Head(s) = s[1] /\ s[1] \in Tasks
  BY HeadTailProperties, LenProperties, ElementOfSeq, EmptySeq
<1>. HIDE DEF b
<1>2. /\ \A i \in 1..Len(b) : i + 1 \in 1..Len(s) /\ 1 < i + 1 /\ b[i] = s[i + 1]
      /\ \A i \in 1..Len(s) : i = 1 \/ (i - 1 \in 1..Len(b) /\ b[i - 1] = s[i])
      /\ 1 \in 1..Len(s)
  BY <1>1
<1>3. Queued(s) = Queued(b) \cup {Head(s)}
  BY <1>1, <1>2 DEF Queued
<1>4. ASSUME NEW i \in 1..Len(b)
      PROVE  /\ Head(s) \notin {"login", "game"} => b[i] # Head(s)
             /\ Head(s) = "close" => b[i] # "login"
  BY <1>1, <1>2 DEF InOrder
<1>5. InOrder(b)
  <2>. SUFFICES ASSUME NEW i \in 1..Len(b), NEW j \in 1..Len(b)
                PROVE  /\ b[i] = b[j] /\ b[i] \notin {"login", "game"} => i = j
                       /\ b[i] = "close" /\ b[j] = "login" => j < i
    BY DEF InOrder
  <2>1. /\ s[i + 1] = s[j + 1] /\ s[i + 1] \notin {"login", "game"} => i + 1 = j + 1
        /\ s[i + 1] = "close" /\ s[j + 1] = "login" => j + 1 < i + 1
    BY <1>2 DEF InOrder
  <2>. QED
    BY <1>1, <1>2, <2>1
<1>. QED
  BY <1>1, <1>3, <1>4, <1>5 DEF b, Queued

-----------------------------------------------------------------------------
(* Worlds.                                                                 *)

LEMMA WorldFields ==
  ASSUME NEW w, WorldType(w)
  PROVE  /\ w = [conn |-> w.conn, proto |-> w.proto, msg |-> w.msg, tasks |-> w.tasks]
         /\ w.conn \in Conn /\ w.proto \in Proto /\ w.msg \in [Msgs -> Msg]
         /\ w.tasks \in Seq(Tasks)
         /\ \A m \in Msgs : w.msg[m] \in Msg
BY DEF WorldType

LEMMA UsedFinite ==
  ASSUME NEW w
  PROVE  IsFiniteSet(Used(w)) /\ Cardinality(Used(w)) \in Nat
<1>1. Used(w) \in SUBSET Msgs
  BY DEF Used
<1>. QED
  BY <1>1, ConnectionAssumption, FS_Subset, FS_CardinalityType

\* A step of the connection that leaves its messages alone.
LEMMA ChangeConn ==
  ASSUME NEW w, NEW D, WorldInv(w, D), NEW c \in Conn,
         c.refs = w.conn.refs, c.alive = w.conn.alive, c.writing = w.conn.writing,
         NEW v, v = [conn |-> c, proto |-> w.proto, msg |-> w.msg, tasks |-> w.tasks],
         ConnInv(v), ReleaseInv(v, D)
  PROVE  WorldInv(v, D)
<1>1. v.conn = c /\ v.proto = w.proto /\ v.msg = w.msg /\ v.tasks = w.tasks
  OBVIOUS
<1>2. WorldType(v)
  BY <1>1, WorldFields DEF WorldInv, WorldType
<1>3. InOrder(v.tasks) /\ MsgInv(v)
  BY <1>1 DEF WorldInv, MsgInv
<1>4. CountInv(v)
  BY <1>1 DEF WorldInv, CountInv, Used
<1>. QED
  BY <1>2, <1>3, <1>4 DEF WorldInv

\* A task with a name is put to the end of the list.
LEMMA AppendInv ==
  ASSUME NEW w, NEW D, WorldInv(w, D), NEW t \in Names,
         t = "close" => "close" \notin Queued(w.tasks) /\ w.conn.state = "REQUESTED",
         t = "login" => "close" \notin Queued(w.tasks) /\ w.proto.life = "attached",
         t = "relConn" => /\ ~Released(w, D) /\ w.conn.state = "CLOSING"
                          /\ w.conn.reading = "none" /\ w.conn.writing = NoMsg,
         t = "relProto" => /\ w.proto.life = "detached"
                           /\ "relProto" \notin Queued(w.tasks) \cup D,
         NEW v, v = [conn |-> w.conn, proto |-> w.proto, msg |-> w.msg,
                     tasks |-> Append(w.tasks, t)]
  PROVE  WorldInv(v, D)
<1>. DEFINE s == Append(w.tasks, t)
<1>1. v.conn = w.conn /\ v.proto = w.proto /\ v.msg = w.msg /\ v.tasks = s
  OBVIOUS
<1>2. s \in Seq(Tasks) /\ InOrder(s) /\ Queued(s) = Queued(w.tasks) \cup {t}
  BY QueueTask, WorldFields DEF WorldInv, Names, Released
<1>. HIDE DEF s
<1>3. WorldType(v)
  BY <1>1, <1>2, WorldFields DEF WorldInv, WorldType
<1>4. MsgInv(v)
  <2>1. t \notin Msgs
    BY TasksOf
  <2>2. ASSUME NEW m \in Msgs PROVE m \in Queued(s) <=> m \in Queued(w.tasks)
    BY <1>2, <2>1
  <2>3. MsgInv(w)
    BY DEF WorldInv
  <2>. QED
    BY <1>1, <2>2, <2>3, Zenon DEF MsgInv
<1>5. CountInv(v)
  BY <1>1 DEF WorldInv, CountInv, Used
<1>6. ConnInv(v)
  BY <1>1, <1>2 DEF WorldInv, ConnInv
<1>7. ReleaseInv(v, D)
  BY <1>1, <1>2 DEF WorldInv, ReleaseInv, Released
<1>. QED
  BY <1>1, <1>2, <1>3, <1>4, <1>5, <1>6, <1>7 DEF WorldInv

\* Dispatcher::addTask: the task is queued or dropped.
LEMMA PostFields ==
  ASSUME NEW w, WorldType(w), NEW t
  PROVE  \/ Post(w, t) = w
         \/ Post(w, t) = [conn |-> w.conn, proto |-> w.proto, msg |-> w.msg,
                          tasks |-> Append(w.tasks, t)]
<1>. DEFINE s == Append(w.tasks, t)
<1>1. Post(w, t) = w \/ Post(w, t) = [w EXCEPT !.tasks = s]
  BY Zenon DEF Post
<1>. HIDE DEF s
<1>2. [w EXCEPT !.tasks = s] = [conn |-> w.conn, proto |-> w.proto, msg |-> w.msg, tasks |-> s]
  BY WorldFields
<1>. QED
  BY <1>1, <1>2 DEF s

LEMMA PostInv ==
  ASSUME NEW w, NEW D, WorldInv(w, D), NEW t \in Names,
         t = "close" => "close" \notin Queued(w.tasks) /\ w.conn.state = "REQUESTED",
         t = "login" => "close" \notin Queued(w.tasks) /\ w.proto.life = "attached",
         t = "relConn" => /\ ~Released(w, D) /\ w.conn.state = "CLOSING"
                          /\ w.conn.reading = "none" /\ w.conn.writing = NoMsg,
         t = "relProto" => /\ w.proto.life = "detached"
                           /\ "relProto" \notin Queued(w.tasks) \cup D,
         NEW v, v = Post(w, t)
  PROVE  /\ WorldInv(v, D)
         /\ v.msg = w.msg /\ v.conn = w.conn /\ v.proto = w.proto
<1>1. CASE v = w
  BY <1>1
<1>2. CASE v = [conn |-> w.conn, proto |-> w.proto, msg |-> w.msg,
                tasks |-> Append(w.tasks, t)]
  BY <1>2, AppendInv
<1>. QED
  BY <1>1, <1>2, PostFields DEF WorldInv

LEMMA ConnState ==
  ASSUME NEW c \in Conn, NEW x \in {"NONE", "REQUESTED", "CLOSING"}, NEW d,
         d = [c EXCEPT !.state = x]
  PROVE  /\ d \in Conn /\ d.state = x
         /\ d.refs = c.refs /\ d.alive = c.alive /\ d.writing = c.writing
         /\ d.reading = c.reading /\ d.pendingRead = c.pendingRead
         /\ d.pendingWrite = c.pendingWrite /\ d.writeError = c.writeError
BY DEF Conn

LEMMA CloseConnectionInv ==
  ASSUME NEW w, NEW D, WorldInv(w, D), w.proto.life # "none" \/ w.conn.reading = "none",
         NEW v, v = CloseConnection(w)
  PROVE  /\ WorldInv(v, D)
         /\ v.msg = w.msg /\ v.proto = w.proto
         /\ v.conn.reading = w.conn.reading /\ v.conn.writing = w.conn.writing
         /\ v.conn.writeError = w.conn.writeError
         /\ (w.conn.state # "CLOSING" => v.conn.state # "CLOSING")
<1>1. CASE w.conn.state # "NONE"
  BY <1>1 DEF CloseConnection
<1>2. CASE w.conn.state = "NONE"
  <2>. DEFINE c == [w.conn EXCEPT !.state = "REQUESTED"]
              u == [w EXCEPT !.conn = c]
  <2>1. v = Post(u, "close")
    BY <1>2, Zenon DEF CloseConnection
  <2>2. /\ c \in Conn /\ c.state = "REQUESTED"
        /\ c.refs = w.conn.refs /\ c.alive = w.conn.alive /\ c.writing = w.conn.writing
        /\ c.reading = w.conn.reading /\ c.pendingRead = w.conn.pendingRead
        /\ c.pendingWrite = w.conn.pendingWrite /\ c.writeError = w.conn.writeError
    BY ConnState, WorldFields DEF WorldInv
  <2>. HIDE DEF c
  <2>3. u = [conn |-> c, proto |-> w.proto, msg |-> w.msg, tasks |-> w.tasks]
    BY WorldFields DEF WorldInv
  <2>4. u.conn = c /\ u.proto = w.proto /\ u.msg = w.msg /\ u.tasks = w.tasks
    BY <2>3
  <2>. HIDE DEF u
  <2>5. ConnInv(u)
    BY <1>2, <2>2, <2>4 DEF WorldInv, ConnInv
  <2>6. ReleaseInv(u, D)
    BY <1>2, <2>2, <2>4 DEF WorldInv, ReleaseInv, Released
  <2>7. WorldInv(u, D)
    BY <2>2, <2>3, <2>5, <2>6, ChangeConn
  <2>8. "close" \notin Queued(u.tasks) /\ "close" \in Names
    BY <1>2, <2>4 DEF WorldInv, ConnInv, Names
  <2>9. /\ WorldInv(v, D)
        /\ v.msg = u.msg /\ v.conn = u.conn /\ v.proto = u.proto
    BY <2>1, <2>2, <2>4, <2>7, <2>8, PostInv
  <2>. QED
    BY <2>2, <2>4, <2>9
<1>. QED
  BY <1>1, <1>2

LEMMA ConnSocket ==
  ASSUME NEW c \in Conn, NEW d, d = [c EXCEPT !.socketClosed = TRUE]
  PROVE  /\ d \in Conn /\ d.state = c.state
         /\ d.refs = c.refs /\ d.alive = c.alive /\ d.writing = c.writing
         /\ d.reading = c.reading /\ d.pendingRead = c.pendingRead
         /\ d.pendingWrite = c.pendingWrite /\ d.writeError = c.writeError
<1>. DEFINE x == TRUE
<1>1. x \in BOOLEAN /\ d = [c EXCEPT !.socketClosed = x]
  OBVIOUS
<1>. HIDE DEF x
<1>. QED
  BY <1>1 DEF Conn

\* A connection that is closing is released once, when its last read or write
\* is over.
LEMMA ClosingConnectionInv ==
  ASSUME NEW w, NEW D, WorldInv(w, D), w.conn.state = "CLOSING", ~Released(w, D),
         NEW v, v = ClosingConnection(w)
  PROVE  WorldInv(v, D) /\ v.msg = w.msg
<1>1. CASE w.conn.pendingWrite # 0 /\ ~w.conn.writeError
  BY <1>1 DEF ClosingConnection
<1>2. CASE ~(w.conn.pendingWrite # 0 /\ ~w.conn.writeError)
  <2>. DEFINE c == [w.conn EXCEPT !.socketClosed = TRUE]
              u == [w EXCEPT !.conn = c]
  <2>1. v = IF w.conn.pendingRead = 0 THEN Post(u, "relConn") ELSE u
    BY <1>2, Zenon DEF ClosingConnection
  <2>2. /\ c \in Conn /\ c.state = "CLOSING"
        /\ c.refs = w.conn.refs /\ c.alive = w.conn.alive /\ c.writing = w.conn.writing
        /\ c.reading = w.conn.reading /\ c.pendingRead = w.conn.pendingRead
        /\ c.pendingWrite = w.conn.pendingWrite /\ c.writeError = w.conn.writeError
    BY ConnSocket, WorldFields DEF WorldInv
  <2>. HIDE DEF c
  <2>3. u = [conn |-> c, proto |-> w.proto, msg |-> w.msg, tasks |-> w.tasks]
    BY WorldFields DEF WorldInv
  <2>4. u.conn = c /\ u.proto = w.proto /\ u.msg = w.msg /\ u.tasks = w.tasks
    BY <2>3
  <2>. HIDE DEF u
  <2>5. ConnInv(u)
    BY <2>2, <2>4 DEF WorldInv, ConnInv
  <2>6. ReleaseInv(u, D) /\ ~Released(u, D)
    BY <2>2, <2>4 DEF WorldInv, ReleaseInv, Released
  <2>7. WorldInv(u, D)
    BY <2>2, <2>3, <2>5, <2>6, ChangeConn
  <2>8. CASE w.conn.pendingRead = 0
    <3>1. u.conn.reading = "none" /\ u.conn.writing = NoMsg /\ u.conn.state = "CLOSING"
      BY <1>2, <2>2, <2>4, <2>8 DEF WorldInv, ConnInv
    <3>2. "relConn" \in Names
      BY DEF Names
    <3>3. v = Post(u, "relConn")
      BY <2>1, <2>8
    <3>4. WorldInv(v, D) /\ v.msg = u.msg
      BY <2>6, <2>7, <3>1, <3>2, <3>3, PostInv
    <3>. QED
      BY <2>4, <3>4
  <2>9. CASE w.conn.pendingRead # 0
    BY <2>1, <2>4, <2>7, <2>9
  <2>. QED
    BY <2>8, <2>9
<1>. QED
  BY <1>1, <1>2

\* A message changes hands: c, r, x and s are what the connection, its protocol,
\* the message and the tasks become.
Moves(w, D, m, c, r, x, s) ==
  /\ w.msg[m].at # "free"
  /\ x \in Msg /\ x.at # "free"
  /\ x.sealed = IF x.at \in {"inflight", "releasing", "lost"} THEN 1 ELSE 0
  /\ c \in Conn /\ c.refs = w.conn.refs /\ c.alive = w.conn.alive
  /\ c.state = w.conn.state /\ c.reading = w.conn.reading
  /\ c.pendingRead = w.conn.pendingRead
  /\ c.pendingWrite = IF c.writing = NoMsg THEN 0 ELSE 1
  /\ c.writeError => c.writing = NoMsg
  /\ Released(w, D) => c.writing = NoMsg
  /\ \A n \in Msgs \ {m} : c.writing = n <=> w.conn.writing = n
  /\ c.writing = m <=> x.at = "inflight"
  /\ r \in Proto /\ r.life = w.proto.life /\ r.refs = w.proto.refs
  /\ r.buffer # NoMsg =>
       r.buffer = w.proto.buffer /\ (r.buffer = m => x.at \in {"autosend", "toadd"})
  /\ s \in Seq(Tasks) /\ InOrder(s)
  /\ \A t \in Tasks \ {m} : t \in Queued(s) <=> t \in Queued(w.tasks)
  /\ m \in Queued(s) <=> x.at = "releasing"

Moved(w, m, c, r, x, s) ==
  [conn |-> c, proto |-> r, msg |-> [w.msg EXCEPT ![m] = x], tasks |-> s]

LEMMA MoveMessage ==
  ASSUME NEW w, NEW D, WorldInv(w, D),
         NEW m \in Msgs, NEW c, NEW r, NEW x, NEW s, Moves(w, D, m, c, r, x, s),
         NEW v, v = Moved(w, m, c, r, x, s)
  PROVE  /\ WorldInv(v, D)
         /\ v.conn = c /\ v.proto = r /\ v.tasks = s
         /\ v.msg[m] = x
         /\ \A n \in Msgs \ {m} : v.msg[n] = w.msg[n]
<1>0. /\ c \in Conn /\ r \in Proto /\ x \in Msg /\ s \in Seq(Tasks) /\ InOrder(s)
      /\ WorldType(w) /\ ConnInv(w) /\ ReleaseInv(w, D) /\ MsgInv(w) /\ CountInv(w)
  BY DEF Moves, WorldInv
<1>1. /\ v.conn = c /\ v.proto = r /\ v.tasks = s /\ v.msg \in [Msgs -> Msg] /\ v.msg[m] = x
      /\ \A n \in Msgs \ {m} : v.msg[n] = w.msg[n]
  BY <1>0, WorldFields DEF Moved
<1>2. WorldType(v)
  <2>1. v = [conn |-> v.conn, proto |-> v.proto, msg |-> v.msg, tasks |-> v.tasks]
    BY DEF Moved
  <2>. QED
    BY <1>0, <1>1, <2>1 DEF WorldType
<1>3. \A t \in Names : t \in Queued(s) <=> t \in Queued(w.tasks)
  BY TasksOf DEF Moves
<1>4. ConnInv(v)
  <2>1. "close" \in Names
    BY DEF Names
  <2>. QED
    BY <1>0, <1>1, <1>3, <2>1 DEF ConnInv, Moves
<1>5. ReleaseInv(v, D)
  <2>1. "relConn" \in Names /\ "relProto" \in Names /\ "login" \in Names
    BY DEF Names
  <2>. QED
    BY <1>0, <1>1, <1>3, <2>1 DEF ReleaseInv, Released, Moves
<1>6. MsgInv(v)
  <2>1. ASSUME NEW n \in Msgs
        PROVE  /\ v.msg[n].at = "inflight" <=> v.conn.writing = n
               /\ v.msg[n].at = "releasing" <=> n \in Queued(v.tasks)
               /\ v.msg[n].sealed =
                    IF v.msg[n].at \in {"inflight", "releasing", "lost"} THEN 1 ELSE 0
    <3>1. CASE n = m
      BY <1>1, <3>1 DEF Moves
    <3>2. CASE n # m
      <4>1. n \in Tasks
        BY TasksOf
      <4>. QED
        BY <1>0, <1>1, <3>2, <4>1 DEF MsgInv, Moves
    <3>. QED
      BY <3>1, <3>2
  <2>2. ASSUME v.proto.buffer # NoMsg
        PROVE  v.msg[v.proto.buffer].at \in {"autosend", "toadd"}
    <3>1. r.buffer \in Msgs /\ r.buffer = w.proto.buffer
      BY <1>1, <2>2 DEF Proto, Moves
    <3>2. CASE r.buffer = m
      BY <1>1, <2>2, <3>2 DEF Moves
    <3>3. CASE r.buffer # m
      BY <1>0, <1>1, <2>2, <3>1, <3>3 DEF MsgInv
    <3>. QED
      BY <3>2, <3>3
  <2>. QED
    BY <2>1, <2>2 DEF MsgInv
<1>7. CountInv(v)
  <2>1. Used(v) = Used(w)
    BY <1>1 DEF Used, Moves
  <2>. QED
    BY <1>0, <1>1, <2>1 DEF CountInv, Moves
<1>. QED
  BY <1>0, <1>1, <1>2, <1>4, <1>5, <1>6, <1>7 DEF WorldInv

-----------------------------------------------------------------------------
(* Messages.                                                               *)

LEMMA OnSendFields ==
  ASSUME NEW w, WorldType(w), NEW m \in Msgs, w.msg[m].sealed = 0,
         NEW v, v = OnSendMessage(w, m)
  PROVE  \E r \in Proto, y \in Msg :
           /\ v = [conn |-> w.conn, proto |-> r, msg |-> [w.msg EXCEPT ![m] = y],
                   tasks |-> w.tasks]
           /\ r.life = w.proto.life /\ r.refs = w.proto.refs
           /\ r.buffer = IF w.proto.buffer = m THEN NoMsg ELSE w.proto.buffer
           /\ y.at = w.msg[m].at /\ y.sealed = 1
<1>. DEFINE y == [w.msg[m] EXCEPT !.sealed = @ + 1]
            b == IF w.proto.buffer = m THEN NoMsg ELSE w.proto.buffer
            r == [w.proto EXCEPT !.buffer = b]
            M == [w.msg EXCEPT ![m] = y]
<1>1. v = [w EXCEPT !.msg = M, !.proto = r]
  BY Zenon DEF OnSendMessage
<1>2. y \in Msg /\ y.at = w.msg[m].at /\ y.sealed = 1
  <2>1. w.msg[m] \in Msg
    BY WorldFields
  <2>2. y = [w.msg[m] EXCEPT !.sealed = 1]
    OBVIOUS
  <2>. QED
    BY <2>1, <2>2 DEF Msg
<1>3. b \in Msgs \cup {NoMsg}
  BY WorldFields DEF Proto
<1>. HIDE DEF b
<1>4. r \in Proto /\ r.life = w.proto.life /\ r.refs = w.proto.refs /\ r.buffer = b
  <2>1. w.proto \in Proto
    BY WorldFields
  <2>. QED
    BY <1>3, <2>1 DEF Proto
<1>. HIDE DEF r, M, y
<1>5. v = [conn |-> w.conn, proto |-> r, msg |-> M, tasks |-> w.tasks]
  <2>1. w = [conn |-> w.conn, proto |-> w.proto, msg |-> w.msg, tasks |-> w.tasks]
    BY WorldFields
  <2>. QED
    BY <1>1, <2>1
<1>. QED
  BY <1>2, <1>4, <1>5 DEF M, b

\* What releasing a message of w leaves: the message released or lost.
ReleasedAs(w, m, v) ==
  \E z \in Msg, s \in {w.tasks, <<m>> \o w.tasks} :
    /\ v = Moved(w, m, w.conn, w.proto, z, s)
    /\ z.sealed = w.msg[m].sealed
    /\ \/ z.at = "releasing" /\ s = <<m>> \o w.tasks
       \/ z.at = "lost" /\ s = w.tasks

LEMMA ReleaseFields ==
  ASSUME NEW w, WorldType(w), NEW m \in Msgs, NEW v, v = ReleaseMessage(w, m)
  PROVE  ReleasedAs(w, m, v)
<1>. SUFFICES \E z \in Msg, s \in {w.tasks, <<m>> \o w.tasks} :
                /\ v = Moved(w, m, w.conn, w.proto, z, s)
                /\ z.sealed = w.msg[m].sealed
                /\ \/ z.at = "releasing" /\ s = <<m>> \o w.tasks
                   \/ z.at = "lost" /\ s = w.tasks
  BY Zenon DEF ReleasedAs
<1>1. w.msg[m] \in Msg
  BY WorldFields
<1>2. CASE accepting
  <2>. DEFINE z == [w.msg[m] EXCEPT !.at = "releasing"]
              M == [w.msg EXCEPT ![m] = z]
              s == <<m>> \o w.tasks
  <2>1. v = [w EXCEPT !.tasks = s, !.msg = M]
    BY <1>2, Zenon DEF ReleaseMessage
  <2>2. z \in Msg /\ z.at = "releasing" /\ z.sealed = w.msg[m].sealed
    BY <1>1 DEF Msg
  <2>. HIDE DEF z, M, s
  <2>3. v = [conn |-> w.conn, proto |-> w.proto, msg |-> M, tasks |-> s]
    BY <2>1, WorldFields
  <2>. QED
    BY <2>2, <2>3 DEF M, s, Moved
<1>3. CASE ~accepting
  <2>. DEFINE z == [w.msg[m] EXCEPT !.at = "lost"]
              M == [w.msg EXCEPT ![m] = z]
  <2>1. v = [w EXCEPT !.msg = M]
    BY <1>3, Zenon DEF ReleaseMessage
  <2>2. z \in Msg /\ z.at = "lost" /\ z.sealed = w.msg[m].sealed
    BY <1>1 DEF Msg
  <2>. HIDE DEF z, M
  <2>3. v = [conn |-> w.conn, proto |-> w.proto, msg |-> M, tasks |-> w.tasks]
    BY <2>1, WorldFields
  <2>. QED
    BY <2>2, <2>3 DEF M, Moved
<1>. QED
  BY <1>2, <1>3

\* The frame of a step that touches one message.
Others(w, v, m) == \A n \in Msgs \ {m} : v.msg[n] = w.msg[n]

Sendable == {"autosend", "single", "toadd"}

\* A message that cannot be sent gets its header and is dropped.
LEMMA DropInv ==
  ASSUME NEW w, NEW D, WorldInv(w, D), NEW m \in Msgs, w.msg[m].at \in Sendable,
         NEW v, v = ReleaseMessage(OnSendMessage(w, m), m)
  PROVE  WorldInv(v, D) /\ Others(w, v, m) /\ v.msg[m].at \notin Sendable
         /\ v.proto.life = w.proto.life /\ v.conn = w.conn
<1>1. /\ WorldType(w) /\ ConnInv(w) /\ ReleaseInv(w, D) /\ MsgInv(w) /\ CountInv(w)
      /\ w.msg[m].sealed = 0 /\ InOrder(w.tasks) /\ w.tasks \in Seq(Tasks)
      /\ w.conn.writing # m /\ m \notin Queued(w.tasks) /\ w.conn \in Conn /\ w.proto \in Proto
  BY WorldFields DEF WorldInv, MsgInv, Sendable
<1>2. PICK u : u = OnSendMessage(w, m)
  OBVIOUS
<1>3. PICK r \in Proto, y \in Msg :
        /\ u = [conn |-> w.conn, proto |-> r, msg |-> [w.msg EXCEPT ![m] = y],
                tasks |-> w.tasks]
        /\ r.life = w.proto.life /\ r.refs = w.proto.refs
        /\ r.buffer = IF w.proto.buffer = m THEN NoMsg ELSE w.proto.buffer
        /\ y.at = w.msg[m].at /\ y.sealed = 1
  BY <1>1, <1>2, OnSendFields
<1>4. /\ u.conn = w.conn /\ u.proto = r /\ u.tasks = w.tasks
      /\ u.msg = [w.msg EXCEPT ![m] = y] /\ u.msg[m] = y
      /\ u = [conn |-> u.conn, proto |-> u.proto, msg |-> u.msg, tasks |-> u.tasks]
  BY <1>1, <1>3, WorldFields
<1>5. WorldType(u)
  <2>1. u.msg \in [Msgs -> Msg]
    BY <1>1, <1>4, WorldFields
  <2>. QED
    BY <1>1, <1>4, <2>1 DEF WorldType
<1>r. ReleasedAs(u, m, v)
  BY <1>2, <1>5, ReleaseFields, Zenon
<1>6. PICK z \in Msg, s \in {u.tasks, <<m>> \o u.tasks} :
        /\ v = Moved(u, m, u.conn, u.proto, z, s)
        /\ z.sealed = u.msg[m].sealed
        /\ \/ z.at = "releasing" /\ s = <<m>> \o u.tasks
           \/ z.at = "lost" /\ s = u.tasks
  BY <1>r, Zenon DEF ReleasedAs
<1>7. v = Moved(w, m, w.conn, r, z, s)
  <2>1. [u.msg EXCEPT ![m] = z] = [w.msg EXCEPT ![m] = z]
    BY <1>1, <1>4, WorldFields
  <2>. QED
    BY <1>4, <1>6, <2>1 DEF Moved
<1>8. /\ s \in Seq(Tasks) /\ InOrder(s)
      /\ \A t \in Tasks \ {m} : t \in Queued(s) <=> t \in Queued(w.tasks)
      /\ m \in Queued(s) <=> z.at = "releasing"
  <2>1. CASE s = w.tasks /\ z.at = "lost"
    BY <1>1, <2>1
  <2>2. CASE s = <<m>> \o w.tasks /\ z.at = "releasing"
    BY <1>1, <2>2, QueueMessage
  <2>. QED
    BY <1>4, <1>6, <2>1, <2>2
<1>9. /\ z.sealed = 1 /\ z.at \in {"releasing", "lost"}
      /\ r.buffer # NoMsg => r.buffer = w.proto.buffer /\ r.buffer # m
  BY <1>3, <1>4, <1>6
<1>10. /\ w.conn.pendingWrite = IF w.conn.writing = NoMsg THEN 0 ELSE 1
       /\ w.conn.writeError => w.conn.writing = NoMsg
       /\ Released(w, D) => w.conn.writing = NoMsg
       /\ w.msg[m].at # "free"
  BY <1>1 DEF ConnInv, ReleaseInv, Sendable
<1>11. Moves(w, D, m, w.conn, r, z, s)
  <2>1. z.at # "free" /\ z.at # "inflight" /\ z.at \in {"inflight", "releasing", "lost"}
    BY <1>9
  <2>2. w.conn.writing = m <=> z.at = "inflight"
    BY <1>1, <2>1
  <2>. QED
    BY <1>1, <1>3, <1>6, <1>8, <1>9, <1>10, <2>1, <2>2, SMTT(60) DEF Moves
<1>12. /\ WorldInv(v, D) /\ v.conn = w.conn /\ v.proto = r /\ v.msg[m] = z
       /\ \A n \in Msgs \ {m} : v.msg[n] = w.msg[n]
  BY <1>7, <1>11, MoveMessage
<1>. QED
  BY <1>3, <1>9, <1>12 DEF Others, Sendable

Keep(w, m, a) == [w EXCEPT !.msg[m].at = a]

\* A message is put off, or kept for later.
LEMMA KeepInv ==
  ASSUME NEW w, NEW D, WorldInv(w, D), NEW m \in Msgs, w.msg[m].at \in Sendable,
         NEW a \in {"autosend", "toadd"}, NEW v, v = Keep(w, m, a)
  PROVE  WorldInv(v, D) /\ Others(w, v, m) /\ v.msg[m].at = a
         /\ v.proto = w.proto /\ v.conn = w.conn
<1>. DEFINE z == [w.msg[m] EXCEPT !.at = a]
            M == [w.msg EXCEPT ![m] = z]
<1>1. /\ WorldType(w) /\ ConnInv(w) /\ ReleaseInv(w, D) /\ MsgInv(w) /\ CountInv(w)
      /\ w.msg[m].sealed = 0 /\ InOrder(w.tasks) /\ w.tasks \in Seq(Tasks)
      /\ w.conn.writing # m /\ m \notin Queued(w.tasks) /\ w.conn \in Conn /\ w.proto \in Proto
  BY WorldFields DEF WorldInv, MsgInv, Sendable
<1>2. z \in Msg /\ z.at = a /\ z.sealed = 0
  <2>1. w.msg[m] \in Msg
    BY <1>1, WorldFields
  <2>2. a \in {"free", "autosend", "single", "toadd", "inflight", "releasing", "lost"}
    OBVIOUS
  <2>. QED
    BY <1>1, <2>1, <2>2 DEF Msg
<1>3. v = [w EXCEPT !.msg = M]
  BY Zenon DEF Keep
<1>. HIDE DEF z, M
<1>4. v = [conn |-> w.conn, proto |-> w.proto, msg |-> M, tasks |-> w.tasks]
  BY <1>1, <1>3, WorldFields
<1>5. v = Moved(w, m, w.conn, w.proto, z, w.tasks)
  BY <1>4 DEF M, Moved
<1>6. /\ w.conn.pendingWrite = IF w.conn.writing = NoMsg THEN 0 ELSE 1
      /\ w.conn.writeError => w.conn.writing = NoMsg
      /\ Released(w, D) => w.conn.writing = NoMsg
      /\ w.msg[m].at # "free"
  BY <1>1 DEF ConnInv, ReleaseInv, Sendable
<1>7. Moves(w, D, m, w.conn, w.proto, z, w.tasks)
  <2>1. z.at # "free" /\ z.at # "inflight" /\ z.at # "releasing" /\ z.at # "lost"
    BY <1>2
  <2>. QED
    BY <1>1, <1>2, <1>6, <2>1 DEF Moves
<1>8. WorldInv(v, D) /\ v.conn = w.conn /\ v.proto = w.proto /\ v.msg[m] = z
      /\ \A n \in Msgs \ {m} : v.msg[n] = w.msg[n]
  BY <1>5, <1>7, MoveMessage
<1>. QED
  BY <1>2, <1>8 DEF Others

Writes(c, m) == [c EXCEPT !.pendingWrite = c.pendingWrite + 1, !.writing = m]

LEMMA ConnWrites ==
  ASSUME NEW c \in Conn, c.pendingWrite = 0, NEW m \in Msgs, NEW d, d = Writes(c, m)
  PROVE  /\ d \in Conn /\ d.state = c.state
         /\ d.refs = c.refs /\ d.alive = c.alive /\ d.writing = m
         /\ d.reading = c.reading /\ d.pendingRead = c.pendingRead
         /\ d.pendingWrite = 1 /\ d.writeError = c.writeError
<1>. DEFINE one == 1
            n   == m
<1>1. d = [c EXCEPT !.pendingWrite = one, !.writing = n]
  BY DEF Writes
<1>2. one = 1 /\ one \in 0..1 /\ n = m /\ n \in Msgs \cup {NoMsg}
  OBVIOUS
<1>. HIDE DEF one, n
<1>3. d \in Conn
  BY <1>1, <1>2 DEF Conn
<1>. QED
  BY <1>1, <1>2 DEF Conn

\* A message gets its header and is given to the socket.
LEMMA StartWriteInv ==
  ASSUME NEW w, NEW D, WorldInv(w, D), NEW m \in Msgs, w.msg[m].at \in Sendable,
         w.conn.state # "CLOSING", ~w.conn.writeError, w.conn.pendingWrite = 0,
         NEW v, v = Send(w, m)
  PROVE  WorldInv(v, D) /\ Others(w, v, m) /\ v.msg[m].at = "inflight"
         /\ v.proto.life = w.proto.life /\ v.conn.state = w.conn.state
         /\ v.conn.reading = w.conn.reading
<1>1. /\ WorldType(w) /\ ConnInv(w) /\ ReleaseInv(w, D) /\ MsgInv(w) /\ CountInv(w)
      /\ w.msg[m].sealed = 0 /\ InOrder(w.tasks) /\ w.tasks \in Seq(Tasks)
      /\ w.conn.writing = NoMsg /\ m \notin Queued(w.tasks) /\ w.conn \in Conn
      /\ w.proto \in Proto /\ ~Released(w, D) /\ w.msg[m].at # "free"
  BY WorldFields DEF WorldInv, MsgInv, Sendable, ConnInv, ReleaseInv
<1>2. PICK u : u = OnSendMessage(w, m)
  OBVIOUS
<1>3. PICK r \in Proto, y \in Msg :
        /\ u = [conn |-> w.conn, proto |-> r, msg |-> [w.msg EXCEPT ![m] = y],
                tasks |-> w.tasks]
        /\ r.life = w.proto.life /\ r.refs = w.proto.refs
        /\ r.buffer = IF w.proto.buffer = m THEN NoMsg ELSE w.proto.buffer
        /\ y.at = w.msg[m].at /\ y.sealed = 1
  BY <1>1, <1>2, OnSendFields
<1>4. /\ u.conn = w.conn /\ u.proto = r /\ u.tasks = w.tasks
      /\ u.msg = [w.msg EXCEPT ![m] = y] /\ u.msg[m] = y
      /\ u = [conn |-> u.conn, proto |-> u.proto, msg |-> u.msg, tasks |-> u.tasks]
  BY <1>1, <1>3, WorldFields
<1>. DEFINE c == Writes(u.conn, m)
            z == [u.msg[m] EXCEPT !.at = "inflight"]
            M == [u.msg EXCEPT ![m] = z]
<1>5. v = [u EXCEPT !.conn = c, !.msg = M]
  BY <1>2, Zenon DEF Send, Writes
<1>6. /\ c \in Conn /\ c.state = w.conn.state
      /\ c.refs = w.conn.refs /\ c.alive = w.conn.alive /\ c.writing = m
      /\ c.reading = w.conn.reading /\ c.pendingRead = w.conn.pendingRead
      /\ c.pendingWrite = 1 /\ c.writeError = w.conn.writeError
  BY <1>1, <1>4, ConnWrites
<1>7. z \in Msg /\ z.at = "inflight" /\ z.sealed = 1
  BY <1>3, <1>4 DEF Msg
<1>. HIDE DEF c, z, M
<1>8. v = [conn |-> c, proto |-> u.proto, msg |-> M, tasks |-> u.tasks]
  BY <1>4, <1>5
<1>9. M = [w.msg EXCEPT ![m] = z]
  BY <1>1, <1>4, WorldFields DEF M
<1>10. v = Moved(w, m, c, r, z, w.tasks)
  BY <1>4, <1>8, <1>9 DEF Moved
<1>11. Moves(w, D, m, c, r, z, w.tasks)
  <2>1. /\ z.at # "free" /\ z.at # "releasing" /\ z.at \in {"inflight", "releasing", "lost"}
        /\ m # NoMsg
    BY <1>7, ConnectionAssumption
  <2>2. r.buffer # NoMsg => r.buffer = w.proto.buffer /\ r.buffer # m
    BY <1>3
  <2>3. /\ c.pendingWrite = IF c.writing = NoMsg THEN 0 ELSE 1
        /\ c.writeError => c.writing = NoMsg
        /\ Released(w, D) => c.writing = NoMsg
        /\ \A n \in Msgs \ {m} : c.writing = n <=> w.conn.writing = n
        /\ c.writing = m <=> z.at = "inflight"
    BY <1>1, <1>6, <1>7, <2>1, ConnectionAssumption
  <2>4. \A t \in Tasks \ {m} : t \in Queued(w.tasks) <=> t \in Queued(w.tasks)
    OBVIOUS
  <2>5. m \in Queued(w.tasks) <=> z.at = "releasing"
    BY <1>1, <2>1
  <2>6. z.sealed = IF z.at \in {"inflight", "releasing", "lost"} THEN 1 ELSE 0
    BY <1>7, <2>1
  <2>7. /\ r \in Proto /\ r.life = w.proto.life /\ r.refs = w.proto.refs
        /\ r.buffer # NoMsg =>
             r.buffer = w.proto.buffer /\ (r.buffer = m => z.at \in {"autosend", "toadd"})
    BY <1>3, <2>2
  <2>. QED
    BY <1>1, <1>6, <1>7, <2>1, <2>3, <2>4, <2>5, <2>6, <2>7, Zenon DEF Moves
<1>12. /\ WorldInv(v, D) /\ v.conn = c /\ v.proto = r /\ v.msg[m] = z
       /\ \A n \in Msgs \ {m} : v.msg[n] = w.msg[n]
  BY <1>10, <1>11, MoveMessage
<1>. QED
  BY <1>3, <1>6, <1>7, <1>12 DEF Others

\* Connection::send
LEMMA SendInv ==
  ASSUME NEW w, NEW D, WorldInv(w, D), NEW m \in Msgs, w.msg[m].at \in Sendable,
         NEW v, v = Send(w, m)
  PROVE  WorldInv(v, D) /\ Others(w, v, m) /\ v.msg[m].at # "single"
         /\ v.proto.life = w.proto.life /\ v.conn.state = w.conn.state
         /\ v.conn.reading = w.conn.reading
<1>1. CASE w.conn.state = "CLOSING" \/ w.conn.writeError
  <2>1. v = ReleaseMessage(OnSendMessage(w, m), m)
    BY <1>1 DEF Send
  <2>. QED
    BY <2>1, DropInv DEF Sendable
<1>2. CASE ~(w.conn.state = "CLOSING" \/ w.conn.writeError) /\ w.conn.pendingWrite = 0
  BY <1>2, StartWriteInv
<1>3. CASE ~(w.conn.state = "CLOSING" \/ w.conn.writeError) /\ w.conn.pendingWrite # 0
  <2>1. v = Keep(w, m, "toadd")
    BY <1>3, Zenon DEF Send, Keep
  <2>. QED
    BY <2>1, KeepInv
<1>. QED
  BY <1>1, <1>2, <1>3

\* A message is taken from the pool: what the connection, its protocol and the
\* message become.
Gets(w, m, c, r, x) ==
  /\ w.msg[m].at = "free" /\ w.proto.life = "attached"
  /\ x \in Msg /\ x.at \in {"autosend", "single"} /\ x.sealed = 0
  /\ r \in Proto /\ r.life = w.proto.life /\ r.refs = w.proto.refs + 1
  /\ r.buffer = w.proto.buffer \/ (r.buffer = m /\ x.at = "autosend")
  /\ c \in Conn /\ c.refs = w.conn.refs + 1
  /\ c.state = w.conn.state /\ c.alive = w.conn.alive /\ c.writing = w.conn.writing
  /\ c.reading = w.conn.reading /\ c.pendingRead = w.conn.pendingRead
  /\ c.pendingWrite = w.conn.pendingWrite /\ c.writeError = w.conn.writeError

LEMMA GetInv ==
  ASSUME NEW w, NEW D, WorldInv(w, D), NEW m \in Msgs, NEW c, NEW r, NEW x,
         Gets(w, m, c, r, x), NEW v, v = Moved(w, m, c, r, x, w.tasks)
  PROVE  /\ WorldInv(v, D)
         /\ v.conn = c /\ v.proto = r /\ v.tasks = w.tasks /\ v.msg[m] = x
         /\ \A n \in Msgs \ {m} : v.msg[n] = w.msg[n]
<1>0. /\ c \in Conn /\ r \in Proto /\ x \in Msg
      /\ WorldType(w) /\ ConnInv(w) /\ ReleaseInv(w, D) /\ MsgInv(w) /\ CountInv(w)
      /\ InOrder(w.tasks) /\ w.tasks \in Seq(Tasks) /\ w.proto \in Proto /\ w.conn \in Conn
  BY WorldFields DEF Gets, WorldInv
<1>1. /\ v.conn = c /\ v.proto = r /\ v.tasks = w.tasks /\ v.msg \in [Msgs -> Msg]
      /\ v.msg[m] = x /\ \A n \in Msgs \ {m} : v.msg[n] = w.msg[n]
  BY <1>0, WorldFields DEF Moved
<1>2. WorldType(v)
  <2>1. v = [conn |-> v.conn, proto |-> v.proto, msg |-> v.msg, tasks |-> v.tasks]
    BY DEF Moved
  <2>. QED
    BY <1>0, <1>1, <2>1 DEF WorldType
<1>3. ConnInv(v)
  BY <1>0, <1>1 DEF ConnInv, Gets
<1>4. ReleaseInv(v, D)
  BY <1>0, <1>1 DEF ReleaseInv, Released, Gets
<1>5. MsgInv(v)
  <2>1. ASSUME NEW n \in Msgs
        PROVE  /\ v.msg[n].at = "inflight" <=> v.conn.writing = n
               /\ v.msg[n].at = "releasing" <=> n \in Queued(v.tasks)
               /\ v.msg[n].sealed =
                    IF v.msg[n].at \in {"inflight", "releasing", "lost"} THEN 1 ELSE 0
    <3>1. CASE n = m
      <4>1. w.conn.writing # m /\ m \notin Queued(w.tasks)
        BY <1>0 DEF MsgInv, Gets
      <4>2. x.at # "inflight" /\ x.at # "releasing" /\ x.at # "lost" /\ x.sealed = 0
        BY DEF Gets
      <4>3. c.writing = w.conn.writing
        BY DEF Gets
      <4>. QED
        BY <1>1, <3>1, <4>1, <4>2, <4>3
    <3>2. CASE n # m
      BY <1>0, <1>1, <3>2 DEF MsgInv, Gets
    <3>. QED
      BY <3>1, <3>2
  <2>2. ASSUME v.proto.buffer # NoMsg
        PROVE  v.msg[v.proto.buffer].at \in {"autosend", "toadd"}
    <3>1. CASE r.buffer = m /\ x.at = "autosend"
      BY <1>1, <3>1
    <3>2. CASE r.buffer = w.proto.buffer
      <4>1. r.buffer \in Msgs
        BY <1>0, <1>1, <2>2 DEF Proto
      <4>2. w.msg[r.buffer].at \in {"autosend", "toadd"} /\ r.buffer # m
        BY <1>0, <1>1, <2>2, <3>2 DEF MsgInv, Gets
      <4>. QED
        BY <1>1, <4>1, <4>2
    <3>. QED
      BY <3>1, <3>2 DEF Gets
  <2>. QED
    BY <2>1, <2>2 DEF MsgInv
<1>6. CountInv(v)
  <2>1. Used(v) = Used(w) \cup {m} /\ m \notin Used(w)
    BY <1>1 DEF Used, Gets
  <2>2. IsFiniteSet(Used(w)) /\ Cardinality(Used(w)) \in Nat
    BY UsedFinite
  <2>3. Cardinality(Used(v)) = Cardinality(Used(w)) + 1
    BY <2>1, <2>2, FS_AddElement
  <2>4. w.conn.alive
    BY <1>0 DEF ConnInv, ReleaseInv, Released, Gets
  <2>5. w.proto.refs \in Nat
    BY <1>0 DEF Proto
  <2>6. c.alive /\ r.life = "attached"
    BY <2>4 DEF Gets
  <2>7. v.conn.refs = Cardinality(Used(v))
    BY <1>0, <1>1, <2>3 DEF CountInv, Gets
  <2>8. r.refs = w.proto.refs + 1 /\ w.proto.refs >= Cardinality(Used(w))
    BY <1>0 DEF CountInv, Gets
  <2>9. v.proto.refs >= Cardinality(Used(v))
    BY <1>1, <2>2, <2>3, <2>5, <2>8
  <2>. QED
    BY <1>1, <2>6, <2>7, <2>9 DEF CountInv
<1>. QED
  BY <1>0, <1>1, <1>2, <1>3, <1>4, <1>5, <1>6 DEF WorldInv

LEMMA ConnCounts ==
  ASSUME NEW c \in Conn, NEW n \in Nat, NEW d, d = [c EXCEPT !.refs = n]
  PROVE  /\ d \in Conn /\ d.state = c.state /\ d.refs = n
         /\ d.alive = c.alive /\ d.writing = c.writing
         /\ d.reading = c.reading /\ d.pendingRead = c.pendingRead
         /\ d.pendingWrite = c.pendingWrite /\ d.writeError = c.writeError
BY DEF Conn

LEMMA GetMessageFields ==
  ASSUME NEW w, WorldType(w), NEW m \in Msgs, w.msg[m].at = "free",
         w.proto.life = "attached", NEW a \in {"autosend", "single"},
         NEW v, v = GetMessage(w, m, a)
  PROVE  \E c \in Conn, r \in Proto, x \in Msg :
           /\ Gets(w, m, c, r, x) /\ x.at = a /\ r.buffer = w.proto.buffer
           /\ v = Moved(w, m, c, r, x, w.tasks)
<1>. DEFINE x == [at |-> a, sealed |-> 0, fresh |-> TRUE]
            M == [w.msg EXCEPT ![m] = x]
            p == w.proto.refs + 1
            n == w.conn.refs + 1
            r == [w.proto EXCEPT !.refs = p]
            c == [w.conn EXCEPT !.refs = n]
<1>1. v = [w EXCEPT !.msg = M, !.proto = r, !.conn = c]
  BY Zenon DEF GetMessage
<1>2. w.conn \in Conn /\ w.proto \in Proto
  BY WorldFields
<1>3. p \in Nat /\ n \in Nat
  BY <1>2 DEF Conn, Proto
<1>4. p = w.proto.refs + 1 /\ n = w.conn.refs + 1
  OBVIOUS
<1>. HIDE DEF p, n
<1>5. x \in Msg /\ x.at = a /\ x.sealed = 0
  BY DEF Msg
<1>6. r \in Proto /\ r.life = w.proto.life /\ r.refs = p /\ r.buffer = w.proto.buffer
  BY <1>2, <1>3 DEF Proto
<1>7. /\ c \in Conn /\ c.state = w.conn.state /\ c.refs = n
      /\ c.alive = w.conn.alive /\ c.writing = w.conn.writing
      /\ c.reading = w.conn.reading /\ c.pendingRead = w.conn.pendingRead
      /\ c.pendingWrite = w.conn.pendingWrite /\ c.writeError = w.conn.writeError
  BY <1>2, <1>3, ConnCounts
<1>. HIDE DEF x, M, r, c
<1>8. v = [conn |-> c, proto |-> r, msg |-> M, tasks |-> w.tasks]
  <2>1. w = [conn |-> w.conn, proto |-> w.proto, msg |-> w.msg, tasks |-> w.tasks]
    BY WorldFields
  <2>. QED
    BY <1>1, <2>1
<1>9. v = Moved(w, m, c, r, x, w.tasks)
  BY <1>8 DEF M, Moved
<1>10. Gets(w, m, c, r, x)
  <2>1. x.at \in {"autosend", "single"}
    BY <1>5
  <2>2. /\ r \in Proto /\ r.life = w.proto.life /\ r.refs = w.proto.refs + 1
        /\ r.buffer = w.proto.buffer \/ (r.buffer = m /\ x.at = "autosend")
    BY <1>4, <1>6
  <2>3. /\ c \in Conn /\ c.refs = w.conn.refs + 1
        /\ c.state = w.conn.state /\ c.alive = w.conn.alive /\ c.writing = w.conn.writing
        /\ c.reading = w.conn.reading /\ c.pendingRead = w.conn.pendingRead
        /\ c.pendingWrite = w.conn.pendingWrite /\ c.writeError = w.conn.writeError
    BY <1>4, <1>7
  <2>4. x \in Msg /\ x.sealed = 0
    BY <1>5
  <2>. QED
    BY <2>1, <2>2, <2>3, <2>4 DEF Gets
<1>. QED
  BY <1>5, <1>6, <1>7, <1>9, <1>10

\* ProtocolGame::disconnectClient
LEMMA DisconnectClientInv ==
  ASSUME NEW w, NEW D, WorldInv(w, D), NEW m \in Msgs, w.msg[m].at = "free",
         w.proto.life = "attached", NEW v, v = DisconnectClient(w, m)
  PROVE  WorldInv(v, D) /\ Others(w, v, m) /\ v.msg[m].at # "single"
         /\ v.proto.life = "attached"
         /\ v.conn.reading = w.conn.reading
         /\ (w.conn.state # "CLOSING" => v.conn.state # "CLOSING")
<1>1. PICK u : u = GetMessage(w, m, "single")
  OBVIOUS
<1>2. PICK c \in Conn, r \in Proto, x \in Msg :
        /\ Gets(w, m, c, r, x) /\ x.at = "single" /\ r.buffer = w.proto.buffer
        /\ u = Moved(w, m, c, r, x, w.tasks)
  BY <1>1, GetMessageFields DEF WorldInv
<1>3. /\ WorldInv(u, D)
      /\ u.conn = c /\ u.proto = r /\ u.msg[m] = x
      /\ \A n \in Msgs \ {m} : u.msg[n] = w.msg[n]
  BY <1>2, GetInv
<1>4. c.state = w.conn.state /\ c.reading = w.conn.reading /\ r.life = "attached"
  BY <1>2 DEF Gets
<1>5. PICK s : s = Send(u, m)
  OBVIOUS
<1>6. WorldInv(s, D) /\ Others(u, s, m) /\ s.msg[m].at # "single"
      /\ s.proto.life = u.proto.life /\ s.conn.state = u.conn.state
      /\ s.conn.reading = u.conn.reading
  BY <1>2, <1>3, <1>5, SendInv DEF Sendable
<1>7. v = CloseConnection(s)
  BY <1>1, <1>5 DEF DisconnectClient
<1>8. s.proto.life = "attached"
  BY <1>3, <1>4, <1>6
<1>9. WorldInv(v, D) /\ v.msg = s.msg /\ v.proto = s.proto /\ v.conn.reading = s.conn.reading
      /\ (s.conn.state # "CLOSING" => v.conn.state # "CLOSING")
  BY <1>6, <1>7, <1>8, CloseConnectionInv
<1>. QED
  BY <1>3, <1>4, <1>6, <1>8, <1>9 DEF Others

Fill(w, m) == [GetMessage(w, m, "autosend") EXCEPT !.proto.buffer = m]

\* The protocol begins to write to a message of its own.
LEMMA FillInv ==
  ASSUME NEW w, NEW D, WorldInv(w, D), NEW m \in Msgs, w.msg[m].at = "free",
         w.proto.life = "attached", NEW v, v = Fill(w, m)
  PROVE  WorldInv(v, D) /\ Others(w, v, m) /\ v.msg[m].at = "autosend"
<1>1. PICK u : u = GetMessage(w, m, "autosend")
  OBVIOUS
<1>2. PICK c \in Conn, r \in Proto, x \in Msg :
        /\ Gets(w, m, c, r, x) /\ x.at = "autosend" /\ r.buffer = w.proto.buffer
        /\ u = Moved(w, m, c, r, x, w.tasks)
  BY <1>1, GetMessageFields DEF WorldInv
<1>. DEFINE q == [r EXCEPT !.buffer = m]
<1>3. q \in Proto /\ q.life = r.life /\ q.refs = r.refs /\ q.buffer = m
  BY DEF Proto
<1>4. Gets(w, m, c, q, x)
  BY <1>2, <1>3 DEF Gets
<1>5. v = [u EXCEPT !.proto = [u.proto EXCEPT !.buffer = m]]
  BY <1>1, Zenon DEF Fill
<1>6. u = [conn |-> c, proto |-> r, msg |-> [w.msg EXCEPT ![m] = x], tasks |-> w.tasks]
  BY <1>2 DEF Moved
<1>7. u.proto = r
  BY <1>6
<1>8. v = [u EXCEPT !.proto = q]
  BY <1>5, <1>7
<1>. HIDE DEF q
<1>9. v = Moved(w, m, c, q, x, w.tasks)
  BY <1>6, <1>8 DEF Moved
<1>10. WorldInv(v, D) /\ v.msg[m] = x /\ \A n \in Msgs \ {m} : v.msg[n] = w.msg[n]
  BY <1>4, <1>9, GetInv
<1>. QED
  BY <1>2, <1>10 DEF Others

\* What a task of the protocol may do.
LEMMA OutcomesInv ==
  ASSUME NEW w, NEW D, WorldInv(w, D), Settled(w), NEW v \in Outcomes(w)
  PROVE  WorldInv(v, D) /\ Settled(v)
<1>1. CASE v = w
  BY <1>1
<1>2. CASE w.proto.life = "attached" /\ v = CloseConnection(w)
  BY <1>2, CloseConnectionInv DEF Settled
<1>3. CASE w.proto.life = "attached" /\ \E m \in Msgs :
             w.msg[m].at = "free" /\ v = DisconnectClient(w, m)
  <2>1. PICK m \in Msgs : w.msg[m].at = "free" /\ v = DisconnectClient(w, m)
    BY <1>3
  <2>2. WorldInv(v, D) /\ Others(w, v, m) /\ v.msg[m].at # "single"
    BY <1>3, <2>1, DisconnectClientInv
  <2>. QED
    BY <2>2 DEF Others, Settled
<1>4. CASE w.proto.life = "attached" /\ \E m \in Msgs :
             w.msg[m].at = "free" /\ v = Fill(w, m)
  <2>1. PICK m \in Msgs : w.msg[m].at = "free" /\ v = Fill(w, m)
    BY <1>4
  <2>2. WorldInv(v, D) /\ Others(w, v, m) /\ v.msg[m].at = "autosend"
    BY <1>4, <2>1, FillInv
  <2>. QED
    BY <2>2 DEF Others, Settled
<1>5. \/ v = w
      \/ /\ w.proto.life = "attached"
         /\ \/ v = CloseConnection(w)
            \/ \E m \in Msgs : w.msg[m].at = "free" /\ v = DisconnectClient(w, m)
            \/ \E m \in Msgs : w.msg[m].at = "free" /\ v = Fill(w, m)
  BY Zenon DEF Outcomes, Fill
<1>. QED
  BY <1>1, <1>2, <1>3, <1>4, <1>5

-----------------------------------------------------------------------------
(* The network thread.                                                     *)

ReadEnds(w) == [w EXCEPT !.conn.pendingRead = @ - 1, !.conn.reading = "none"]

ReadAgain(w, x) == [w EXCEPT !.conn.pendingRead = @ + 1, !.conn.reading = x]

Reads(c, n, x) == [c EXCEPT !.pendingRead = n, !.reading = x]

LEMMA ConnReads ==
  ASSUME NEW c \in Conn, NEW n \in 0..1, NEW x \in {"none", "header", "body"}, NEW d,
         d = Reads(c, n, x)
  PROVE  /\ d \in Conn /\ d.state = c.state
         /\ d.refs = c.refs /\ d.alive = c.alive /\ d.writing = c.writing
         /\ d.reading = x /\ d.pendingRead = n
         /\ d.pendingWrite = c.pendingWrite /\ d.writeError = c.writeError
BY DEF Conn, Reads

LEMMA ReadEndsInv ==
  ASSUME NEW w, NEW D, WorldInv(w, D), w.conn.reading # "none", NEW v, v = ReadEnds(w)
  PROVE  /\ WorldInv(v, D) /\ ~Released(v, D)
         /\ v.conn.reading = "none" /\ v.conn.state = w.conn.state
         /\ v.proto = w.proto /\ v.msg = w.msg /\ v.tasks = w.tasks
<1>. DEFINE n == w.conn.pendingRead - 1
            x == "none"
            c == Reads(w.conn, n, x)
<1>1. v = [w EXCEPT !.conn = c]
  BY Zenon DEF ReadEnds, Reads
<1>2. /\ w = [conn |-> w.conn, proto |-> w.proto, msg |-> w.msg, tasks |-> w.tasks]
      /\ w.conn \in Conn /\ w.conn.pendingRead = 1 /\ ~Released(w, D)
      /\ ConnInv(w) /\ ReleaseInv(w, D)
  BY WorldFields DEF WorldInv, ConnInv, ReleaseInv
<1>3. n = 0 /\ n \in 0..1 /\ x = "none" /\ x \in {"none", "header", "body"}
  BY <1>2
<1>. HIDE DEF n, x
<1>4. /\ c \in Conn /\ c.state = w.conn.state
      /\ c.refs = w.conn.refs /\ c.alive = w.conn.alive /\ c.writing = w.conn.writing
      /\ c.reading = x /\ c.pendingRead = n
      /\ c.pendingWrite = w.conn.pendingWrite /\ c.writeError = w.conn.writeError
  BY <1>2, <1>3, ConnReads
<1>. HIDE DEF c
<1>5. v = [conn |-> c, proto |-> w.proto, msg |-> w.msg, tasks |-> w.tasks]
  BY <1>1, <1>2
<1>6. v.conn = c /\ v.proto = w.proto /\ v.msg = w.msg /\ v.tasks = w.tasks
  BY <1>5
<1>7. ConnInv(v)
  BY <1>2, <1>3, <1>4, <1>6 DEF ConnInv
<1>8. ReleaseInv(v, D) /\ ~Released(v, D)
  BY <1>2, <1>3, <1>4, <1>6 DEF ReleaseInv, Released
<1>9. WorldInv(v, D)
  BY <1>4, <1>5, <1>7, <1>8, ChangeConn
<1>. QED
  BY <1>3, <1>4, <1>6, <1>8, <1>9

LEMMA ReadAgainInv ==
  ASSUME NEW w, NEW D, WorldInv(w, D), w.conn.reading = "none", ~Released(w, D),
         w.proto.life = "none" => w.conn.state = "NONE",
         NEW x \in {"header", "body"}, NEW v, v = ReadAgain(w, x)
  PROVE  WorldInv(v, D) /\ v.msg = w.msg
<1>. DEFINE n == w.conn.pendingRead + 1
            c == Reads(w.conn, n, x)
<1>1. v = [w EXCEPT !.conn = c]
  BY Zenon DEF ReadAgain, Reads
<1>2. /\ w = [conn |-> w.conn, proto |-> w.proto, msg |-> w.msg, tasks |-> w.tasks]
      /\ w.conn \in Conn /\ w.conn.pendingRead = 0
      /\ ConnInv(w) /\ ReleaseInv(w, D)
  BY WorldFields DEF WorldInv, ConnInv
<1>3. n = 1 /\ n \in 0..1 /\ x # "none" /\ x \in {"none", "header", "body"}
  BY <1>2
<1>. HIDE DEF n
<1>4. /\ c \in Conn /\ c.state = w.conn.state
      /\ c.refs = w.conn.refs /\ c.alive = w.conn.alive /\ c.writing = w.conn.writing
      /\ c.reading = x /\ c.pendingRead = n
      /\ c.pendingWrite = w.conn.pendingWrite /\ c.writeError = w.conn.writeError
  BY <1>2, <1>3, ConnReads
<1>. HIDE DEF c
<1>5. v = [conn |-> c, proto |-> w.proto, msg |-> w.msg, tasks |-> w.tasks]
  BY <1>1, <1>2
<1>6. v.conn = c /\ v.proto = w.proto /\ v.msg = w.msg /\ v.tasks = w.tasks
  BY <1>5
<1>7. ConnInv(v)
  BY <1>2, <1>3, <1>4, <1>6 DEF ConnInv
<1>8. ReleaseInv(v, D)
  BY <1>2, <1>3, <1>4, <1>6 DEF ReleaseInv, Released
<1>9. WorldInv(v, D)
  BY <1>4, <1>5, <1>7, <1>8, ChangeConn
<1>. QED
  BY <1>6, <1>9

Attach(w) == [w EXCEPT !.proto.life = "attached"]

\* The first packet creates the protocol.
LEMMA AttachInv ==
  ASSUME NEW w, NEW D, WorldInv(w, D), w.proto.life = "none", w.conn.state = "NONE",
         NEW v, v = Attach(w)
  PROVE  WorldInv(v, D) /\ v.conn = w.conn /\ v.msg = w.msg /\ v.tasks = w.tasks
         /\ v.proto.life = "attached"
<1>. DEFINE p == [w.proto EXCEPT !.life = "attached"]
<1>1. v = [w EXCEPT !.proto = p]
  BY Zenon DEF Attach
<1>2. /\ w = [conn |-> w.conn, proto |-> w.proto, msg |-> w.msg, tasks |-> w.tasks]
      /\ w.conn \in Conn /\ w.proto \in Proto /\ w.msg \in [Msgs -> Msg] /\ w.tasks \in Seq(Tasks)
      /\ InOrder(w.tasks) /\ ConnInv(w) /\ ReleaseInv(w, D) /\ MsgInv(w) /\ CountInv(w)
  BY WorldFields DEF WorldInv
<1>3. /\ p \in Proto /\ p.life = "attached" /\ p.refs = w.proto.refs
      /\ p.buffer = w.proto.buffer
  BY <1>2 DEF Proto
<1>. HIDE DEF p
<1>4. v = [conn |-> w.conn, proto |-> p, msg |-> w.msg, tasks |-> w.tasks]
  BY <1>1, <1>2
<1>5. v.conn = w.conn /\ v.proto = p /\ v.msg = w.msg /\ v.tasks = w.tasks
  BY <1>4
<1>6. WorldType(v)
  BY <1>2, <1>3, <1>4 DEF WorldType
<1>7. ConnInv(v) /\ MsgInv(v)
  BY <1>2, <1>3, <1>5 DEF ConnInv, MsgInv
<1>8. ReleaseInv(v, D)
  BY <1>2, <1>3, <1>5 DEF ReleaseInv, Released
<1>9. CountInv(v)
  <2>1. Used(v) = Used(w)
    BY <1>5 DEF Used
  <2>. QED
    BY <1>2, <1>3, <1>5, <2>1 DEF CountInv
<1>. QED
  BY <1>2, <1>3, <1>5, <1>6, <1>7, <1>8, <1>9 DEF WorldInv

\* What a network step leaves to sendAll.
Keeps(w, v) ==
  \A n \in Msgs : w.msg[n].at \in {"autosend", "toadd"} => v.msg[n].at = w.msg[n].at

\* Connection::parsePacket of the first packet.
LEMMA FirstPacketInv ==
  ASSUME NEW w, NEW D, WorldInv(w, D), Settled(w), w.proto.life = "none",
         w.conn.state = "NONE", w.conn.reading = "none", ~Released(w, D),
         NEW v \in FirstPacket(w)
  PROVE  WorldInv(v, D) /\ Settled(v) /\ Keeps(w, v)
<1>1. CASE v = CloseConnection(w)
  BY <1>1, CloseConnectionInv DEF Settled, Keeps
<1>2. CASE \E u : /\ v = ReadAgain(u, "header")
                  /\ \/ u = CloseConnection(Attach(w))
                     \/ u = Post(Attach(w), "login")
                     \/ \E m \in Msgs : w.msg[m].at = "free" /\ u = DisconnectClient(Attach(w), m)
  <2>1. PICK u : /\ v = ReadAgain(u, "header")
                 /\ \/ u = CloseConnection(Attach(w))
                    \/ u = Post(Attach(w), "login")
                    \/ \E m \in Msgs : w.msg[m].at = "free" /\ u = DisconnectClient(Attach(w), m)
    BY <1>2
  <2>2. PICK a : a = Attach(w)
    OBVIOUS
  <2>3. /\ WorldInv(a, D) /\ a.conn = w.conn /\ a.msg = w.msg /\ a.tasks = w.tasks
        /\ a.proto.life = "attached"
    BY <2>2, AttachInv
  <2>4. WorldInv(u, D) /\ Settled(u) /\ Keeps(w, u) /\ u.proto.life = "attached"
        /\ u.conn.state # "CLOSING" /\ u.conn.reading = "none"
    <3>1. CASE u = CloseConnection(a)
      BY <2>3, <3>1, CloseConnectionInv DEF Settled, Keeps
    <3>2. CASE u = Post(a, "login")
      <4>1. "login" \in Names /\ "close" \notin Queued(a.tasks)
        BY <2>3 DEF Names, WorldInv, ConnInv
      <4>2. WorldInv(u, D) /\ u.msg = a.msg /\ u.conn = a.conn /\ u.proto = a.proto
        BY <2>3, <3>2, <4>1, PostInv
      <4>. QED
        BY <2>3, <4>2 DEF Settled, Keeps
    <3>3. CASE \E m \in Msgs : w.msg[m].at = "free" /\ u = DisconnectClient(a, m)
      <4>1. PICK m \in Msgs : w.msg[m].at = "free" /\ u = DisconnectClient(a, m)
        BY <3>3
      <4>2. /\ WorldInv(u, D) /\ Others(a, u, m) /\ u.msg[m].at # "single"
            /\ u.proto.life = "attached" /\ u.conn.reading = a.conn.reading
            /\ u.conn.state # "CLOSING"
        BY <2>3, <4>1, DisconnectClientInv
      <4>. QED
        BY <2>3, <4>1, <4>2 DEF Settled, Keeps, Others
    <3>. QED
      BY <2>1, <2>2, <3>1, <3>2, <3>3
  <2>5. ~Released(u, D)
    BY <2>4 DEF WorldInv, ReleaseInv
  <2>6. WorldInv(v, D) /\ v.msg = u.msg
    BY <2>1, <2>4, <2>5, ReadAgainInv
  <2>. QED
    BY <2>4, <2>6 DEF Settled, Keeps
<1>. DEFINE Us == {CloseConnection(Attach(w)), Post(Attach(w), "login")} \cup
                  {DisconnectClient(Attach(w), m) : m \in {n \in Msgs : w.msg[n].at = "free"}}
<1>3. v \in {CloseConnection(w)} \cup {ReadAgain(u, "header") : u \in Us}
  BY Zenon DEF FirstPacket, ReadAgain, Attach
<1>4. v = CloseConnection(w) \/ \E u \in Us : v = ReadAgain(u, "header")
  BY <1>3, Zenon
<1>5. \A u \in Us : \/ u = CloseConnection(Attach(w))
                    \/ u = Post(Attach(w), "login")
                    \/ \E m \in Msgs : w.msg[m].at = "free" /\ u = DisconnectClient(Attach(w), m)
  BY Zenon
<1>. HIDE DEF Us
<1>. QED
  BY <1>1, <1>2, <1>4, <1>5

-----------------------------------------------------------------------------
(* Steps.                                                                  *)

LEMMA BecomesWorld ==
  ASSUME NEW v, WorldType(v), Becomes(v)
  PROVE  World' = v
BY WorldFields DEF Becomes, World

\* A step that is not sendAll's and leaves the timers alone.
LEMMA StepInv ==
  ASSUME IInv, NEW v, WorldInv(v, timers), Settled(v), Keeps(World, v), Becomes(v),
         UNCHANGED <<timers, accepting, pending>>, packets' \in 0..MaxPackets
  PROVE  IInv'
<1>1. World' = v
  BY BecomesWorld DEF WorldInv
<1>2. WorldInv(World, timers)' /\ Settled(World)'
  BY <1>1
<1>3. (pending \subseteq Unsent)'
  <2>1. msg' = v.msg /\ World.msg = msg
    BY DEF Becomes, World
  <2>. QED
    BY <2>1 DEF Keeps, IInv, Unsent
<1>. QED
  BY <1>2, <1>3 DEF IInv

LEMMA ReadFailsInv ==
  ASSUME IInv, ReadFails
  PROVE  IInv'
<1>1. PICK w : w = World
  OBVIOUS
<1>2. WorldInv(w, timers) /\ Settled(w) /\ w.conn = conn /\ w.conn.reading # "none"
  BY <1>1 DEF IInv, World, ReadFails
<1>3. PICK u : u = ReadEnds(w)
  OBVIOUS
<1>4. /\ WorldInv(u, timers) /\ ~Released(u, timers)
      /\ u.conn.reading = "none" /\ u.conn.state = w.conn.state
      /\ u.proto = w.proto /\ u.msg = w.msg /\ u.tasks = w.tasks
  BY <1>2, <1>3, ReadEndsInv
<1>5. PICK v : v = IF conn.state = "CLOSING" THEN ClosingConnection(u) ELSE CloseConnection(u)
  OBVIOUS
<1>6. WorldInv(v, timers) /\ v.msg = w.msg
  <2>1. CASE conn.state = "CLOSING"
    BY <1>2, <1>4, <1>5, <2>1, ClosingConnectionInv
  <2>2. CASE conn.state # "CLOSING"
    BY <1>4, <1>5, <2>2, CloseConnectionInv
  <2>. QED
    BY <2>1, <2>2
<1>7. Becomes(v) /\ UNCHANGED <<timers, accepting, pending>> /\ packets' \in 0..MaxPackets
  BY <1>1, <1>3, <1>5, Zenon DEF ReadFails, ReadEnds, IInv
<1>8. Settled(v) /\ Keeps(World, v)
  BY <1>1, <1>2, <1>6 DEF Settled, Keeps
<1>. QED
  BY <1>6, <1>7, <1>8, StepInv

LEMMA ParseHeaderInv ==
  ASSUME IInv, ParseHeader
  PROVE  IInv'
<1>1. PICK w : w = World
  OBVIOUS
<1>2. WorldInv(w, timers) /\ Settled(w) /\ w.conn = conn /\ w.conn.reading # "none"
  BY <1>1 DEF IInv, World, ParseHeader
<1>3. PICK u : u = ReadEnds(w)
  OBVIOUS
<1>4. /\ WorldInv(u, timers) /\ ~Released(u, timers)
      /\ u.conn.reading = "none" /\ u.conn.state = w.conn.state
      /\ u.proto = w.proto /\ u.msg = w.msg /\ u.tasks = w.tasks
  BY <1>2, <1>3, ReadEndsInv
<1>5. PICK v : v = IF conn.state = "CLOSING" THEN ClosingConnection(u) ELSE ReadAgain(u, "body")
  OBVIOUS
<1>6. WorldInv(v, timers) /\ v.msg = w.msg
  <2>1. CASE conn.state = "CLOSING"
    BY <1>2, <1>4, <1>5, <2>1, ClosingConnectionInv
  <2>2. CASE conn.state # "CLOSING"
    <3>1. u.proto.life = "none" => u.conn.state = "NONE"
      BY <1>2, <1>4 DEF WorldInv, ConnInv
    <3>. QED
      BY <1>4, <1>5, <2>2, <3>1, ReadAgainInv
  <2>. QED
    BY <2>1, <2>2
<1>7. Becomes(v) /\ UNCHANGED <<timers, accepting, pending>> /\ packets' \in 0..MaxPackets
  BY <1>1, <1>3, <1>5, Zenon DEF ParseHeader, ReadEnds, ReadAgain, IInv
<1>8. Settled(v) /\ Keeps(World, v)
  BY <1>1, <1>2, <1>6 DEF Settled, Keeps
<1>. QED
  BY <1>6, <1>7, <1>8, StepInv

LEMMA ParsePacketInv ==
  ASSUME IInv, ParsePacket
  PROVE  IInv'
<1>1. PICK w : w = World
  OBVIOUS
<1>2. /\ WorldInv(w, timers) /\ Settled(w) /\ w.conn = conn /\ w.conn.reading # "none"
      /\ w.proto = proto
  BY <1>1 DEF IInv, World, ParsePacket
<1>3. PICK u : u = ReadEnds(w)
  OBVIOUS
<1>4. /\ WorldInv(u, timers) /\ ~Released(u, timers)
      /\ u.conn.reading = "none" /\ u.conn.state = w.conn.state
      /\ u.proto = w.proto /\ u.msg = w.msg /\ u.tasks = w.tasks
  BY <1>2, <1>3, ReadEndsInv
<1>5. PICK v : /\ Becomes(v)
               /\ v \in IF conn.state = "CLOSING" THEN {ClosingConnection(u)}
                        ELSE IF proto.life = "none" THEN FirstPacket(u)
                        ELSE {ReadAgain(x, "header") : x \in {u, Post(u, "game")}}
  BY <1>1, <1>3, Zenon DEF ParsePacket, ReadEnds, ReadAgain
<1>6. WorldInv(v, timers) /\ Settled(v) /\ Keeps(w, v)
  <2>0. Settled(u)
    BY <1>2, <1>4 DEF Settled
  <2>1. CASE conn.state = "CLOSING"
    <3>1. v = ClosingConnection(u)
      BY <1>5, <2>1
    <3>2. WorldInv(v, timers) /\ v.msg = u.msg
      BY <1>2, <1>4, <2>1, <3>1, ClosingConnectionInv
    <3>. QED
      BY <1>2, <1>4, <3>2 DEF Settled, Keeps
  <2>2. CASE conn.state # "CLOSING" /\ proto.life = "none"
    <3>1. v \in FirstPacket(u)
      BY <1>5, <2>2
    <3>2. u.proto.life = "none" /\ u.conn.state = "NONE"
      BY <1>2, <1>4, <2>2 DEF WorldInv, ConnInv
    <3>3. WorldInv(v, timers) /\ Settled(v) /\ Keeps(u, v)
      BY <1>4, <2>0, <3>1, <3>2, FirstPacketInv
    <3>. QED
      BY <1>4, <3>3 DEF Keeps
  <2>3. CASE conn.state # "CLOSING" /\ proto.life # "none"
    <3>1. PICK x : v = ReadAgain(x, "header") /\ (x = u \/ x = Post(u, "game"))
      BY <1>5, <2>3
    <3>2. "game" \in Names
      BY DEF Names
    <3>3. WorldInv(x, timers) /\ x.msg = u.msg /\ x.conn = u.conn /\ x.proto = u.proto
      BY <1>4, <3>1, <3>2, PostInv
    <3>4. ~Released(x, timers) /\ x.conn.reading = "none" /\ x.proto.life # "none"
      BY <1>2, <1>4, <2>3, <3>3 DEF WorldInv, ReleaseInv
    <3>5. WorldInv(v, timers) /\ v.msg = x.msg
      BY <3>1, <3>3, <3>4, ReadAgainInv
    <3>. QED
      BY <1>2, <1>4, <3>3, <3>5 DEF Settled, Keeps
  <2>. QED
    BY <2>1, <2>2, <2>3
<1>7. UNCHANGED <<timers, accepting, pending>> /\ packets' \in 0..MaxPackets
  BY ConnectionAssumption DEF ParsePacket, IInv
<1>. QED
  BY <1>1, <1>5, <1>6, <1>7, StepInv

Rests(c) == [c EXCEPT !.pendingWrite = c.pendingWrite - 1, !.writing = NoMsg]

EndWrite(w) == [w EXCEPT !.conn.pendingWrite = @ - 1, !.conn.writing = NoMsg]

LEMMA ConnRests ==
  ASSUME NEW c \in Conn, c.pendingWrite = 1, NEW d, d = Rests(c)
  PROVE  /\ d \in Conn /\ d.state = c.state
         /\ d.refs = c.refs /\ d.alive = c.alive /\ d.writing = NoMsg
         /\ d.reading = c.reading /\ d.pendingRead = c.pendingRead
         /\ d.pendingWrite = 0 /\ d.writeError = c.writeError
<1>. DEFINE zero == 0
            n    == NoMsg
<1>1. d = [c EXCEPT !.pendingWrite = zero, !.writing = n]
  BY DEF Rests
<1>2. zero = 0 /\ zero \in 0..1 /\ n = NoMsg /\ n \in Msgs \cup {NoMsg}
  OBVIOUS
<1>. HIDE DEF zero, n
<1>3. d \in Conn
  BY <1>1, <1>2 DEF Conn
<1>. QED
  BY <1>1, <1>2 DEF Conn

\* A write ends, and with it the last pointer to the message.
LEMMA EndWriteInv ==
  ASSUME NEW w, NEW D, WorldInv(w, D), NEW m \in Msgs, w.msg[m].at = "inflight",
         NEW v, v = ReleaseMessage(EndWrite(w), m)
  PROVE  /\ WorldInv(v, D) /\ ~Released(v, D)
         /\ Others(w, v, m) /\ v.msg[m].at \in {"releasing", "lost"}
         /\ v.proto = w.proto /\ v.proto.life \notin {"none", "deleted"}
         /\ v.conn.state = w.conn.state /\ v.conn.writing = NoMsg
<1>0. m # NoMsg
  BY ConnectionAssumption
<1>1. /\ WorldType(w) /\ ConnInv(w) /\ ReleaseInv(w, D) /\ MsgInv(w) /\ CountInv(w)
      /\ w.conn.writing = m /\ w.msg[m].sealed = 1
      /\ InOrder(w.tasks) /\ w.tasks \in Seq(Tasks)
      /\ m \notin Queued(w.tasks) /\ w.conn \in Conn /\ w.proto \in Proto
      /\ w.conn.pendingWrite = 1
      /\ w = [conn |-> w.conn, proto |-> w.proto, msg |-> w.msg, tasks |-> w.tasks]
  BY <1>0, WorldFields DEF WorldInv, MsgInv, ConnInv
<1>2. PICK u : u = EndWrite(w)
  OBVIOUS
<1>. DEFINE c == Rests(w.conn)
<1>3. u = [w EXCEPT !.conn = c]
  BY <1>2, Zenon DEF EndWrite, Rests
<1>4. /\ c \in Conn /\ c.state = w.conn.state
      /\ c.refs = w.conn.refs /\ c.alive = w.conn.alive /\ c.writing = NoMsg
      /\ c.reading = w.conn.reading /\ c.pendingRead = w.conn.pendingRead
      /\ c.pendingWrite = 0 /\ c.writeError = w.conn.writeError
  BY <1>1, ConnRests
<1>. HIDE DEF c
<1>5. u = [conn |-> c, proto |-> w.proto, msg |-> w.msg, tasks |-> w.tasks]
  BY <1>1, <1>3
<1>6. /\ u.conn = c /\ u.proto = w.proto /\ u.msg = w.msg /\ u.tasks = w.tasks
      /\ u = [conn |-> u.conn, proto |-> u.proto, msg |-> u.msg, tasks |-> u.tasks]
  BY <1>5
<1>7. WorldType(u)
  <2>1. w.msg \in [Msgs -> Msg]
    BY <1>1, WorldFields
  <2>. QED
    BY <1>1, <1>4, <1>6, <2>1 DEF WorldType
<1>r. ReleasedAs(u, m, v)
  BY <1>2, <1>7, ReleaseFields, Zenon
<1>8. PICK z \in Msg, s \in {u.tasks, <<m>> \o u.tasks} :
        /\ v = Moved(u, m, u.conn, u.proto, z, s)
        /\ z.sealed = u.msg[m].sealed
        /\ \/ z.at = "releasing" /\ s = <<m>> \o u.tasks
           \/ z.at = "lost" /\ s = u.tasks
  BY <1>r, Zenon DEF ReleasedAs
<1>9. v = Moved(w, m, c, w.proto, z, s)
  BY <1>6, <1>8 DEF Moved
<1>10. /\ s \in Seq(Tasks) /\ InOrder(s)
       /\ \A t \in Tasks \ {m} : t \in Queued(s) <=> t \in Queued(w.tasks)
       /\ m \in Queued(s) <=> z.at = "releasing"
  <2>1. CASE s = w.tasks /\ z.at = "lost"
    BY <1>1, <2>1
  <2>2. CASE s = <<m>> \o w.tasks /\ z.at = "releasing"
    BY <1>1, <2>2, QueueMessage
  <2>. QED
    BY <1>6, <1>8, <2>1, <2>2
<1>11. z.sealed = 1 /\ z.at \in {"releasing", "lost"}
  BY <1>1, <1>6, <1>8
<1>12. ~Released(w, D) /\ w.proto.life \notin {"none", "deleted"}
  BY <1>0, <1>1 DEF ReleaseInv, CountInv, Used
<1>13. Moves(w, D, m, c, w.proto, z, s)
  <2>1. z.at # "free" /\ z.at # "inflight" /\ z.at \in {"inflight", "releasing", "lost"}
    BY <1>11
  <2>2. /\ \A n \in Msgs \ {m} : c.writing = n <=> w.conn.writing = n
        /\ c.writing = m <=> z.at = "inflight"
    <3>1. c.writing = NoMsg /\ w.conn.writing = m /\ \A n \in Msgs : n # NoMsg
      BY <1>1, <1>4, ConnectionAssumption
    <3>. QED
      BY <2>1, <3>1
  <2>3. /\ w.proto.buffer # NoMsg =>
             w.proto.buffer = w.proto.buffer /\ (w.proto.buffer = m => z.at \in {"autosend", "toadd"})
        /\ w.msg[m].at # "free"
    BY <1>1 DEF MsgInv
  <2>4. /\ c.pendingWrite = IF c.writing = NoMsg THEN 0 ELSE 1
        /\ c.writeError => c.writing = NoMsg
        /\ Released(w, D) => c.writing = NoMsg
    BY <1>4
  <2>5. z.sealed = IF z.at \in {"inflight", "releasing", "lost"} THEN 1 ELSE 0
    BY <1>11
  <2>. QED
    BY <1>1, <1>4, <1>10, <2>1, <2>2, <2>3, <2>4, <2>5 DEF Moves
<1>14. /\ WorldInv(v, D) /\ v.conn = c /\ v.proto = w.proto /\ v.tasks = s /\ v.msg[m] = z
       /\ \A n \in Msgs \ {m} : v.msg[n] = w.msg[n]
  BY <1>9, <1>13, MoveMessage
<1>15. ~Released(v, D)
  <2>1. "relConn" \in Tasks \ {m}
    BY TasksOf DEF Names
  <2>. QED
    BY <1>4, <1>10, <1>12, <1>14, <2>1 DEF Released
<1>. QED
  BY <1>4, <1>11, <1>12, <1>14, <1>15 DEF Others

Fails(c) == [c EXCEPT !.writeError = TRUE]

Failed(w) == [w EXCEPT !.conn.writeError = TRUE]

LEMMA FailedInv ==
  ASSUME NEW w, NEW D, WorldInv(w, D), w.conn.writing = NoMsg, ~Released(w, D),
         NEW v, v = Failed(w)
  PROVE  /\ WorldInv(v, D) /\ ~Released(v, D) /\ v.msg = w.msg
         /\ v.conn.state = w.conn.state
<1>. DEFINE x == TRUE
            c == [w.conn EXCEPT !.writeError = x]
<1>1. v = [w EXCEPT !.conn = c]
  BY Zenon DEF Failed
<1>2. /\ w = [conn |-> w.conn, proto |-> w.proto, msg |-> w.msg, tasks |-> w.tasks]
      /\ w.conn \in Conn /\ ConnInv(w) /\ ReleaseInv(w, D)
  BY WorldFields DEF WorldInv
<1>3. x \in BOOLEAN
  OBVIOUS
<1>. HIDE DEF x
<1>4. /\ c \in Conn /\ c.state = w.conn.state
      /\ c.refs = w.conn.refs /\ c.alive = w.conn.alive /\ c.writing = w.conn.writing
      /\ c.reading = w.conn.reading /\ c.pendingRead = w.conn.pendingRead
      /\ c.pendingWrite = w.conn.pendingWrite
  BY <1>2, <1>3 DEF Conn
<1>. HIDE DEF c
<1>5. v = [conn |-> c, proto |-> w.proto, msg |-> w.msg, tasks |-> w.tasks]
  BY <1>1, <1>2
<1>6. v.conn = c /\ v.proto = w.proto /\ v.msg = w.msg /\ v.tasks = w.tasks
  BY <1>5
<1>7. ConnInv(v)
  BY <1>2, <1>4, <1>6 DEF ConnInv
<1>8. ReleaseInv(v, D) /\ ~Released(v, D)
  BY <1>2, <1>4, <1>6 DEF ReleaseInv, Released
<1>9. WorldInv(v, D)
  BY <1>4, <1>5, <1>7, <1>8, ChangeConn
<1>. QED
  BY <1>4, <1>6, <1>8, <1>9

LEMMA OnWriteOperationInv ==
  ASSUME IInv, NEW error \in BOOLEAN, OnWriteOperation(error)
  PROVE  IInv'
<1>1. PICK w : w = World
  OBVIOUS
<1>2. PICK m : m = w.conn.writing
  OBVIOUS
<1>3. WorldInv(w, timers) /\ Settled(w) /\ w.conn = conn /\ m \in Msgs
  <2>1. WorldInv(w, timers) /\ Settled(w) /\ w.conn = conn /\ m # NoMsg
    BY <1>1, <1>2 DEF IInv, World, OnWriteOperation
  <2>2. w.conn \in Conn
    BY <2>1, WorldFields DEF WorldInv
  <2>. QED
    BY <1>2, <2>1, <2>2 DEF Conn
<1>4. PICK u : u = ReleaseMessage(EndWrite(w), m)
  OBVIOUS
<1>5. /\ WorldInv(u, timers) /\ ~Released(u, timers)
      /\ Others(w, u, m) /\ u.msg[m].at \in {"releasing", "lost"}
      /\ u.proto = w.proto /\ u.proto.life \notin {"none", "deleted"}
      /\ u.conn.state = w.conn.state /\ u.conn.writing = NoMsg
  <2>1. w.msg[m].at = "inflight"
    BY <1>2, <1>3 DEF WorldInv, MsgInv
  <2>. QED
    BY <1>3, <1>4, <2>1, EndWriteInv
<1>6. PICK x : x = IF error THEN Failed(CloseConnection(u)) ELSE u
  OBVIOUS
<1>7. /\ WorldInv(x, timers) /\ x.msg = u.msg
      /\ w.conn.state = "CLOSING" => x.conn.state = "CLOSING" /\ ~Released(x, timers)
  <2>1. CASE ~error
    BY <1>5, <1>6, <2>1
  <2>2. CASE error
    <3>1. PICK y : y = CloseConnection(u)
      OBVIOUS
    <3>2. /\ WorldInv(y, timers) /\ y.msg = u.msg /\ y.conn.writing = NoMsg
          /\ u.conn.state # "CLOSING" => y.conn.state # "CLOSING"
      BY <1>5, <3>1, CloseConnectionInv
    <3>3. ~Released(y, timers) /\ (w.conn.state = "CLOSING" => y.conn.state = "CLOSING")
      <4>1. CASE u.conn.state = "CLOSING"
        BY <1>5, <3>1, <4>1 DEF CloseConnection
      <4>2. CASE u.conn.state # "CLOSING"
        BY <1>5, <3>2, <4>2 DEF WorldInv, ReleaseInv
      <4>. QED
        BY <4>1, <4>2
    <3>4. x = Failed(y)
      BY <1>6, <2>2, <3>1
    <3>5. /\ WorldInv(x, timers) /\ ~Released(x, timers) /\ x.msg = y.msg
          /\ x.conn.state = y.conn.state
      BY <3>2, <3>3, <3>4, FailedInv
    <3>. QED
      BY <3>2, <3>3, <3>5
  <2>. QED
    BY <2>1, <2>2
<1>8. PICK v : v = IF conn.state = "CLOSING" THEN ClosingConnection(x) ELSE x
  OBVIOUS
<1>9. WorldInv(v, timers) /\ v.msg = u.msg
  <2>1. CASE conn.state = "CLOSING"
    BY <1>3, <1>7, <1>8, <2>1, ClosingConnectionInv
  <2>2. CASE conn.state # "CLOSING"
    BY <1>7, <1>8, <2>2
  <2>. QED
    BY <2>1, <2>2
<1>10. Becomes(v)
  <2>1. m = conn.writing
    BY <1>2, <1>3
  <2>. QED
    BY <1>1, <1>4, <1>6, <1>8, <2>1, Zenon DEF OnWriteOperation, EndWrite, Failed
<1>11. UNCHANGED <<timers, accepting, pending>> /\ packets' \in 0..MaxPackets
  BY DEF OnWriteOperation, IInv
<1>12. Settled(v) /\ Keeps(World, v)
  <2>1. w.msg[m].at = "inflight"
    BY <1>2, <1>3 DEF WorldInv, MsgInv
  <2>. QED
    BY <1>1, <1>3, <1>5, <1>9, <2>1 DEF Settled, Keeps, Others
<1>. QED
  BY <1>9, <1>10, <1>11, <1>12, StepInv

-----------------------------------------------------------------------------
(* The dispatcher thread.                                                  *)

Pop(w) == [w EXCEPT !.tasks = Tail(@)]

LEMMA PopFields ==
  ASSUME NEW w, WorldType(w), NEW v, v = Pop(w)
  PROVE  /\ v = [conn |-> w.conn, proto |-> w.proto, msg |-> w.msg, tasks |-> Tail(w.tasks)]
         /\ v.conn = w.conn /\ v.proto = w.proto /\ v.msg = w.msg /\ v.tasks = Tail(w.tasks)
<1>. DEFINE s == Tail(w.tasks)
<1>1. v = [w EXCEPT !.tasks = s]
  BY Zenon DEF Pop
<1>. HIDE DEF s
<1>2. v = [conn |-> w.conn, proto |-> w.proto, msg |-> w.msg, tasks |-> s]
  BY <1>1, WorldFields
<1>. QED
  BY <1>2 DEF s

\* A task with a name is taken; a release that is being tried counts as one
\* that is to be tried.
LEMMA PopInv ==
  ASSUME NEW w, NEW D, WorldInv(w, D), w.tasks # <<>>, NEW t \in Names, t = Head(w.tasks),
         NEW E, E = IF t \in Releases THEN D \cup {t} ELSE D, NEW v, v = Pop(w)
  PROVE  /\ WorldInv(v, E)
         /\ v.conn = w.conn /\ v.proto = w.proto /\ v.msg = w.msg
         /\ t = "close" => "close" \notin Queued(v.tasks) /\ "login" \notin Queued(v.tasks)
         /\ t \in Releases => t \notin Queued(v.tasks) \cup D
<1>1. /\ WorldType(w) /\ InOrder(w.tasks) /\ ConnInv(w) /\ ReleaseInv(w, D) /\ MsgInv(w)
      /\ CountInv(w) /\ w.tasks \in Seq(Tasks) /\ w.conn \in Conn /\ w.proto \in Proto
      /\ w.msg \in [Msgs -> Msg]
  BY WorldFields DEF WorldInv
<1>2. /\ v = [conn |-> w.conn, proto |-> w.proto, msg |-> w.msg, tasks |-> Tail(w.tasks)]
      /\ v.conn = w.conn /\ v.proto = w.proto /\ v.msg = w.msg /\ v.tasks = Tail(w.tasks)
  BY <1>1, PopFields
<1>3. /\ v.tasks \in Seq(Tasks) /\ InOrder(v.tasks)
      /\ Queued(w.tasks) = Queued(v.tasks) \cup {t}
      /\ t \notin {"login", "game"} => t \notin Queued(v.tasks)
      /\ t = "close" => "login" \notin Queued(v.tasks)
  BY <1>1, <1>2, TakeTask
<1>4. t \in Releases => t \notin Queued(v.tasks) \cup D
  BY <1>1, <1>3 DEF Releases, ReleaseInv
<1>5. WorldType(v)
  BY <1>1, <1>2, <1>3 DEF WorldType
<1>6. ConnInv(v)
  BY <1>1, <1>2, <1>3 DEF ConnInv
<1>7. ReleaseInv(v, E)
  <2>1. CASE t \in Releases
    <3>1. E = D \cup {t} /\ Queued(v.tasks) \cup E = Queued(w.tasks) \cup D
      BY <1>3, <2>1
    <3>2. Released(v, E) <=> Released(w, D)
      BY <1>2, <3>1 DEF Released
    <3>3. t \in Queued(w.tasks) /\ t \notin Queued(v.tasks)
      BY <1>3, <1>4, <2>1
    <3>. QED
      BY <1>1, <1>2, <1>3, <3>1, <3>2, <3>3 DEF ReleaseInv
  <2>2. CASE t \notin Releases
    BY <1>1, <1>2, <1>3, <2>2 DEF ReleaseInv, Released, Releases
  <2>. QED
    BY <2>1, <2>2
<1>8. MsgInv(v)
  <2>1. t \notin Msgs
    BY TasksOf
  <2>. QED
    BY <1>1, <1>2, <1>3, <2>1 DEF MsgInv
<1>9. CountInv(v)
  BY <1>1, <1>2 DEF CountInv, Used
<1>. QED
  BY <1>2, <1>3, <1>4, <1>5, <1>6, <1>7, <1>8, <1>9 DEF WorldInv

\* Connection::closeConnectionTask: what the connection and its protocol become.
Closed(w) ==
  [w EXCEPT !.conn = [w.conn EXCEPT !.state = "CLOSING"],
            !.proto = [w.proto EXCEPT !.life = IF @ = "attached" THEN "detached" ELSE @]]

LEMMA ClosedInv ==
  ASSUME NEW w, NEW D, WorldInv(w, D), w.conn.state = "REQUESTED",
         "close" \notin Queued(w.tasks), "login" \notin Queued(w.tasks),
         NEW v, v = Closed(w)
  PROVE  /\ WorldInv(v, D) /\ ~Released(v, D) /\ v.msg = w.msg /\ v.tasks = w.tasks
         /\ v.conn.state = "CLOSING"
         /\ w.proto.life = "attached" => /\ v.proto.life = "detached"
                                         /\ "relProto" \notin Queued(v.tasks) \cup D
<1>. DEFINE c == [w.conn EXCEPT !.state = "CLOSING"]
            l == IF w.proto.life = "attached" THEN "detached" ELSE w.proto.life
            p == [w.proto EXCEPT !.life = l]
<1>1. v = [w EXCEPT !.conn = c, !.proto = p]
  BY Zenon DEF Closed
<1>2. /\ w = [conn |-> w.conn, proto |-> w.proto, msg |-> w.msg, tasks |-> w.tasks]
      /\ w.conn \in Conn /\ w.proto \in Proto /\ w.msg \in [Msgs -> Msg] /\ w.tasks \in Seq(Tasks)
      /\ InOrder(w.tasks) /\ ConnInv(w) /\ ReleaseInv(w, D) /\ MsgInv(w) /\ CountInv(w)
  BY WorldFields DEF WorldInv
<1>3. l \in {"none", "detached", "deleted"} /\ (l = "none" <=> w.proto.life = "none")
      /\ (l = "deleted" <=> w.proto.life = "deleted")
      /\ (w.proto.life = "detached" => l = "detached")
      /\ (w.proto.life = "attached" => l = "detached")
  BY <1>2 DEF Proto
<1>. HIDE DEF l
<1>4. /\ p \in Proto /\ p.life = l /\ p.refs = w.proto.refs /\ p.buffer = w.proto.buffer
  BY <1>2, <1>3 DEF Proto
<1>5. /\ c \in Conn /\ c.state = "CLOSING"
      /\ c.refs = w.conn.refs /\ c.alive = w.conn.alive /\ c.writing = w.conn.writing
      /\ c.reading = w.conn.reading /\ c.pendingRead = w.conn.pendingRead
      /\ c.pendingWrite = w.conn.pendingWrite /\ c.writeError = w.conn.writeError
  BY <1>2, ConnState
<1>. HIDE DEF p, c
<1>6. v = [conn |-> c, proto |-> p, msg |-> w.msg, tasks |-> w.tasks]
  BY <1>1, <1>2
<1>7. v.conn = c /\ v.proto = p /\ v.msg = w.msg /\ v.tasks = w.tasks
  BY <1>6
<1>8. WorldType(v)
  BY <1>2, <1>4, <1>5, <1>6 DEF WorldType
<1>9. ConnInv(v)
  BY <1>2, <1>3, <1>4, <1>5, <1>7 DEF ConnInv
<1>10. MsgInv(v)
  BY <1>2, <1>4, <1>5, <1>7 DEF MsgInv
<1>11. ReleaseInv(v, D) /\ ~Released(v, D)
  BY <1>2, <1>3, <1>4, <1>5, <1>7 DEF ReleaseInv, Released
<1>12. CountInv(v)
  <2>1. Used(v) = Used(w)
    BY <1>7 DEF Used
  <2>. QED
    BY <1>2, <1>3, <1>4, <1>5, <1>7, <2>1 DEF CountInv
<1>13. w.proto.life = "attached" => /\ v.proto.life = "detached"
                                    /\ "relProto" \notin Queued(v.tasks) \cup D
  BY <1>2, <1>3, <1>4, <1>7 DEF ReleaseInv
<1>. QED
  BY <1>2, <1>5, <1>7, <1>8, <1>9, <1>10, <1>11, <1>12, <1>13 DEF WorldInv

LEMMA ClosedDetaches ==
  ASSUME NEW w, WorldType(w), w.proto.life = "attached"
  PROVE  [Post([w EXCEPT !.conn.state = "CLOSING"], "relProto") EXCEPT !.proto.life = "detached"]
           = Post(Closed(w), "relProto")
<1>. DEFINE c == [w.conn EXCEPT !.state = "CLOSING"]
            p == [w.proto EXCEPT !.life = "detached"]
            s == Append(w.tasks, "relProto")
            a == [w EXCEPT !.conn.state = "CLOSING"]
            b == Closed(w)
<1>1. w = [conn |-> w.conn, proto |-> w.proto, msg |-> w.msg, tasks |-> w.tasks]
  BY WorldFields
<1>2. a = [w EXCEPT !.conn = c]
  BY Zenon
<1>3. b = [w EXCEPT !.conn = c, !.proto = p]
  <2>1. (IF w.proto.life = "attached" THEN "detached" ELSE w.proto.life) = "detached"
    OBVIOUS
  <2>. QED
    BY <2>1, Zenon DEF Closed
<1>. HIDE DEF a, b, c
<1>4. a = [conn |-> c, proto |-> w.proto, msg |-> w.msg, tasks |-> w.tasks]
  BY <1>1, <1>2
<1>5. a.proto = w.proto /\ a.tasks = w.tasks
  BY <1>4
<1>. HIDE DEF p
<1>6. b = [conn |-> c, proto |-> p, msg |-> w.msg, tasks |-> w.tasks]
  BY <1>1, <1>3
<1>7. b.tasks = w.tasks
  BY <1>6
<1>. HIDE DEF s
<1>8. CASE accepting
  <2>1. Post(a, "relProto") = [a EXCEPT !.tasks = s]
    BY <1>5, <1>8, Zenon DEF Post, s
  <2>2. Post(a, "relProto") = [conn |-> c, proto |-> w.proto, msg |-> w.msg, tasks |-> s]
    BY <1>4, <2>1
  <2>. DEFINE d == Post(a, "relProto")
  <2>3. d.proto = w.proto
    BY <2>2
  <2>. HIDE DEF d
  <2>4. [d EXCEPT !.proto.life = "detached"] = [d EXCEPT !.proto = p]
    BY <2>3, Zenon DEF p
  <2>5. [d EXCEPT !.proto = p] = [conn |-> c, proto |-> p, msg |-> w.msg, tasks |-> s]
    BY <2>2 DEF d
  <2>6. Post(b, "relProto") = [b EXCEPT !.tasks = s]
    BY <1>7, <1>8, Zenon DEF Post, s
  <2>7. Post(b, "relProto") = [conn |-> c, proto |-> p, msg |-> w.msg, tasks |-> s]
    BY <1>6, <2>6
  <2>8. [d EXCEPT !.proto.life = "detached"] = Post(b, "relProto")
    BY <2>4, <2>5, <2>7, Zenon
  <2>. QED
    BY <2>8, Zenon DEF d, a, b
<1>9. CASE ~accepting
  <2>1. Post(a, "relProto") = a /\ Post(b, "relProto") = b
    BY <1>9, Zenon DEF Post
  <2>2. [a EXCEPT !.proto.life = "detached"] = [a EXCEPT !.proto = p]
    BY <1>5, Zenon DEF p
  <2>3. [a EXCEPT !.proto = p] = b
    BY <1>4, <1>6
  <2>. QED
    BY <2>1, <2>2, <2>3, Zenon DEF a, b
<1>. QED
  BY <1>8, <1>9

LEMMA CloseTaskInv ==
  ASSUME NEW w, NEW D, WorldInv(w, D),
         "close" \notin Queued(w.tasks), "login" \notin Queued(w.tasks),
         NEW v, v = CloseConnectionTask(w)
  PROVE  WorldInv(v, D) /\ v.msg = w.msg
<1>1. CASE w.conn.state # "REQUESTED"
  BY <1>1 DEF CloseConnectionTask
<1>2. CASE w.conn.state = "REQUESTED"
  <2>1. PICK c : c = Closed(w)
    OBVIOUS
  <2>2. /\ WorldInv(c, D) /\ ~Released(c, D) /\ c.msg = w.msg /\ c.tasks = w.tasks
        /\ c.conn.state = "CLOSING"
        /\ w.proto.life = "attached" => /\ c.proto.life = "detached"
                                        /\ "relProto" \notin Queued(c.tasks) \cup D
    BY <1>2, <2>1, ClosedInv
  <2>3. CASE w.proto.life = "attached"
    <3>1. PICK u : u = Post(c, "relProto")
      OBVIOUS
    <3>2. "relProto" \in Names
      BY DEF Names
    <3>3. WorldInv(u, D) /\ u.msg = c.msg /\ u.conn = c.conn
      BY <2>2, <2>3, <3>1, <3>2, PostInv
    <3>4. ~Released(u, D)
      <4>1. u = c \/ u = [conn |-> c.conn, proto |-> c.proto, msg |-> c.msg,
                          tasks |-> Append(c.tasks, "relProto")]
        BY <2>2, <3>1, PostFields DEF WorldInv
      <4>2. u.tasks = c.tasks \/ u.tasks = Append(c.tasks, "relProto")
        BY <4>1
      <4>3. Queued(Append(c.tasks, "relProto")) = Queued(c.tasks) \cup {"relProto"}
        BY <2>2, <2>3, <3>2, QueueTask, WorldFields DEF WorldInv
      <4>4. Queued(u.tasks) = Queued(c.tasks) \/ Queued(u.tasks) = Queued(c.tasks) \cup {"relProto"}
        BY <4>2, <4>3, Zenon
      <4>. QED
        BY <2>2, <3>3, <4>4 DEF Released
    <3>5. v = ClosingConnection(u)
      BY <1>2, <2>1, <2>3, <3>1, ClosedDetaches, Zenon DEF CloseConnectionTask, WorldInv
    <3>6. WorldInv(v, D) /\ v.msg = u.msg
      BY <2>2, <3>3, <3>4, <3>5, ClosingConnectionInv
    <3>. QED
      BY <2>2, <3>3, <3>6
  <2>4. CASE w.proto.life # "attached"
    <3>1. c = [w EXCEPT !.conn.state = "CLOSING"]
      <4>. DEFINE k == [w.conn EXCEPT !.state = "CLOSING"]
                  p == [w.proto EXCEPT !.life = IF @ = "attached" THEN "detached" ELSE @]
      <4>1. w = [conn |-> w.conn, proto |-> w.proto, msg |-> w.msg, tasks |-> w.tasks]
            /\ w.proto \in Proto
        BY WorldFields DEF WorldInv
      <4>2. c = [w EXCEPT !.conn = k, !.proto = p]
        BY <2>1, Zenon DEF Closed
      <4>3. p = w.proto
        <5>1. p = [w.proto EXCEPT !.life = w.proto.life]
          BY <2>4, Zenon
        <5>. QED
          BY <4>1, <5>1 DEF Proto
      <4>4. [w EXCEPT !.conn.state = "CLOSING"] = [w EXCEPT !.conn = k]
        BY Zenon
      <4>. HIDE DEF k, p
      <4>5. [w EXCEPT !.conn = k, !.proto = w.proto] = [w EXCEPT !.conn = k]
        BY <4>1
      <4>. QED
        BY <4>2, <4>3, <4>4, <4>5, Zenon
    <3>2. v = ClosingConnection(c)
      BY <1>2, <2>4, <3>1, Zenon DEF CloseConnectionTask
    <3>. QED
      BY <2>2, <3>2, ClosingConnectionInv
  <2>. QED
    BY <2>3, <2>4
<1>. QED
  BY <1>1, <1>2

\* OutputMessagePool::internalReleaseMessage
LEMMA InternalReleaseInv ==
  ASSUME NEW w, NEW D, WorldInv(w, D), w.tasks # <<>>, NEW m \in Msgs, m = Head(w.tasks),
         NEW u, u = Pop(w), NEW v, v = InternalReleaseMessage(u, m)
  PROVE  WorldInv(v, D) /\ Others(w, v, m) /\ v.msg[m].at = "free"
<1>1. /\ WorldType(w) /\ InOrder(w.tasks) /\ ConnInv(w) /\ ReleaseInv(w, D) /\ MsgInv(w)
      /\ CountInv(w) /\ w.tasks \in Seq(Tasks) /\ w.conn \in Conn /\ w.proto \in Proto
      /\ w.msg \in [Msgs -> Msg]
  BY WorldFields DEF WorldInv
<1>2. /\ u = [conn |-> w.conn, proto |-> w.proto, msg |-> w.msg, tasks |-> Tail(w.tasks)]
      /\ u.conn = w.conn /\ u.proto = w.proto /\ u.msg = w.msg /\ u.tasks = Tail(w.tasks)
  BY <1>1, PopFields
<1>3. /\ u.tasks \in Seq(Tasks) /\ InOrder(u.tasks)
      /\ Queued(w.tasks) = Queued(u.tasks) \cup {m}
      /\ m \notin Queued(u.tasks)
  <2>1. m \notin {"login", "game"}
    BY TasksOf DEF Names
  <2>. QED
    BY <1>1, <1>2, <2>1, TakeTask
<1>4. w.msg[m].at = "releasing" /\ m \in Used(w)
  <2>1. w.msg[m].at = "releasing"
    BY <1>1, <1>3 DEF MsgInv
  <2>. QED
    BY <2>1 DEF Used
<1>5. /\ Cardinality(Used(w)) \in Nat \ {0} /\ IsFiniteSet(Used(w))
      /\ Cardinality(Used(w) \ {m}) = Cardinality(Used(w)) - 1
  BY <1>4, UsedFinite, FS_RemoveElement, FS_EmptySet
<1>. DEFINE n == w.conn.refs - 1
            q == w.proto.refs - 1
            c == [w.conn EXCEPT !.refs = n]
            p == [w.proto EXCEPT !.refs = q]
            M == [w.msg EXCEPT ![m] = FreeMsg]
<1>6. v = [u EXCEPT !.msg = M, !.proto = p, !.conn = c]
  BY <1>2, Zenon DEF InternalReleaseMessage
<1>7. /\ n \in Nat /\ q \in Nat /\ n = Cardinality(Used(w) \ {m})
      /\ q >= Cardinality(Used(w) \ {m})
  <2>1. w.proto.refs \in Nat /\ w.conn.refs = Cardinality(Used(w))
        /\ w.proto.refs >= Cardinality(Used(w))
    BY <1>1 DEF CountInv, Proto
  <2>. QED
    BY <1>5, <2>1
<1>. HIDE DEF n, q
<1>8. p \in Proto /\ p.life = w.proto.life /\ p.refs = q /\ p.buffer = w.proto.buffer
  BY <1>1, <1>7 DEF Proto
<1>9. /\ c \in Conn /\ c.state = w.conn.state /\ c.refs = n
      /\ c.alive = w.conn.alive /\ c.writing = w.conn.writing
      /\ c.reading = w.conn.reading /\ c.pendingRead = w.conn.pendingRead
      /\ c.pendingWrite = w.conn.pendingWrite /\ c.writeError = w.conn.writeError
  BY <1>1, <1>7, ConnCounts
<1>10. /\ M \in [Msgs -> Msg] /\ M[m].at = "free" /\ M[m].sealed = 0
       /\ \A k \in Msgs \ {m} : M[k] = w.msg[k]
  <2>1. FreeMsg \in Msg /\ FreeMsg.at = "free" /\ FreeMsg.sealed = 0
    BY DEF FreeMsg, Msg
  <2>. HIDE DEF FreeMsg
  <2>. QED
    BY <1>1, <2>1
<1>. HIDE DEF c, p, M
<1>11. v = [conn |-> c, proto |-> p, msg |-> M, tasks |-> u.tasks]
  <2>1. u = [conn |-> u.conn, proto |-> u.proto, msg |-> u.msg, tasks |-> u.tasks]
    BY <1>2
  <2>. QED
    BY <1>6, <2>1
<1>12. v.conn = c /\ v.proto = p /\ v.msg = M /\ v.tasks = u.tasks
  BY <1>11
<1>13. WorldType(v)
  BY <1>3, <1>8, <1>9, <1>10, <1>11 DEF WorldType
<1>14. \A t \in Names : t \in Queued(u.tasks) <=> t \in Queued(w.tasks)
  BY <1>3, TasksOf
<1>15. ConnInv(v)
  <2>1. "close" \in Names
    BY DEF Names
  <2>. QED
    BY <1>1, <1>8, <1>9, <1>12, <1>14, <2>1 DEF ConnInv
<1>16. ReleaseInv(v, D)
  <2>1. "relConn" \in Names /\ "relProto" \in Names /\ "login" \in Names
    BY DEF Names
  <2>. QED
    BY <1>1, <1>8, <1>9, <1>12, <1>14, <2>1 DEF ReleaseInv, Released
<1>17. MsgInv(v)
  <2>1. ASSUME NEW k \in Msgs
        PROVE  /\ v.msg[k].at = "inflight" <=> v.conn.writing = k
               /\ v.msg[k].at = "releasing" <=> k \in Queued(v.tasks)
               /\ v.msg[k].sealed =
                    IF v.msg[k].at \in {"inflight", "releasing", "lost"} THEN 1 ELSE 0
    <3>1. CASE k = m
      <4>1. w.conn.writing # m
        BY <1>1, <1>4 DEF MsgInv
      <4>. QED
        BY <1>3, <1>9, <1>10, <1>12, <3>1, <4>1
    <3>2. CASE k # m
      BY <1>1, <1>3, <1>9, <1>10, <1>12, <3>2 DEF MsgInv
    <3>. QED
      BY <3>1, <3>2
  <2>2. ASSUME v.proto.buffer # NoMsg
        PROVE  v.msg[v.proto.buffer].at \in {"autosend", "toadd"}
    <3>1. w.proto.buffer \in Msgs /\ w.msg[w.proto.buffer].at \in {"autosend", "toadd"}
      BY <1>1, <1>8, <1>12, <2>2 DEF Proto, MsgInv
    <3>2. w.proto.buffer # m
      BY <1>4, <3>1
    <3>. QED
      BY <1>8, <1>10, <1>12, <3>1, <3>2
  <2>. QED
    BY <2>1, <2>2 DEF MsgInv
<1>18. CountInv(v)
  <2>1. Used(v) = Used(w) \ {m}
    BY <1>10, <1>12 DEF Used
  <2>2. ~v.conn.alive \/ v.proto.life \in {"none", "deleted"} => Used(v) = {}
    BY <1>1, <1>8, <1>9, <1>12, <2>1 DEF CountInv
  <2>. QED
    BY <1>7, <1>8, <1>9, <1>12, <2>1, <2>2 DEF CountInv
<1>. QED
  BY <1>3, <1>10, <1>12, <1>13, <1>15, <1>16, <1>17, <1>18 DEF WorldInv, Others

DeleteConn(w) == [w EXCEPT !.conn.alive = FALSE]

\* Connection::releaseConnection, when nothing refers to the connection.
LEMMA DeleteConnInv ==
  ASSUME NEW w, NEW D, WorldInv(w, D \cup {"relConn"}), "relConn" \notin Queued(w.tasks) \cup D,
         ~(w.conn.refs > 0), NEW v, v = DeleteConn(w)
  PROVE  WorldInv(v, D) /\ v.msg = w.msg
<1>. DEFINE x == FALSE
            c == [w.conn EXCEPT !.alive = x]
            E == D \cup {"relConn"}
<1>1. v = [w EXCEPT !.conn = c]
  BY Zenon DEF DeleteConn
<1>2. /\ w = [conn |-> w.conn, proto |-> w.proto, msg |-> w.msg, tasks |-> w.tasks]
      /\ w.conn \in Conn /\ w.proto \in Proto /\ w.msg \in [Msgs -> Msg] /\ w.tasks \in Seq(Tasks)
      /\ InOrder(w.tasks) /\ ConnInv(w) /\ ReleaseInv(w, E) /\ MsgInv(w) /\ CountInv(w)
  BY WorldFields DEF WorldInv
<1>3. x \in BOOLEAN /\ ~x
  OBVIOUS
<1>. HIDE DEF x
<1>4. /\ c \in Conn /\ c.state = w.conn.state
      /\ c.refs = w.conn.refs /\ ~c.alive /\ c.writing = w.conn.writing
      /\ c.reading = w.conn.reading /\ c.pendingRead = w.conn.pendingRead
      /\ c.pendingWrite = w.conn.pendingWrite /\ c.writeError = w.conn.writeError
  BY <1>2, <1>3 DEF Conn
<1>. HIDE DEF c
<1>5. v = [conn |-> c, proto |-> w.proto, msg |-> w.msg, tasks |-> w.tasks]
  BY <1>1, <1>2
<1>6. v.conn = c /\ v.proto = w.proto /\ v.msg = w.msg /\ v.tasks = w.tasks
  BY <1>5
<1>7. WorldType(v)
  BY <1>2, <1>4, <1>5 DEF WorldType
<1>8. ConnInv(v) /\ MsgInv(v)
  BY <1>2, <1>4, <1>6 DEF ConnInv, MsgInv
<1>9. ReleaseInv(v, D)
  <2>1. Released(w, E)
    BY DEF Released
  <2>. QED
    BY <1>2, <1>4, <1>6, <2>1 DEF ReleaseInv
<1>10. CountInv(v)
  <2>1. Used(w) = {}
    <3>1. Cardinality(Used(w)) \in Nat /\ IsFiniteSet(Used(w))
      BY UsedFinite
    <3>2. Cardinality(Used(w)) = 0
      BY <1>2, <3>1 DEF CountInv
    <3>. QED
      BY <3>1, <3>2, FS_EmptySet
  <2>2. Used(v) = Used(w)
    BY <1>6 DEF Used
  <2>. QED
    BY <1>2, <1>4, <1>6, <2>1, <2>2 DEF CountInv
<1>. QED
  BY <1>2, <1>6, <1>7, <1>8, <1>9, <1>10 DEF WorldInv

DeleteProto(w) == [w EXCEPT !.proto.life = "deleted"]

\* Protocol::releaseProtocol, when nothing refers to the protocol.
LEMMA DeleteProtoInv ==
  ASSUME NEW w, NEW D, WorldInv(w, D \cup {"relProto"}), "relProto" \notin Queued(w.tasks) \cup D,
         ~(w.proto.refs > 0), NEW v, v = DeleteProto(w)
  PROVE  WorldInv(v, D) /\ v.msg = w.msg
<1>. DEFINE p == [w.proto EXCEPT !.life = "deleted"]
            E == D \cup {"relProto"}
<1>1. v = [w EXCEPT !.proto = p]
  BY Zenon DEF DeleteProto
<1>2. /\ w = [conn |-> w.conn, proto |-> w.proto, msg |-> w.msg, tasks |-> w.tasks]
      /\ w.conn \in Conn /\ w.proto \in Proto /\ w.msg \in [Msgs -> Msg] /\ w.tasks \in Seq(Tasks)
      /\ InOrder(w.tasks) /\ ConnInv(w) /\ ReleaseInv(w, E) /\ MsgInv(w) /\ CountInv(w)
  BY WorldFields DEF WorldInv
<1>3. /\ p \in Proto /\ p.life = "deleted" /\ p.refs = w.proto.refs
      /\ p.buffer = w.proto.buffer
  BY <1>2 DEF Proto
<1>. HIDE DEF p
<1>4. v = [conn |-> w.conn, proto |-> p, msg |-> w.msg, tasks |-> w.tasks]
  BY <1>1, <1>2
<1>5. v.conn = w.conn /\ v.proto = p /\ v.msg = w.msg /\ v.tasks = w.tasks
  BY <1>4
<1>6. WorldType(v)
  BY <1>2, <1>3, <1>4 DEF WorldType
<1>7. ConnInv(v) /\ MsgInv(v)
  BY <1>2, <1>3, <1>5 DEF ConnInv, MsgInv
<1>8. ReleaseInv(v, D)
  <2>1. w.proto.life = "detached"
    BY <1>2 DEF ReleaseInv
  <2>2. Released(v, D) <=> Released(w, E)
    BY <1>5 DEF Released
  <2>. QED
    BY <1>2, <1>3, <1>5, <2>1, <2>2 DEF ReleaseInv
<1>9. CountInv(v)
  <2>1. Used(w) = {}
    <3>1. Cardinality(Used(w)) \in Nat /\ IsFiniteSet(Used(w))
      BY UsedFinite
    <3>2. w.proto.refs \in Nat /\ w.proto.refs >= Cardinality(Used(w))
      BY <1>2 DEF CountInv, Proto
    <3>3. Cardinality(Used(w)) = 0
      BY <3>1, <3>2
    <3>. QED
      BY <3>1, <3>3, FS_EmptySet
  <2>2. Used(v) = Used(w)
    BY <1>5 DEF Used
  <2>. QED
    BY <1>2, <1>3, <1>5, <2>1, <2>2 DEF CountInv
<1>. QED
  BY <1>2, <1>5, <1>6, <1>7, <1>8, <1>9 DEF WorldInv

\* A task was run.
LEMMA TaskStep ==
  ASSUME IInv, NEW v, WorldInv(v, timers'), Settled(v), Becomes(v), timers' \subseteq Releases,
         pending' = Unsent', UNCHANGED <<accepting, packets>>
  PROVE  IInv'
<1>1. World' = v
  BY BecomesWorld DEF WorldInv
<1>2. WorldInv(World, timers)' /\ Settled(World)'
  BY <1>1
<1>. QED
  BY <1>2 DEF IInv

LEMMA ReleaseTaskInv ==
  ASSUME IInv, tasks # <<>>, Head(tasks) \in Releases, ReleaseTask(Head(tasks)),
         pending' = Unsent', UNCHANGED <<accepting, packets>>
  PROVE  IInv'
<1>1. PICK w : w = World
  OBVIOUS
<1>2. PICK t : t = Head(tasks)
  OBVIOUS
<1>3. PICK D : D = timers
  OBVIOUS
<1>4. /\ WorldInv(w, D) /\ Settled(w) /\ w.conn = conn /\ w.proto = proto /\ w.tasks = tasks
      /\ D \subseteq Releases /\ t \in Names /\ t \in Releases
  BY <1>1, <1>2, <1>3 DEF IInv, World, Releases, Names
<1>5. PICK u : u = Pop(w)
  OBVIOUS
<1>6. PICK E : E = D \cup {t}
  OBVIOUS
<1>7. /\ WorldInv(u, E) /\ u.conn = conn /\ u.proto = proto /\ u.msg = w.msg
      /\ t \notin Queued(u.tasks) \cup D
  <2>1. E = IF t \in Releases THEN D \cup {t} ELSE D
    BY <1>4, <1>6
  <2>2. w.tasks # <<>> /\ t = Head(w.tasks)
    BY <1>2, <1>4
  <2>. QED
    BY <1>4, <1>5, <2>1, <2>2, PopInv, SMTT(30)
<1>8. Settled(u)
  BY <1>4, <1>7 DEF Settled
<1>. DEFINE refs == IF t = "relConn" THEN conn.refs ELSE proto.refs
<1>9. CASE refs > 0
  <2>1. Becomes(u) /\ timers' = E
    BY <1>1, <1>2, <1>3, <1>5, <1>6, <1>9, Zenon DEF ReleaseTask, Pop
  <2>2. timers' \subseteq Releases
    BY <1>4, <1>6, <2>1
  <2>. QED
    BY <1>7, <1>8, <2>1, <2>2, TaskStep
<1>10. CASE ~(refs > 0)
  <2>1. PICK v : v = IF t = "relConn" THEN DeleteConn(u) ELSE DeleteProto(u)
    OBVIOUS
  <2>2. Becomes(v) /\ timers' = D
    BY <1>1, <1>2, <1>3, <1>5, <1>10, <2>1, Zenon DEF ReleaseTask, Pop, DeleteConn, DeleteProto
  <2>3. WorldInv(v, D) /\ v.msg = u.msg
    <3>1. CASE t = "relConn"
      <4>1. v = DeleteConn(u)
        BY <2>1, <3>1, Zenon
      <4>2. ~(u.conn.refs > 0)
        BY <1>7, <1>10, <3>1
      <4>. QED
        BY <1>6, <1>7, <3>1, <4>1, <4>2, DeleteConnInv
    <3>2. CASE t = "relProto"
      <4>1. v = DeleteProto(u)
        BY <2>1, <3>2, Zenon
      <4>2. ~(u.proto.refs > 0)
        BY <1>7, <1>10, <3>2
      <4>. QED
        BY <1>6, <1>7, <3>2, <4>1, <4>2, DeleteProtoInv
    <3>. QED
      BY <1>4, <3>1, <3>2 DEF Releases
  <2>4. Settled(v)
    BY <1>8, <2>3 DEF Settled
  <2>. QED
    BY <1>4, <2>2, <2>3, <2>4, TaskStep
<1>. QED
  BY <1>9, <1>10

LEMMA RunTaskInv ==
  ASSUME IInv, RunTask
  PROVE  IInv'
<1>1. CASE Head(tasks) \in Releases /\ ReleaseTask(Head(tasks))
  BY <1>1, ReleaseTaskInv DEF RunTask
<1>2. CASE Head(tasks) \notin Releases /\ UNCHANGED timers
  <2>1. PICK w : w = World
    OBVIOUS
  <2>2. PICK t : t = Head(tasks)
    OBVIOUS
  <2>3. PICK D : D = timers
    OBVIOUS
  <2>4. /\ WorldInv(w, D) /\ Settled(w) /\ w.tasks = tasks /\ t = Head(w.tasks)
        /\ w.tasks # <<>> /\ t \notin Releases /\ timers' = D /\ D \subseteq Releases
    BY <1>2, <2>1, <2>2, <2>3 DEF IInv, World, RunTask
  <2>5. PICK u : u = Pop(w)
    OBVIOUS
  <2>6. PICK v : /\ Becomes(v)
                 /\ v \in CASE t = "close" -> {CloseConnectionTask(u)}
                            [] t \in Msgs -> {InternalReleaseMessage(u, t)}
                            [] OTHER -> Outcomes(u)
    BY <1>2, <2>1, <2>2, <2>5, Zenon DEF RunTask, Pop
  <2>7. t \in Tasks
    BY <2>4, TakeTask, WorldFields DEF WorldInv
  <2>8. WorldInv(v, D) /\ Settled(v)
    <3>1. CASE t \in Msgs
      <4>1. t # "close"
        BY <3>1, TasksOf DEF Names
      <4>2. v = InternalReleaseMessage(u, t)
        BY <2>6, <3>1, <4>1
      <4>3. WorldInv(v, D) /\ Others(w, v, t) /\ v.msg[t].at = "free"
        BY <2>4, <2>5, <3>1, <4>2, InternalReleaseInv
      <4>. QED
        BY <2>4, <4>3 DEF Settled, Others
    <3>2. CASE t \notin Msgs
      <4>1. t \in Names
        BY <2>7, <3>2, TasksOf
      <4>2. D = IF t \in Releases THEN D \cup {t} ELSE D
        BY <2>4
      <4>3. /\ WorldInv(u, D) /\ u.msg = w.msg
            /\ t = "close" => "close" \notin Queued(u.tasks) /\ "login" \notin Queued(u.tasks)
        BY <2>4, <2>5, <4>1, <4>2, PopInv
      <4>4. Settled(u)
        BY <2>4, <4>3 DEF Settled
      <4>5. CASE t = "close"
        <5>1. v = CloseConnectionTask(u)
          BY <2>6, <3>2, <4>5
        <5>2. WorldInv(v, D) /\ v.msg = u.msg
          BY <4>3, <4>5, <5>1, CloseTaskInv
        <5>. QED
          BY <4>4, <5>2 DEF Settled
      <4>6. CASE t # "close"
        <5>1. v \in Outcomes(u)
          BY <2>6, <3>2, <4>6
        <5>. QED
          BY <4>3, <4>4, <5>1, OutcomesInv
      <4>. QED
        BY <4>5, <4>6
    <3>. QED
      BY <3>1, <3>2
  <2>9. pending' = Unsent' /\ UNCHANGED <<accepting, packets>>
    BY DEF RunTask
  <2>. QED
    BY <2>4, <2>6, <2>8, <2>9, TaskStep
<1>. QED
  BY <1>1, <1>2, Zenon DEF RunTask

LEMMA SendAllInv ==
  ASSUME IInv, NEW m \in Msgs, SendAll(m)
  PROVE  IInv'
<1>1. PICK w : w = World
  OBVIOUS
<1>2. /\ WorldInv(w, timers) /\ Settled(w) /\ w.msg = msg /\ pending \subseteq Unsent
      /\ m \in pending /\ w.msg[m].at \in Sendable
  BY <1>1 DEF IInv, World, SendAll, Unsent, Sendable
<1>3. PICK v : /\ Becomes(v)
               /\ \/ v = ReleaseMessage(OnSendMessage(w, m), m)
                  \/ v = Send(w, m)
                  \/ v = Keep(w, m, "autosend")
  BY <1>1, Zenon DEF SendAll, Keep
<1>4. WorldInv(v, timers) /\ Others(w, v, m) /\ v.msg[m].at # "single"
  <2>1. CASE v = ReleaseMessage(OnSendMessage(w, m), m)
    BY <1>2, <2>1, DropInv DEF Sendable
  <2>2. CASE v = Send(w, m)
    BY <1>2, <2>2, SendInv
  <2>3. CASE v = Keep(w, m, "autosend")
    BY <1>2, <2>3, KeepInv
  <2>. QED
    BY <1>3, <2>1, <2>2, <2>3
<1>5. World' = v
  BY <1>3, <1>4, BecomesWorld DEF WorldInv
<1>6. Settled(v)
  BY <1>2, <1>4 DEF Settled, Others
<1>7. pending' = pending \ {m} /\ UNCHANGED <<timers, accepting, packets>>
  BY DEF SendAll
<1>8. WorldInv(World, timers)' /\ Settled(World)'
  BY <1>4, <1>5, <1>6, <1>7
<1>9. (pending \subseteq Unsent)'
  <2>1. msg' = v.msg
    BY <1>3 DEF Becomes
  <2>. QED
    BY <1>2, <1>4, <1>7, <2>1 DEF Others, Unsent
<1>. QED
  BY <1>7, <1>8, <1>9 DEF IInv

-----------------------------------------------------------------------------
(* The other steps.                                                        *)

LEMMA AgeInv ==
  ASSUME IInv, NEW m \in Msgs, Age(m)
  PROVE  IInv'
<1>. DEFINE x == FALSE
            z == [msg[m] EXCEPT !.fresh = x]
<1>1. PICK w : w = World
  OBVIOUS
<1>2. /\ WorldInv(w, timers) /\ Settled(w)
      /\ w.conn = conn /\ w.proto = proto /\ w.msg = msg /\ w.tasks = tasks
  BY <1>1 DEF IInv, World
<1>3. /\ w = [conn |-> w.conn, proto |-> w.proto, msg |-> w.msg, tasks |-> w.tasks]
      /\ w.conn \in Conn /\ w.proto \in Proto /\ w.msg \in [Msgs -> Msg] /\ w.tasks \in Seq(Tasks)
      /\ InOrder(w.tasks) /\ ConnInv(w) /\ ReleaseInv(w, timers) /\ MsgInv(w) /\ CountInv(w)
      /\ w.msg[m] \in Msg
  BY <1>2, WorldFields DEF WorldInv
<1>4. msg' = [msg EXCEPT ![m] = z]
  BY Zenon DEF Age
<1>5. x \in BOOLEAN
  OBVIOUS
<1>. HIDE DEF x
<1>6. z \in Msg /\ z.at = msg[m].at /\ z.sealed = msg[m].sealed
  BY <1>2, <1>3, <1>5 DEF Msg
<1>. HIDE DEF z
<1>7. /\ msg' \in [Msgs -> Msg]
      /\ \A n \in Msgs : msg'[n].at = msg[n].at /\ msg'[n].sealed = msg[n].sealed
  BY <1>2, <1>3, <1>4, <1>6
<1>8. PICK v : v = [conn |-> conn, proto |-> proto, msg |-> msg', tasks |-> tasks]
  OBVIOUS
<1>9. v.conn = w.conn /\ v.proto = w.proto /\ v.msg = msg' /\ v.tasks = w.tasks
  BY <1>2, <1>8
<1>10. WorldType(v)
  BY <1>2, <1>3, <1>7, <1>8 DEF WorldType
<1>11. ConnInv(v) /\ ReleaseInv(v, timers)
  BY <1>3, <1>9 DEF ConnInv, ReleaseInv, Released
<1>12. MsgInv(v)
  <2>1. \A n \in Msgs : v.msg[n].at = w.msg[n].at /\ v.msg[n].sealed = w.msg[n].sealed
    BY <1>2, <1>7, <1>9
  <2>2. w.proto.buffer # NoMsg => w.proto.buffer \in Msgs
    BY <1>3 DEF Proto
  <2>. QED
    BY <1>3, <1>9, <2>1, <2>2 DEF MsgInv
<1>13. CountInv(v)
  <2>1. Used(v) = Used(w)
    BY <1>2, <1>7, <1>9 DEF Used
  <2>. QED
    BY <1>3, <1>9, <2>1 DEF CountInv
<1>14. WorldInv(v, timers)
  BY <1>3, <1>9, <1>10, <1>11, <1>12, <1>13 DEF WorldInv
<1>15. Settled(v) /\ Keeps(World, v)
  BY <1>1, <1>2, <1>7, <1>9 DEF Settled, Keeps
<1>16. Becomes(v) /\ UNCHANGED <<timers, accepting, pending>> /\ packets' \in 0..MaxPackets
  BY <1>2, <1>9 DEF Age, Becomes, IInv
<1>. QED
  BY <1>14, <1>15, <1>16, StepInv

LEMMA OtherTaskInv ==
  ASSUME IInv, OtherTask
  PROVE  IInv'
<1>1. PICK w : w = World
  OBVIOUS
<1>2. PICK v : v = Post(w, "game")
  OBVIOUS
<1>3. WorldInv(w, timers) /\ Settled(w) /\ "game" \in Names
  BY <1>1 DEF IInv, Names
<1>4. WorldInv(v, timers) /\ v.msg = w.msg
  BY <1>2, <1>3, PostInv
<1>5. Settled(v) /\ Keeps(World, v)
  BY <1>1, <1>3, <1>4 DEF Settled, Keeps
<1>6. Becomes(v) /\ UNCHANGED <<timers, accepting, pending>> /\ packets' \in 0..MaxPackets
  BY <1>1, <1>2, Zenon DEF OtherTask, IInv
<1>. QED
  BY <1>4, <1>5, <1>6, StepInv

\* A release that is no longer waiting.
LEMMA Forget ==
  ASSUME NEW w, NEW D, WorldInv(w, D), NEW t, NEW E, E = D \ {t}
  PROVE  WorldInv(w, E)
BY DEF WorldInv, ReleaseInv, Released

LEMMA RetryInv ==
  ASSUME IInv, NEW t \in Releases, Retry(t)
  PROVE  IInv'
<1>1. PICK w : w = World
  OBVIOUS
<1>2. PICK E : E = timers \ {t}
  OBVIOUS
<1>3. PICK v : v = Post(w, t)
  OBVIOUS
<1>4. /\ WorldInv(w, timers) /\ Settled(w) /\ w.msg = msg /\ t \in timers
      /\ t \in Names /\ (t = "relConn" \/ t = "relProto") /\ timers \subseteq Releases
  BY <1>1 DEF IInv, Retry, Names, Releases, World
<1>5. WorldInv(w, E)
  BY <1>2, <1>4, Forget
<1>6. /\ t = "relConn" => /\ ~Released(w, E) /\ w.conn.state = "CLOSING"
                          /\ w.conn.reading = "none" /\ w.conn.writing = NoMsg
      /\ t = "relProto" => /\ w.proto.life = "detached"
                           /\ "relProto" \notin Queued(w.tasks) \cup E
  <2>1. ReleaseInv(w, timers)
    BY <1>4 DEF WorldInv
  <2>. QED
    BY <1>2, <1>4, <2>1 DEF ReleaseInv, Released
<1>7. WorldInv(v, E) /\ v.msg = w.msg
  BY <1>3, <1>4, <1>5, <1>6, PostInv
<1>8. timers' = E /\ Becomes(v) /\ UNCHANGED <<accepting, pending, packets>>
  BY <1>1, <1>2, <1>3, Zenon DEF Retry
<1>9. World' = v
  BY <1>7, <1>8, BecomesWorld DEF WorldInv
<1>10. WorldInv(World, timers)' /\ Settled(World)'
  BY <1>4, <1>7, <1>8, <1>9 DEF Settled
<1>11. (pending \subseteq Unsent)'
  BY <1>4, <1>7, <1>8 DEF IInv, Unsent, Becomes
<1>12. timers' \subseteq Releases
  BY <1>2, <1>4, <1>8
<1>. QED
  BY <1>8, <1>10, <1>11, <1>12 DEF IInv

LEMMA StopDispatcherInv ==
  ASSUME IInv, StopDispatcher \/ UNCHANGED vars
  PROVE  IInv'
<1>1. UNCHANGED <<conn, proto, msg, tasks, timers, pending, packets>>
      /\ (accepting' = accepting \/ accepting' = FALSE)
  BY DEF StopDispatcher, vars
<1>2. World' = World /\ Unsent' = Unsent
  BY <1>1 DEF World, Unsent
<1>3. WorldInv(World, timers)' /\ Settled(World)'
  BY <1>1, <1>2 DEF IInv
<1>. QED
  BY <1>1, <1>2, <1>3 DEF IInv

-----------------------------------------------------------------------------
(* The theorems.                                                           *)

LEMMA InitIInv == Init => IInv
<1>. SUFFICES ASSUME Init PROVE IInv
  OBVIOUS
<1>1. PICK w : w = World
  OBVIOUS
<1>2. /\ w = [conn |-> conn, proto |-> proto, msg |-> msg, tasks |-> tasks]
      /\ w.conn = conn /\ w.proto = proto /\ w.msg = msg /\ w.tasks = <<>>
  BY <1>1 DEF World, Init
<1>3. conn \in Conn /\ conn.refs = 0 /\ conn.alive /\ conn.state = "NONE"
      /\ conn.reading = "header" /\ conn.pendingRead = 1
      /\ conn.writing = NoMsg /\ conn.pendingWrite = 0 /\ ~conn.writeError
  <2>. DEFINE yes == TRUE
              no  == FALSE
  <2>1. conn = [state |-> "NONE", socketClosed |-> no, writeError |-> no,
             pendingRead |-> 1, pendingWrite |-> 0, refs |-> 0,
             reading |-> "header", writing |-> NoMsg, alive |-> yes]
    BY DEF Init
  <2>2. yes \in BOOLEAN /\ yes /\ no \in BOOLEAN /\ ~no
    OBVIOUS
  <2>. HIDE DEF yes, no
  <2>. QED
    BY <2>1, <2>2 DEF Conn
<1>4. proto \in Proto /\ proto.life = "none" /\ proto.buffer = NoMsg /\ proto.refs \in Nat
  BY ConnectionAssumption DEF Init, Proto
<1>5. msg \in [Msgs -> Msg] /\ \A m \in Msgs : msg[m].at = "free" /\ msg[m].sealed = 0
  <2>1. FreeMsg \in Msg /\ FreeMsg.at = "free" /\ FreeMsg.sealed = 0
    BY DEF FreeMsg, Msg
  <2>2. msg = [m \in Msgs |-> FreeMsg]
    BY DEF Init
  <2>. HIDE DEF FreeMsg
  <2>. QED
    BY <2>1, <2>2
<1>6. Queued(w.tasks) = {} /\ InOrder(w.tasks) /\ w.tasks \in Seq(Tasks)
  BY <1>2 DEF Queued, InOrder
<1>7. WorldType(w)
  <2>1. tasks \in Seq(Tasks)
    BY DEF Init
  <2>. QED
    BY <1>2, <1>3, <1>4, <1>5, <2>1 DEF WorldType
<1>8. ConnInv(w)
  BY <1>2, <1>3, <1>4, <1>6 DEF ConnInv
<1>9. timers = {} /\ accepting = TRUE /\ pending = {} /\ packets = 0
  BY DEF Init
<1>10. ReleaseInv(w, timers)
  BY <1>2, <1>3, <1>6, <1>9 DEF ReleaseInv, Released
<1>11. MsgInv(w)
  <2>1. \A m \in Msgs : m # NoMsg
    BY ConnectionAssumption
  <2>. QED
    BY <1>2, <1>3, <1>4, <1>5, <1>6, <2>1 DEF MsgInv
<1>12. CountInv(w)
  <2>1. Used(w) = {}
    BY <1>2, <1>5 DEF Used
  <2>2. Cardinality(Used(w)) = 0
    BY <2>1, FS_EmptySet
  <2>3. w.conn.refs = 0 /\ w.proto.refs \in Nat
    BY <1>2, <1>3, <1>4
  <2>. QED
    BY <2>1, <2>2, <2>3 DEF CountInv
<1>13. Settled(w)
  BY <1>2, <1>5 DEF Settled
<1>14. WorldInv(w, timers)
  BY <1>6, <1>7, <1>8, <1>10, <1>11, <1>12 DEF WorldInv
<1>15. packets \in 0..MaxPackets
  BY <1>9, ConnectionAssumption
<1>. QED
  BY <1>1, <1>9, <1>13, <1>14, <1>15 DEF IInv

LEMMA NextIInv == IInv /\ [Next]_vars => IInv'
<1>. SUFFICES ASSUME IInv, [Next]_vars PROVE IInv'
  OBVIOUS
<1>1. CASE Network
  BY <1>1, ReadFailsInv, ParseHeaderInv, ParsePacketInv, OnWriteOperationInv DEF Network
<1>2. CASE DispatcherThread
  BY <1>2, RunTaskInv, SendAllInv DEF DispatcherThread, SendAllStep
<1>3. CASE OtherTask
  BY <1>3, OtherTaskInv
<1>4. CASE \E m \in Msgs : Age(m)
  BY <1>4, AgeInv
<1>5. CASE \E t \in Releases : Retry(t)
  BY <1>5, RetryInv
<1>6. CASE StopDispatcher \/ UNCHANGED vars
  BY <1>6, StopDispatcherInv
<1>. QED
  BY <1>1, <1>2, <1>3, <1>4, <1>5, <1>6 DEF Next

\* The inductive invariant holds in every state.
THEOREM Invariant == Spec => []IInv
BY InitIInv, NextIInv, PTL DEF Spec

\* What is not queued is queued no times.
LEMMA NotQueued ==
  ASSUME NEW t, t \notin Queued(tasks)
  PROVE  Times(t) = 0
<1>1. {i \in 1..Len(tasks) : tasks[i] = t} = {}
  BY DEF Queued
<1>. QED
  BY <1>1, FS_EmptySet DEF Times

LEMMA IInvUnused == IInv => ObjectsUnused
<1>. SUFFICES ASSUME IInv PROVE ObjectsUnused
  OBVIOUS
<1>1. PICK w : w = World
  OBVIOUS
<1>2. /\ WorldInv(w, timers) /\ Settled(w)
      /\ w.conn = conn /\ w.proto = proto /\ w.msg = msg /\ w.tasks = tasks
  BY <1>1 DEF IInv, World
<1>3. /\ conn \in Conn /\ proto \in Proto /\ msg \in [Msgs -> Msg] /\ tasks \in Seq(Tasks)
      /\ ConnInv(w) /\ ReleaseInv(w, timers) /\ CountInv(w)
  BY <1>2, WorldFields DEF WorldInv
<1>4. TypeOK
  <2>1. msg \in [Msgs -> [at : {"free", "autosend", "toadd", "inflight", "releasing", "lost"},
                          sealed : Nat, fresh : BOOLEAN]]
    <3>1. \A m \in Msgs :
            msg[m] \in [at : {"free", "autosend", "toadd", "inflight", "releasing", "lost"},
                        sealed : Nat, fresh : BOOLEAN]
      BY <1>2, <1>3 DEF Settled, Msg
    <3>. QED
      BY <1>3, <3>1
  <2>2. pending \subseteq Msgs /\ timers \subseteq Releases /\ accepting \in BOOLEAN
        /\ packets \in 0..MaxPackets
    BY DEF IInv, Unsent
  <2>. QED
    BY <1>3, <2>1, <2>2 DEF TypeOK, Conn, Proto
<1>5. InUse = Used(w)
  BY <1>2 DEF InUse, Used
<1>6. ConnectionUnused
  <2>. SUFFICES ASSUME ~conn.alive
                PROVE  /\ conn.reading = "none" /\ conn.writing = NoMsg
                       /\ InUse = {}
                       /\ Times("close") = 0 /\ Times("relConn") = 0 /\ "relConn" \notin timers
                       /\ proto.life # "attached"
    BY DEF ConnectionUnused
  <2>1. /\ conn.state = "CLOSING" /\ conn.reading = "none" /\ conn.writing = NoMsg
        /\ "relConn" \notin Queued(tasks) /\ "relConn" \notin timers
    BY <1>2, <1>3 DEF ReleaseInv, Released
  <2>2. "close" \notin Queued(tasks) /\ proto.life # "attached"
    BY <1>2, <1>3, <2>1 DEF ConnInv
  <2>3. InUse = {}
    BY <1>2, <1>3, <1>5 DEF CountInv
  <2>. QED
    BY <2>1, <2>2, <2>3, NotQueued
<1>7. ProtocolUnused
  <2>. SUFFICES ASSUME proto.life = "deleted"
                PROVE  /\ InUse = {}
                       /\ Times("login") = 0 /\ Times("relProto") = 0 /\ "relProto" \notin timers
    BY DEF ProtocolUnused
  <2>1. "login" \notin Queued(tasks) /\ "relProto" \notin Queued(tasks) /\ "relProto" \notin timers
    BY <1>2, <1>3 DEF ReleaseInv
  <2>2. InUse = {}
    BY <1>2, <1>3, <1>5 DEF CountInv
  <2>. QED
    BY <2>1, <2>2, NotQueued
<1>8. LoginHasConnection
  <2>. SUFFICES ASSUME tasks # <<>>, Head(tasks) = "login" PROVE proto.life = "attached"
    BY DEF LoginHasConnection
  <2>1. "login" \in Queued(tasks)
    BY <1>2, TakeTask, WorldFields DEF WorldInv
  <2>. QED
    BY <1>2, <1>3, <2>1 DEF ReleaseInv
<1>. QED
  BY <1>4, <1>6, <1>7, <1>8 DEF ObjectsUnused

LEMMA IInvNotSent == IInv => BufferNotSent
<1>. SUFFICES ASSUME IInv PROVE BufferNotSent
  OBVIOUS
<1>1. PICK w : w = World
  OBVIOUS
<1>2. WorldInv(w, timers) /\ w.proto = proto /\ w.msg = msg
  BY <1>1 DEF IInv, World
<1>3. MsgInv(w) /\ proto \in Proto
  BY <1>2, WorldFields DEF WorldInv
<1>4. \A m \in Msgs : msg[m].sealed = 0 \/ msg[m].sealed = 1
  BY <1>2, <1>3 DEF MsgInv
<1>5. proto.buffer # NoMsg =>
        /\ msg[proto.buffer].at \in {"autosend", "toadd"}
        /\ msg[proto.buffer].sealed = 0
  BY <1>2, <1>3 DEF MsgInv, Proto
<1>. QED
  BY <1>4, <1>5 DEF BufferNotSent

\* A connection and its protocol are deleted when the last handler, task, timer
\* and message has let go of them, and never before; and a login always finds
\* the connection it uses unchecked.
THEOREM DeletedUnused == Spec => []ObjectsUnused
BY Invariant, IInvUnused, PTL

\* The game never writes to a message that was given to the socket, and none
\* gets its header twice.
THEOREM NeverBothUse == Spec => []BufferNotSent
BY Invariant, IInvNotSent, PTL

\* Both at once: what MCServer checks of a connection.
THEOREM AlwaysConsistent == Spec => []ConnectionConsistent
BY DeletedUnused, NeverBothUse, PTL DEF ConnectionConsistent

---------------------------------------------------------------------------
BanRow == [type : {"ip", "namelock", "banishment", "notation", "deletion"},
           value : Address \cup Char \cup Account,
           expires : {"zero", "minus", "running", "over"}, active : BOOLEAN]

\* OneRow of any table, and the tables that are right.
Single(t) ==
  \A j, k \in DOMAIN t :
    /\ t[j].active /\ t[k].active
    /\ t[j].type = t[k].type /\ t[j].value = t[k].value
    /\ \/ t[j].type \in {"namelock", "deletion"}
       \/ t[j].type = "ip" /\ InForce(t[j]) /\ InForce(t[k])
    => j = k
Table(t) == t \in Seq(BanRow) /\ Single(t)

\* From one table to the next only the names in C are locked and only the
\* accounts in A deleted.
Adds(t, u, C, A) ==
  /\ Table(u)
  /\ \A c \in Char : IsNameLocked(u, c) => IsNameLocked(t, c) \/ c \in C
  /\ \A a \in Account : IsDeleted(u, a) => IsDeleted(t, a) \/ a \in A

\* What a new row is and what it leaves alone.
LEMMA NewRowIs ==
  ASSUME NEW t, t \in Seq(BanRow), NEW type, NEW v, NEW e, NEW u,
         [type |-> type, value |-> v, expires |-> e, active |-> TRUE] \in BanRow,
         u = NewRow(t, type, v, e)
  PROVE  /\ u \in Seq(BanRow)
         /\ Len(t) \in Nat /\ DOMAIN t = 1..Len(t) /\ DOMAIN u = 1..(Len(t) + 1)
         /\ \A k \in DOMAIN u : \/ k \in DOMAIN t /\ u[k] = t[k]
                                \/ /\ k = Len(t) + 1
                                   /\ u[k] = [type |-> type, value |-> v, expires |-> e,
                                              active |-> TRUE]
BY DEF NewRow

\* So the rows of another kind are the same.
LEMMA NewRowLeaves ==
  ASSUME NEW t, t \in Seq(BanRow), NEW type, NEW v, NEW e, NEW u,
         [type |-> type, value |-> v, expires |-> e, active |-> TRUE] \in BanRow,
         u = NewRow(t, type, v, e)
  PROVE  /\ \A c : IsNameLocked(u, c) => IsNameLocked(t, c) \/ (type = "namelock" /\ c = v)
         /\ \A a : IsDeleted(u, a) => IsDeleted(t, a) \/ (type = "deletion" /\ a = v)
<1>1. \A y, w, k : k \in Rows(u, y, w) => k \in Rows(t, y, w) \/ (y = type /\ w = v)
  BY NewRowIs DEF Rows
<1>. QED
  BY <1>1 DEF IsNameLocked, IsDeleted

\* A new row keeps a table right if there was none like it.
LEMMA NewRowSingle ==
  ASSUME NEW t, Table(t), NEW type, NEW v, NEW e, NEW u,
         [type |-> type, value |-> v, expires |-> e, active |-> TRUE] \in BanRow,
         u = NewRow(t, type, v, e),
         type = "namelock" => ~IsNameLocked(t, v),
         type = "deletion" => ~IsDeleted(t, v),
         type = "ip" => ~IsIpBanished(t, v)
  PROVE  Table(u)
<1>. DEFINE n == Len(t) + 1
<1>0. t \in Seq(BanRow) /\ Single(t)
  BY DEF Table
<1>1. \A k \in DOMAIN t : /\ k \notin Rows(t, "namelock", v) \/ type # "namelock"
                          /\ k \notin Rows(t, "deletion", v) \/ type # "deletion"
                          /\ \/ k \notin Rows(t, "ip", v) \/ type # "ip"
                             \/ ~InForce(t[k])
  BY DEF IsNameLocked, IsDeleted, IsIpBanished
<1>2. SUFFICES ASSUME NEW j \in DOMAIN u, NEW k \in DOMAIN u,
                      u[j].active, u[k].active,
                      u[j].type = u[k].type, u[j].value = u[k].value,
                      \/ u[j].type \in {"namelock", "deletion"}
                      \/ u[j].type = "ip" /\ InForce(u[j]) /\ InForce(u[k])
               PROVE  j = k
  BY <1>0, NewRowIs DEF Table, Single
<1>3. \A i \in DOMAIN u : \/ i \in DOMAIN t /\ u[i] = t[i]
                          \/ i = n /\ u[i] = [type |-> type, value |-> v, expires |-> e, active |-> TRUE]
  BY <1>0, NewRowIs
<1>4. CASE j = n /\ k # n
  BY <1>1, <1>2, <1>3, <1>4 DEF Rows
<1>5. CASE k = n /\ j # n
  BY <1>1, <1>2, <1>3, <1>5 DEF Rows
<1>6. CASE j # n /\ k # n
  BY <1>0, <1>2, <1>3, <1>6 DEF Single
<1>. QED
  BY <1>4, <1>5, <1>6

\* Rows that are taken back, or whose time is over, change nothing for the worse.
LEMMA Weaker ==
  ASSUME NEW t, Table(t), NEW u, u \in Seq(BanRow), DOMAIN u = DOMAIN t,
         \A k \in DOMAIN t : /\ u[k].active => t[k].active
                             /\ u[k].type = t[k].type /\ u[k].value = t[k].value
                             /\ InForce(u[k]) => InForce(t[k])
  PROVE  Adds(t, u, {}, {})
<1>1. \A y, w : Rows(u, y, w) \subseteq Rows(t, y, w)
  BY DEF Rows
<1>2. Single(u)
  BY DEF Table, Single
<1>. QED
  BY <1>1, <1>2 DEF Adds, Table, IsNameLocked, IsDeleted

\* A table from which nothing is taken and to which nothing is added.
LEMMA AddsNothing ==
  ASSUME NEW t, Table(t), NEW C, NEW A
  PROVE  Adds(t, t, C, A)
BY DEF Adds

\* One change of a table after another.
LEMMA AddsBoth ==
  ASSUME NEW t, NEW u, NEW w, NEW C, NEW A, NEW D, NEW B, NEW E, NEW F,
         Adds(t, u, C, A), Adds(u, w, D, B), C \cup D \subseteq E, A \cup B \subseteq F
  PROVE  Adds(t, w, E, F)
<1>1. Table(w)
  BY Zenon DEF Adds
<1>2. ASSUME NEW c \in Char, IsNameLocked(w, c) PROVE IsNameLocked(t, c) \/ c \in E
  <2>1. IsNameLocked(u, c) \/ c \in D
    BY <1>2, Zenon DEF Adds
  <2>2. IsNameLocked(u, c) => IsNameLocked(t, c) \/ c \in C
    BY Zenon DEF Adds
  <2>. QED BY <2>1, <2>2
<1>3. ASSUME NEW a \in Account, IsDeleted(w, a) PROVE IsDeleted(t, a) \/ a \in F
  <2>1. IsDeleted(u, a) \/ a \in B
    BY <1>3, Zenon DEF Adds
  <2>2. IsDeleted(u, a) => IsDeleted(t, a) \/ a \in A
    BY Zenon DEF Adds
  <2>. QED BY <2>1, <2>2
<1>. QED BY <1>1, <1>2, <1>3, Zenon DEF Adds

\* A row that is made active or not is a row.
LEMMA RowWith ==
  ASSUME NEW b \in BanRow, NEW x \in BOOLEAN
  PROVE  [b EXCEPT !.active = x] \in BanRow
BY DEF BanRow

\* Rows that are deactivated lock nobody and delete nothing.
LEMMA AddsDeactivated ==
  ASSUME NEW t, Table(t), NEW rows
  PROVE  Adds(t, Deactivated(t, rows), {}, {})
<1>. DEFINE u == Deactivated(t, rows)
<1>1. t \in Seq(BanRow)
  BY DEF Table
<1>2. DOMAIN u = DOMAIN t /\ \A k \in DOMAIN t : u[k] = [t[k] EXCEPT !.active = t[k].active /\ k \notin rows]
  BY DEF Deactivated
<1>3. \A k \in DOMAIN t : t[k] \in BanRow
  BY <1>1
<1>4. \A k \in DOMAIN t : u[k] \in BanRow
  <2>. SUFFICES ASSUME NEW k \in DOMAIN t PROVE u[k] \in BanRow
    BY Zenon
  <2>1. u[k] = [t[k] EXCEPT !.active = t[k].active /\ k \notin rows] /\ t[k] \in BanRow
    BY <1>2, <1>3, Zenon
  <2>2. (t[k].active /\ k \notin rows) \in BOOLEAN
    OBVIOUS
  <2>3. PICK x \in BOOLEAN : x = (t[k].active /\ k \notin rows)
    BY <2>2, Zenon
  <2>4. PICK b \in BanRow : b = t[k]
    BY <2>1, Zenon
  <2>5. u[k] = [b EXCEPT !.active = x]
    BY <2>1, <2>3, <2>4, Zenon
  <2>. QED BY <2>5, RowWith, Zenon
<1>5. u \in Seq(BanRow)
  <2>1. DOMAIN t = 1..Len(t) /\ Len(t) \in Nat
    BY <1>1
  <2>2. u = [k \in 1..Len(t) |-> u[k]]
    BY <2>1 DEF Deactivated
  <2>. QED
    BY <1>2, <1>4, <2>1, <2>2
<1>6. \A k \in DOMAIN t : /\ u[k].active => t[k].active
                          /\ u[k].type = t[k].type /\ u[k].value = t[k].value
                          /\ InForce(u[k]) => InForce(t[k])
  BY <1>2, <1>3 DEF BanRow, InForce
<1>. QED
  BY <1>2, <1>5, <1>6, Weaker

\* What each kind of ban adds.
LEMMA AddsIp ==
  ASSUME NEW t, Table(t), NEW i \in Address \cup {NoAddress}, NEW e \in {"zero", "running"}
  PROVE  Adds(t, AddIpBanishment(t, i, e), {}, {})
<1>1. CASE i = NoAddress \/ IsIpBanished(t, i)
  BY <1>1, AddsNothing DEF AddIpBanishment
<1>2. CASE ~(i = NoAddress \/ IsIpBanished(t, i))
  <2> DEFINE u == NewRow(t, "ip", i, e)
  <2>1. AddIpBanishment(t, i, e) = u
    BY <1>2 DEF AddIpBanishment
  <2>2. [type |-> "ip", value |-> i, expires |-> e, active |-> TRUE] \in BanRow
    BY <1>2 DEF BanRow
  <2>3. t \in Seq(BanRow)
    BY DEF Table
  <2>4. Table(u)
    BY <1>2, <2>2, NewRowSingle
  <2>5. /\ \A c : IsNameLocked(u, c) => IsNameLocked(t, c)
        /\ \A a : IsDeleted(u, a) => IsDeleted(t, a)
    BY <2>2, <2>3, NewRowLeaves
  <2>. QED
    BY <2>1, <2>4, <2>5 DEF Adds
<1>. QED
  BY <1>1, <1>2

\* What the column makes of the code's -1.
LEMMA EndlessIs == Endless \in {"zero", "minus"}
BY BansAssumption

\* addNamelock (ban.cpp:262) locks one name.
LEMMA AddsNamelock ==
  ASSUME NEW t, Table(t), NEW c \in Char
  PROVE  Adds(t, AddNamelock(t, c), {c}, {})
<1>1. CASE IsNameLocked(t, c)
  BY <1>1, AddsNothing DEF AddNamelock
<1>2. CASE ~IsNameLocked(t, c)
  <2> DEFINE u == NewRow(t, "namelock", c, Endless)
  <2>1. AddNamelock(t, c) = u
    BY <1>2 DEF AddNamelock
  <2>2. [type |-> "namelock", value |-> c, expires |-> Endless, active |-> TRUE] \in BanRow
    BY EndlessIs DEF BanRow
  <2>3. t \in Seq(BanRow)
    BY DEF Table
  <2>4. Table(u)
    BY <1>2, <2>2, NewRowSingle
  <2>5. /\ \A d : IsNameLocked(u, d) => IsNameLocked(t, d) \/ d = c
        /\ \A a : IsDeleted(u, a) => IsDeleted(t, a)
    BY <2>2, <2>3, NewRowLeaves
  <2>. QED
    BY <2>1, <2>4, <2>5 DEF Adds
<1>. QED
  BY <1>1, <1>2

\* addBanishment (ban.cpp:287) locks no name and deletes no account.
LEMMA AddsBanishment ==
  ASSUME NEW t, Table(t), NEW c \in Char, NEW e \in {"zero", "running"}
  PROVE  Adds(t, AddBanishment(t, c, e), {}, {})
<1>. DEFINE a == AccountOf[c]
<1>1. CASE IsBanished(t, a) \/ IsDeleted(t, a)
  BY <1>1, AddsNothing DEF AddBanishment
<1>2. CASE ~(IsBanished(t, a) \/ IsDeleted(t, a))
  <2> DEFINE u == NewRow(t, "banishment", a, e)
  <2>1. AddBanishment(t, c, e) = u
    BY <1>2 DEF AddBanishment
  <2>0. a \in Account
    BY BansAssumption
  <2>2. [type |-> "banishment", value |-> a, expires |-> e, active |-> TRUE] \in BanRow
    BY <2>0 DEF BanRow
  <2>3. t \in Seq(BanRow)
    BY DEF Table
  <2>4. Table(u)
    BY <2>2, NewRowSingle
  <2>5. /\ \A d : IsNameLocked(u, d) => IsNameLocked(t, d)
        /\ \A b : IsDeleted(u, b) => IsDeleted(t, b)
    BY <2>2, <2>3, NewRowLeaves
  <2>. QED
    BY <2>1, <2>4, <2>5 DEF Adds
<1>. QED
  BY <1>1, <1>2

\* addDeletion (ban.cpp:312) deletes one account, whose banishments end.
LEMMA AddsDeletion ==
  ASSUME NEW t, Table(t), NEW c \in Char
  PROVE  Adds(t, AddDeletion(t, c), {}, {AccountOf[c]})
<1>. DEFINE a == AccountOf[c]
<1>1. CASE IsDeleted(t, a)
  BY <1>1, AddsNothing DEF AddDeletion
<1>2. CASE ~IsDeleted(t, a)
  <2> DEFINE u == NewRow(t, "deletion", a, Endless)
  <2>1. AddDeletion(t, c) = u
    BY <1>2 DEF AddDeletion
  <2>0. a \in Account
    BY BansAssumption
  <2>2. [type |-> "deletion", value |-> a, expires |-> Endless, active |-> TRUE] \in BanRow
    BY <2>0, EndlessIs DEF BanRow
  <2>3. t \in Seq(BanRow)
    BY DEF Table
  <2>4. Table(u)
    BY <1>2, <2>2, NewRowSingle
  <2>5. /\ \A d : IsNameLocked(u, d) => IsNameLocked(t, d)
        /\ \A b : IsDeleted(u, b) => IsDeleted(t, b) \/ b = a
    BY <2>2, <2>3, NewRowLeaves
  <2>. QED
    BY <2>1, <2>4, <2>5 DEF Adds
<1>. QED
  BY <1>1, <1>2

\* addNotation (ban.cpp:336) is a record and no more.
LEMMA AddsNotation ==
  ASSUME NEW t, Table(t), NEW c \in Char
  PROVE  Adds(t, AddNotation(t, c), {}, {})
<1>. DEFINE a == AccountOf[c]
<1>. DEFINE u == NewRow(t, "notation", a, Endless)
<1>0. a \in Account
  BY BansAssumption
<1>2. [type |-> "notation", value |-> a, expires |-> Endless, active |-> TRUE] \in BanRow
  BY <1>0, EndlessIs DEF BanRow
<1>3. t \in Seq(BanRow)
  BY DEF Table
<1>4. Table(u)
  BY <1>2, NewRowSingle
<1>5. /\ \A d : IsNameLocked(u, d) => IsNameLocked(t, d)
      /\ \A b : IsDeleted(u, b) => IsDeleted(t, b)
  BY <1>2, <1>3, NewRowLeaves
<1>. QED
  BY <1>4, <1>5 DEF Adds, AddNotation

\* The accounts that so many warnings delete.
Guilty(a, w) == IF w >= WarningsToDeletion THEN {a} ELSE {}

\* What a warning adds: a ban, or a deletion when it was the last.
LEMMA AddsPunished ==
  ASSUME NEW t, Table(t), NEW c \in Char, NEW w \in Nat
  PROVE  Adds(t, Punished(t, c, w), {}, Guilty(AccountOf[c], w))
<1>1. CASE w >= WarningsToDeletion
  BY <1>1, AddsDeletion DEF Punished, Guilty
<1>2. CASE ~(w >= WarningsToDeletion)
  BY <1>2, AddsBanishment DEF Punished, Guilty
<1>. QED
  BY <1>1, <1>2

\* A sentence locks the name of its victim only if it puts it out, and deletes
\* its account only with the warnings for it.
Just(t, c, w, s) ==
  /\ Adds(t, s.bans, IF s.notation THEN {} ELSE {c}, Guilty(AccountOf[c], s.warnings))
  /\ s.warnings \in Nat /\ s.warnings >= w /\ s.notation \in BOOLEAN

\* The warnings of a sentence.
LEMMA SentenceIs ==
  ASSUME NEW u, NEW w, NEW n
  PROVE  /\ Sentence(u, w, n).bans = u /\ Sentence(u, w, n).warnings = w
         /\ Sentence(u, w, n).notation = n
BY DEF Sentence

\* When a sentence is just.
LEMMA JustIs ==
  ASSUME NEW t, NEW c, NEW w \in Nat, NEW u, NEW v \in Nat, NEW n \in BOOLEAN, v >= w,
         Adds(t, u, IF n THEN {} ELSE {c}, Guilty(AccountOf[c], v))
  PROVE  Just(t, c, w, Sentence(u, v, n))
BY SentenceIs DEF Just

\* A notation, and the ban it may bring (game.cpp:4574).
LEMMA NotationJust ==
  ASSUME NEW t, Table(t), NEW c \in Char, NEW w \in Nat
  PROVE  Just(t, c, w, JudgeNotation(t, c, w))
<1>. DEFINE noted == AddNotation(t, c)
<1>1. Adds(t, noted, {}, {}) /\ Table(noted)
  BY AddsNotation DEF Adds
<1>2. CASE Rows(noted, "notation", Counted(c)) # {}
  <2>1. Adds(noted, Punished(noted, c, w + 1), {}, Guilty(AccountOf[c], w + 1))
    BY <1>1, AddsPunished
  <2>2. Adds(t, Punished(noted, c, w + 1), {c}, Guilty(AccountOf[c], w + 1))
    BY <1>1, <2>1, AddsBoth
  <2>3. w + 1 \in Nat /\ w + 1 >= w
    OBVIOUS
  <2>. QED
    BY <1>2, <2>2, <2>3, JustIs DEF JudgeNotation
<1>3. CASE ~(Rows(noted, "notation", Counted(c)) # {})
  <2>1. Adds(t, noted, {}, Guilty(AccountOf[c], w))
    BY <1>1 DEF Adds
  <2>2. w >= w
    OBVIOUS
  <2>. QED
    BY <1>3, <2>1, <2>2, JustIs DEF JudgeNotation
<1>. QED
  BY <1>2, <1>3

\* A namelock (game.cpp:4597).
LEMMA NamelockJust ==
  ASSUME NEW t, Table(t), NEW c \in Char, NEW w \in Nat
  PROVE  Just(t, c, w, JudgeNamelock(t, c, w))
<1>1. Adds(t, AddNamelock(t, c), {c}, Guilty(AccountOf[c], w))
  BY AddsNamelock DEF Adds
<1>2. w >= w
  OBVIOUS
<1>. QED
  BY <1>1, <1>2, JustIs DEF JudgeNamelock

\* A banishment, perhaps with the name locked.
LEMMA AddsBoldly ==
  ASSUME NEW t, Table(t), NEW c \in Char, NEW lock \in BOOLEAN, NEW A
  PROVE  Adds(t, IF lock THEN AddNamelock(AddBanishment(t, c, "running"), c)
                 ELSE AddBanishment(t, c, "running"), {c}, A)
<1>. DEFINE u == AddBanishment(t, c, "running")
<1>1. Adds(t, u, {}, {}) /\ Table(u)
  BY AddsBanishment DEF Adds
<1>2. Adds(u, AddNamelock(u, c), {c}, {})
  BY <1>1, AddsNamelock
<1>3. Adds(t, AddNamelock(u, c), {c}, A)
  BY <1>1, <1>2, AddsBoth
<1>4. Adds(t, u, {c}, A)
  BY <1>1 DEF Adds
<1>. QED
  BY <1>3, <1>4

\* A ban of the account and the name (game.cpp:4602).
LEMMA BanJust ==
  ASSUME NEW t, Table(t), NEW c \in Char, NEW w \in Nat, NEW lock \in BOOLEAN
  PROVE  /\ Just(t, c, w, JudgeBan(t, c, w, lock))
         /\ Just(t, c, w, JudgeFinally(t, c, w, lock))
<1>. DEFINE u == IF lock THEN AddNamelock(AddBanishment(t, c, "running"), c)
                 ELSE AddBanishment(t, c, "running")
<1>1. CASE w >= WarningsToDeletion
  <2>1. Adds(t, AddDeletion(t, c), {c}, Guilty(AccountOf[c], w))
    BY <1>1, AddsDeletion DEF Adds, Guilty
  <2>2. w >= w
    OBVIOUS
  <2>3. Just(t, c, w, Sentence(AddDeletion(t, c), w, FALSE))
    BY <2>1, <2>2, JustIs
  <2>. QED
    BY <1>1, <2>3 DEF JudgeBan, JudgeFinally
<1>2. CASE ~(w >= WarningsToDeletion)
  <2>1. WarningsToDeletion \in Nat
    BY BansAssumption
  <2>2. w + 1 \in Nat /\ w + 1 >= w /\ WarningsToDeletion >= w
    BY <1>2, <2>1
  <2>3. Just(t, c, w, Sentence(u, w + 1, FALSE))
    BY <2>2, AddsBoldly, JustIs
  <2>4. Just(t, c, w, Sentence(u, WarningsToDeletion, FALSE))
    BY <2>1, <2>2, AddsBoldly, JustIs
  <2>. QED
    BY <1>2, <2>3, <2>4 DEF JudgeBan, JudgeFinally
<1>. QED
  BY <1>1, <1>2

\* Any other sentence (game.cpp:4665).
LEMMA OtherwiseJust ==
  ASSUME NEW t, Table(t), NEW c \in Char, NEW w \in Nat
  PROVE  Just(t, c, w, JudgeOtherwise(t, c, w))
<1>1. Adds(t, Punished(t, c, w + 1), {c}, Guilty(AccountOf[c], w + 1))
  BY AddsPunished DEF Adds
<1>2. w + 1 \in Nat /\ w + 1 >= w
  OBVIOUS
<1>. QED
  BY <1>1, <1>2, JustIs DEF JudgeOtherwise

\* All sentences a gamemaster may choose from.
LEMMA SentencesJust ==
  ASSUME Table(bans), NEW c \in Char, warnings[AccountOf[c]] \in Nat, NEW s \in Sentences(c)
  PROVE  Just(bans, c, warnings[AccountOf[c]], s)
BY NotationJust, NamelockJust, BanJust, OtherwiseJust DEF Sentences

-----------------------------------------------------------------------------
\* Attempts: what one more does to the counts of its address.
LEMMA AttemptCounts ==
  ASSUME BansTypeOK, FewWrong, NEW i \in Address, NEW ok \in BOOLEAN, ~IsIpDisabled(i),
         attempts' = AddLoginAttempt(i, ok)
  PROVE  /\ attempts' \in [Address -> [number : Nat, age : Nat, wrong : Nat]]
         /\ FewWrong'
<1>. DEFINE old == attempts[i]
            n == IF old.number >= MaxTries THEN 0 ELSE old.number
            w == IF old.age >= LoginTimeout THEN 0 ELSE old.wrong
            m == IF ~ok \/ old.age < RetryTimeout THEN n + 1 ELSE 0
            x == IF ok \/ MaxTries = 0 THEN 0 ELSE w + 1
            new == [number |-> m, age |-> 0, wrong |-> x]
<1>0. /\ MaxTries \in Nat /\ RetryTimeout \in Nat /\ LoginTimeout \in Nat
      /\ attempts \in [Address -> [number : Nat, age : Nat, wrong : Nat]]
  BY BansAssumption DEF BansTypeOK
<1>1. attempts' = [attempts EXCEPT ![i] = new]
  BY DEF AddLoginAttempt
<1>2. old.number \in Nat /\ old.age \in Nat /\ old.wrong \in Nat
  BY <1>0
<1>3. n \in Nat /\ w \in Nat /\ m \in Nat /\ x \in Nat
  BY <1>2
<1>4. ASSUME MaxTries # 0
      PROVE  x <= m /\ m <= MaxTries
  <2>1. old.wrong <= old.number /\ old.number <= MaxTries
    BY <1>4 DEF FewWrong
  <2>2. old.number < MaxTries \/ old.age >= LoginTimeout
    BY <1>0, <1>2, <1>4 DEF IsIpDisabled
  <2>3. w <= n /\ n < MaxTries
    BY <1>0, <1>2, <1>4, <2>1, <2>2
  <2>. QED
    BY <1>0, <1>3, <1>4, <2>3
<1>5. new \in [number : Nat, age : Nat, wrong : Nat]
  BY <1>3
<1>. HIDE DEF new
<1>6. attempts' \in [Address -> [number : Nat, age : Nat, wrong : Nat]]
  BY <1>0, <1>1, <1>5
<1>7. new.wrong = x /\ new.number = m
  BY DEF new
<1>. HIDE DEF m, x
<1>8. FewWrong'
  <2>. SUFFICES ASSUME MaxTries # 0, NEW j \in Address
                PROVE  attempts'[j].wrong <= attempts'[j].number /\ attempts'[j].number <= MaxTries
    BY DEF FewWrong
  <2>1. CASE j = i
    BY <1>0, <1>1, <1>4, <1>7, <2>1
  <2>2. CASE j # i
    BY <1>0, <1>1, <2>2 DEF FewWrong
  <2>. QED
    BY <2>1, <2>2
<1>. QED
  BY <1>6, <1>8

\* A second passes.
LEMMA SecondCounts ==
  ASSUME BansTypeOK, FewWrong, Second
  PROVE  /\ attempts' \in [Address -> [number : Nat, age : Nat, wrong : Nat]]
         /\ FewWrong'
<1>1. Longest \in Nat
  BY BansAssumption DEF Longest
<1>2. attempts \in [Address -> [number : Nat, age : Nat, wrong : Nat]]
  BY DEF BansTypeOK
<1>3. \A i \in Address : (IF attempts[i].age < Longest THEN attempts[i].age + 1 ELSE Longest) \in Nat
  BY <1>1, <1>2
<1>4. attempts' = [i \in Address |-> [attempts[i] EXCEPT !.age = IF attempts[i].age < Longest
                                        THEN attempts[i].age + 1 ELSE Longest]]
  BY DEF Second
<1>5. \A i \in Address : /\ attempts'[i] \in [number : Nat, age : Nat, wrong : Nat]
                         /\ attempts'[i].wrong = attempts[i].wrong
                         /\ attempts'[i].number = attempts[i].number
  BY <1>2, <1>3, <1>4
<1>6. attempts' \in [Address -> [number : Nat, age : Nat, wrong : Nat]]
  BY <1>4, <1>5
<1>. QED
  BY <1>5, <1>6 DEF FewWrong

\* Of a deleted account nobody new comes: when what changes the table lets
\* nobody ask, nobody enters who has not asked, a kick stays with whom it is
\* meant for, and nobody of a deleted account asks.
LEMMA NobodyNew ==
  ASSUME BansTypeOK, NobodyEnters, Remember, inGame' \subseteq Char,
         \/ bans' = bans
         \/ \A c \in Char : HasAsked(c)' => HasAsked(c),
         \A c \in inGame' : c \in inGame \/ HasAsked(c),
         \A c \in kicks : c \in inGame' => c \in kicks',
         \A c \in Char : HasAsked(c)' => HasAsked(c) \/ ~IsDeleted(bans, AccountOf[c])
  PROVE  NobodyEnters' /\ spared' \subseteq Char
<1>. DEFINE Late(c) == HasAsked(c)'
<1>1. \A c \in Char : (c \in inGame' \/ Late(c)) /\ c \in spared => c \in spared'
  BY DEF Remember
<1>2. \A c \in Char :
        /\ c \in inGame' \/ Late(c)
        /\ IsDeleted(bans', AccountOf[c]) /\ ~IsDeleted(bans, AccountOf[c])
        /\ HasAsked(c) \/ c \notin kicks'
        => c \in spared'
  BY DEF Remember
<1>3. \A c \in Char : IsDeleted(bans, AccountOf[c]) =>
        /\ c \in inGame => c \in kicks \cup spared
        /\ HasAsked(c) => c \in spared
  BY DEF NobodyEnters
<1>4. ASSUME NEW c \in Char, IsDeleted(bans', AccountOf[c]), c \in inGame'
      PROVE  c \in kicks' \cup spared'
  <2>1. CASE IsDeleted(bans, AccountOf[c])
    BY <1>1, <1>3, <1>4, <2>1
  <2>2. CASE ~IsDeleted(bans, AccountOf[c])
    BY <1>2, <1>4, <2>2
  <2>. QED
    BY <2>1, <2>2
<1>5. ASSUME NEW c \in Char, IsDeleted(bans', AccountOf[c]), Late(c)
      PROVE  c \in spared'
  <2>1. CASE IsDeleted(bans, AccountOf[c])
    BY <1>1, <1>3, <1>5, <2>1
  <2>2. CASE ~IsDeleted(bans, AccountOf[c])
    BY <1>2, <1>5, <2>2
  <2>. QED
    BY <2>1, <2>2
<1>6. spared' \subseteq Char
  BY DEF Remember
<1>7. NobodyEnters'
  BY <1>4, <1>5 DEF NobodyEnters
<1>. QED
  BY <1>6, <1>7

\* What any step has to keep to, for everything to stay as it should be.
LEMMA BansKept ==
  ASSUME BansConsistent, Remember, NEW C, NEW A, Adds(bans, bans', C, A),
         warnings' \in [Account -> Nat],
         \A a \in Account : /\ warnings'[a] >= warnings[a]
                            /\ a \in A => warnings'[a] >= WarningsToDeletion,
         inGame' \subseteq Char, kicks' \subseteq inGame', asking' \cup asked' \subseteq Char \X Address,
         lastip' \in [Char -> Address \cup {NoAddress}],
         attempts' \in [Address -> [number : Nat, age : Nat, wrong : Nat]], FewWrong',
         \A c \in C : c \in inGame' => c \in kicks',
         \A c \in inGame' : c \in inGame \/ (HasAsked(c) /\ ~IsNameLocked(bans', c)),
         \A c \in kicks : c \in inGame' => c \in kicks',
         bans' = bans \/ (\A c \in Char : HasAsked(c)' => HasAsked(c)),
         \A c \in Char : HasAsked(c)' => HasAsked(c) \/ ~IsDeleted(bans, AccountOf[c])
  PROVE  BansConsistent'
<1>0. BansTypeOK /\ OneRow /\ LockedLeave /\ Warned /\ NobodyEnters
  BY DEF BansConsistent
<1>1. NobodyEnters' /\ spared' \subseteq Char
  <2>1. \A c \in inGame' : c \in inGame \/ HasAsked(c)
    OBVIOUS
  <2>. QED
    BY <1>0, <2>1, NobodyNew
<1>2. BansTypeOK'
  BY <1>1 DEF BansTypeOK, Adds, Table, BanRow
<1>3. OneRow'
  BY DEF OneRow, Adds, Table, Single
<1>4. LockedLeave'
  <2>. SUFFICES ASSUME NEW c \in inGame', IsNameLocked(bans', c)
                PROVE  c \in kicks'
    BY DEF LockedLeave
  <2>1. c \in Char /\ c \in inGame
    OBVIOUS
  <2>2. IsNameLocked(bans, c) \/ c \in C
    BY <2>1 DEF Adds
  <2>. QED
    BY <1>0, <2>1, <2>2 DEF LockedLeave
<1>5. Warned'
  <2>. SUFFICES ASSUME NEW a \in Account, IsDeleted(bans', a)
                PROVE  warnings'[a] >= WarningsToDeletion
    BY DEF Warned
  <2>1. IsDeleted(bans, a) \/ a \in A
    BY DEF Adds
  <2>2. warnings[a] \in Nat /\ warnings'[a] \in Nat /\ WarningsToDeletion \in Nat
    BY <1>0, BansAssumption DEF BansTypeOK
  <2>. QED
    BY <1>0, <2>1, <2>2 DEF Warned
<1>. QED
  BY <1>1, <1>2, <1>3, <1>4, <1>5 DEF BansConsistent

\* The table is right, and with nothing new in it nothing is added.
LEMMA TableNow ==
  ASSUME BansConsistent
  PROVE  /\ Table(bans)
         /\ warnings \in [Account -> Nat]
         /\ \A a \in Account : warnings[a] >= warnings[a]
         /\ inGame \subseteq Char /\ kicks \subseteq inGame /\ asking \cup asked \subseteq Char \X Address
         /\ lastip \in [Char -> Address \cup {NoAddress}]
         /\ attempts \in [Address -> [number : Nat, age : Nat, wrong : Nat]] /\ FewWrong
BY DEF BansConsistent, BansTypeOK, OneRow, Table, Single, BanRow

\* A step of the table alone, which locks no name and deletes no account.
LEMMA TableStepKeeps ==
  ASSUME BansConsistent, Remember, Adds(bans, bans', {}, {}),
         UNCHANGED <<warnings, inGame, kicks, asking, asked, lastip, attempts>>
  PROVE  BansConsistent'
<1>1. \A c \in Char : HasAsked(c)' => HasAsked(c)
  BY DEF HasAsked
<1>2. FewWrong'
  BY TableNow DEF FewWrong
<1>. QED
  BY <1>1, <1>2, TableNow, BansKept

\* A packet that is let through or had a wrong password, through either protocol.
LEMMA PacketKeeps ==
  ASSUME BansConsistent, Remember, NEW i \in Address, NEW right \in BOOLEAN,
         MayTry(i), attempts' = AddLoginAttempt(i, right),
         UNCHANGED <<bans, warnings, inGame, kicks, lastip>>,
         \/ UNCHANGED <<asking, asked>>
         \/ \E c \in Char : /\ <<c, i>> \in asking /\ asking' = {}
                           /\ \/ asked' = asked
                              \/ asked' = asked \cup {<<c, i>>}
  PROVE  BansConsistent'
<1>1. attempts' \in [Address -> [number : Nat, age : Nat, wrong : Nat]] /\ FewWrong'
  BY AttemptCounts DEF BansConsistent, MayTry
<1>2. Adds(bans, bans', {}, {})
  BY TableNow, AddsNothing
<1>3. asking' \cup asked' \subseteq asking \cup asked
  OBVIOUS
<1>4. \A c \in Char : HasAsked(c)' => HasAsked(c)
  BY <1>3 DEF HasAsked
<1>5. asking' \cup asked' \subseteq Char \X Address
  BY <1>3, TableNow
<1>. QED
  BY <1>1, <1>2, <1>4, <1>5, TableNow, BansKept

\* ProtocolGame::parseFirstPacket asks whether the account is deleted.
LEMMA FirstPacketKeeps ==
  ASSUME BansConsistent, Remember, NEW c \in Char, NEW i \in Address, ParseFirstPacket(c, i)
  PROVE  BansConsistent'
<1>0. /\ ~IsDeleted(bans, AccountOf[c]) /\ asking' = {<<c, i>>}
      /\ UNCHANGED <<bans, warnings, inGame, kicks, asked, lastip, attempts>>
  BY DEF ParseFirstPacket
<1>1. Adds(bans, bans', {}, {})
  BY <1>0, TableNow, AddsNothing
<1>2. FewWrong'
  BY <1>0, TableNow DEF FewWrong
<1>3. asking' \cup asked' \subseteq Char \X Address
  BY <1>0, TableNow
<1>4. \A d \in Char : HasAsked(d)' => HasAsked(d) \/ ~IsDeleted(bans, AccountOf[d])
  <2>. SUFFICES ASSUME NEW d \in Char, HasAsked(d)', ~HasAsked(d)
                PROVE  ~IsDeleted(bans, AccountOf[d])
    OBVIOUS
  <2>1. PICK j \in Address : <<d, j>> \in asking' \cup asked' /\ <<d, j>> \notin asking \cup asked
    BY DEF HasAsked
  <2>. QED
    BY <1>0, <2>1
<1>. QED
  BY <1>0, <1>1, <1>2, <1>3, <1>4, TableNow, BansKept

\* The rest of it, up to the task.
LEMMA AddLoginTaskKeeps ==
  ASSUME BansConsistent, Remember, NEW c \in Char, NEW i \in Address, NEW right \in BOOLEAN,
         AddLoginTask(c, i, right)
  PROVE  BansConsistent'
<1>0. /\ <<c, i>> \in asking /\ asking' = {}
      /\ UNCHANGED <<bans, warnings, inGame, kicks, lastip>>
  BY DEF AddLoginTask
<1>1. CASE MayTry(i)
  BY <1>0, <1>1, PacketKeeps DEF AddLoginTask
<1>2. CASE ~MayTry(i)
  <2>1. UNCHANGED <<attempts, asked>>
    BY <1>2 DEF AddLoginTask
  <2>2. Adds(bans, bans', {}, {})
    BY <1>0, TableNow, AddsNothing
  <2>3. \A d \in Char : HasAsked(d)' => HasAsked(d)
    BY <1>0, <2>1 DEF HasAsked
  <2>4. FewWrong'
    BY <2>1, TableNow DEF FewWrong
  <2>5. asking' \cup asked' \subseteq Char \X Address
    BY <1>0, <2>1, TableNow
  <2>. QED
    BY <1>0, <2>1, <2>2, <2>3, <2>4, <2>5, TableNow, BansKept
<1>. QED
  BY <1>1, <1>2

\* The login on the game thread (protocolgame.cpp:128).
LEMMA LoginTaskKeeps ==
  ASSUME BansConsistent, Remember, NEW c \in Char, NEW i \in Address, LoginTask(c, i)
  PROVE  BansConsistent'
<1>0. <<c, i>> \in asked /\ asked' = asked \ {<<c, i>>}
      /\ UNCHANGED <<bans, warnings, kicks, asking, attempts>>
  BY DEF LoginTask
<1>1. Adds(bans, bans', {}, {})
  BY <1>0, TableNow, AddsNothing
<1>2. HasAsked(c) /\ \A d \in Char : HasAsked(d)' => HasAsked(d)
  BY <1>0 DEF HasAsked
<1>3. FewWrong'
  BY <1>0, TableNow DEF FewWrong
<1>4. CASE /\ c \in inGame \/ MayEnter(c)
           /\ inGame' = inGame \cup {c} /\ lastip' = [lastip EXCEPT ![c] = i]
  <2>1. \A d \in inGame' : d \in inGame \/ (HasAsked(d) /\ ~IsNameLocked(bans', d))
    BY <1>0, <1>2, <1>4 DEF MayEnter
  <2>2. lastip' \in [Char -> Address \cup {NoAddress}]
    BY <1>4, TableNow
  <2>3. inGame' \subseteq Char /\ kicks' \subseteq inGame'
    BY <1>0, <1>4, TableNow
  <2>4. asking' \cup asked' \subseteq Char \X Address
    BY <1>0, TableNow
  <2>. QED
    BY <1>0, <1>1, <1>2, <1>3, <2>1, <2>2, <2>3, <2>4, TableNow, BansKept
<1>5. CASE UNCHANGED <<inGame, lastip>>
  <2>1. asking' \cup asked' \subseteq Char \X Address
    BY <1>0, TableNow
  <2>. QED
    BY <1>0, <1>1, <1>2, <1>3, <1>5, <2>1, TableNow, BansKept
<1>. QED
  BY <1>4, <1>5 DEF LoginTask

\* A player leaves.
LEMMA LeaveKeeps ==
  ASSUME BansConsistent, Remember, NEW c \in Char, Leave(c)
  PROVE  BansConsistent'
<1>0. /\ inGame' = inGame \ {c} /\ kicks' = kicks \ {c}
      /\ UNCHANGED <<bans, warnings, asking, asked, lastip, attempts>>
  BY DEF Leave
<1>1. Adds(bans, bans', {}, {})
  BY <1>0, TableNow, AddsNothing
<1>2. \A d \in Char : HasAsked(d)' => HasAsked(d)
  BY <1>0 DEF HasAsked
<1>3. FewWrong'
  BY <1>0, TableNow DEF FewWrong
<1>4. inGame' \subseteq Char /\ kicks' \subseteq inGame'
  BY <1>0, TableNow
<1>5. \A d \in kicks : d \in inGame' => d \in kicks'
  BY <1>0
<1>. QED
  BY <1>0, <1>1, <1>2, <1>3, <1>4, <1>5, TableNow, BansKept

\* The violation window (game.cpp:4469): the one it sentences is kicked.
LEMMA ViolationWindowKeeps ==
  ASSUME BansConsistent, Remember, NEW c \in Char, NEW banIp \in BOOLEAN, ViolationWindow(c, banIp)
  PROVE  BansConsistent'
<1>. DEFINE a == AccountOf[c]
<1>0. a \in Account
  BY BansAssumption
<1>1. PICK s \in Sentences(c) :
        /\ bans' = IF banIp THEN AddIpBanishment(s.bans, lastip[c], "running") ELSE s.bans
        /\ warnings' = [warnings EXCEPT ![a] = s.warnings]
        /\ kicks' = IF c \in inGame /\ ~s.notation THEN kicks \cup {c} ELSE kicks
  BY DEF ViolationWindow
<1>2. UNCHANGED <<inGame, asking, asked, lastip, attempts>>
  BY DEF ViolationWindow
<1>. DEFINE C == IF s.notation THEN {} ELSE {c}
            A == Guilty(a, s.warnings)
<1>3. /\ Adds(bans, s.bans, C, A)
      /\ s.warnings \in Nat /\ s.warnings >= warnings[a] /\ s.notation \in BOOLEAN
  BY <1>0, TableNow, SentencesJust DEF Just
<1>4. Adds(bans, bans', C, A)
  <2>1. CASE banIp
    <3>1. Table(s.bans) /\ lastip[c] \in Address \cup {NoAddress}
      BY <1>3, TableNow DEF Adds
    <3>2. Adds(s.bans, bans', {}, {})
      BY <1>1, <2>1, <3>1, AddsIp
    <3>. HIDE DEF C, A
    <3>. QED
      BY <1>3, <3>2, AddsBoth
  <2>2. CASE ~banIp
    BY <1>1, <1>3, <2>2
  <2>. QED
    BY <2>1, <2>2
<1>5. warnings' \in [Account -> Nat]
  BY <1>0, <1>1, <1>3, TableNow
<1>6. \A b \in Account : /\ warnings'[b] >= warnings[b]
                         /\ b \in A => warnings'[b] >= WarningsToDeletion
  BY <1>0, <1>1, <1>3, TableNow DEF Guilty
<1>7. \A d \in C : d \in inGame' => d \in kicks'
  BY <1>1, <1>2
<1>8. kicks' \subseteq inGame' /\ \A d \in kicks : d \in kicks'
  BY <1>1, <1>2, TableNow
<1>9. \A d \in Char : HasAsked(d)' => HasAsked(d)
  BY <1>2 DEF HasAsked
<1>10. FewWrong'
  BY <1>2, TableNow DEF FewWrong
<1>. HIDE DEF C, A
<1>. QED
  BY <1>2, <1>4, <1>5, <1>6, <1>7, <1>8, <1>9, <1>10, TableNow, BansKept

\* A ban for unjustified kills (player.cpp:3783).
LEMMA UnjustifiedKeeps ==
  ASSUME BansConsistent, Remember, NEW c \in Char, AddUnjustifiedDead(c)
  PROVE  BansConsistent'
<1>. DEFINE a == AccountOf[c]
            A == Guilty(a, warnings[a])
<1>0. a \in Account
  BY BansAssumption
<1>1. /\ c \in inGame /\ bans' = Punished(bans, c, warnings[a]) /\ kicks' = kicks \cup {c}
      /\ UNCHANGED <<warnings, inGame, asking, asked, lastip, attempts>>
  BY DEF AddUnjustifiedDead
<1>2. Adds(bans, bans', {}, A)
  BY <1>0, <1>1, TableNow, AddsPunished
<1>3. \A b \in Account : b \in A => warnings'[b] >= WarningsToDeletion
  BY <1>1 DEF Guilty
<1>4. kicks' \subseteq inGame' /\ \A d \in kicks : d \in kicks'
  BY <1>1, TableNow
<1>5. \A d \in Char : HasAsked(d)' => HasAsked(d)
  BY <1>1 DEF HasAsked
<1>6. FewWrong'
  BY <1>1, TableNow DEF FewWrong
<1>. HIDE DEF A
<1>. QED
  BY <1>1, <1>2, <1>3, <1>4, <1>5, <1>6, TableNow, BansKept

\* The scripts (luascript.cpp:7891).
LEMMA LuaKeeps ==
  ASSUME BansConsistent, Remember, LuaStep
  PROVE  BansConsistent'
<1>1. Adds(bans, bans', {}, {})
  <2>1. ASSUME NEW c \in Char, LuaRemoveBan(c)
        PROVE  Adds(bans, bans', {}, {})
    BY <2>1, TableNow, AddsDeactivated DEF LuaRemoveBan, RemoveBanishment
  <2>2. ASSUME NEW c \in Char, NEW e \in {"zero", "running"}, LuaAddBan(c, e)
        PROVE  Adds(bans, bans', {}, {})
    BY <2>2, TableNow, AddsBanishment DEF LuaAddBan
  <2>3. ASSUME NEW i \in Address, LuaRemoveIPBan(i)
        PROVE  Adds(bans, bans', {}, {})
    BY <2>3, TableNow, AddsDeactivated DEF LuaRemoveIPBan, RemoveIpBanishment
  <2>4. ASSUME NEW i \in Address, NEW e \in {"zero", "running"}, LuaAddIPBan(i, e)
        PROVE  Adds(bans, bans', {}, {})
    BY <2>4, TableNow, AddsIp DEF LuaAddIPBan
  <2>. QED
    BY <2>1, <2>2, <2>3, <2>4 DEF LuaStep
<1>. QED
  BY <1>1, TableStepKeeps DEF LuaStep

\* The global save removes what is over (game.cpp:158).
LEMMA SaveKeeps ==
  ASSUME BansConsistent, Remember, GlobalSave
  PROVE  BansConsistent'
<1>1. Adds(bans, bans', {}, {})
  BY TableNow, AddsDeactivated DEF GlobalSave, ClearTemporaryBans
<1>. QED
  BY <1>1, TableStepKeeps DEF GlobalSave

\* The time of a ban runs out.
LEMMA ExpireKeeps ==
  ASSUME BansConsistent, Remember, NEW k \in DOMAIN bans, Expire(k)
  PROVE  BansConsistent'
<1>0. bans \in Seq(BanRow) /\ Table(bans)
  BY TableNow DEF Table
<1>. DEFINE r == [bans[k] EXCEPT !.expires = "over"]
<1>1. bans' = [bans EXCEPT ![k] = r] /\ bans[k] \in BanRow /\ bans[k].expires = "running"
  BY <1>0 DEF Expire
<1>2. r \in BanRow /\ r.active = bans[k].active /\ r.type = bans[k].type
      /\ r.value = bans[k].value /\ ~InForce(r)
  BY <1>1 DEF BanRow, InForce
<1>. HIDE DEF r
<1>3. bans' \in Seq(BanRow) /\ DOMAIN bans' = DOMAIN bans
  BY <1>0, <1>1, <1>2
<1>4. \A j \in DOMAIN bans : /\ bans'[j].active => bans[j].active
                             /\ bans'[j].type = bans[j].type /\ bans'[j].value = bans[j].value
                             /\ InForce(bans'[j]) => InForce(bans[j])
  BY <1>1, <1>2
<1>5. Adds(bans, bans', {}, {})
  BY <1>0, <1>3, <1>4, Weaker
<1>. QED
  BY <1>5, TableStepKeeps DEF Expire

\* A second passes.
LEMMA SecondKeeps ==
  ASSUME BansConsistent, Remember, Second
  PROVE  BansConsistent'
<1>1. attempts' \in [Address -> [number : Nat, age : Nat, wrong : Nat]] /\ FewWrong'
  BY SecondCounts DEF BansConsistent
<1>2. UNCHANGED <<bans, warnings, inGame, kicks, asking, asked, lastip>>
  BY DEF Second
<1>3. Adds(bans, bans', {}, {})
  BY <1>2, TableNow, AddsNothing
<1>4. \A c \in Char : HasAsked(c)' => HasAsked(c)
  BY <1>2 DEF HasAsked
<1>. QED
  BY <1>1, <1>2, <1>3, <1>4, TableNow, BansKept

\* Every step of the bans.
LEMMA BansNextKeeps ==
  ASSUME BansConsistent, [BansNext]_bansVars
  PROVE  BansConsistent'
<1>1. CASE UNCHANGED bansVars
  <2>1. /\ bans' = bans /\ warnings' = warnings /\ inGame' = inGame /\ kicks' = kicks
        /\ asking' = asking /\ asked' = asked /\ lastip' = lastip /\ attempts' = attempts /\ spared' = spared
    BY <1>1 DEF bansVars
  <2>. QED
    BY <2>1 DEF BansConsistent, BansTypeOK, OneRow, FewWrong, LockedLeave, Warned, NobodyEnters,
                HasAsked
<1>2. CASE BansNext
  <2>0. Remember /\ BansStep
    BY <1>2 DEF BansNext
  <2>1. ASSUME NEW a \in Account, NEW i \in Address, NEW right \in BOOLEAN,
               CharacterList(a, i, right)
        PROVE  BansConsistent'
    BY <2>0, <2>1, PacketKeeps DEF CharacterList
  <2>2. ASSUME NEW c \in Char, NEW i \in Address, NEW right \in BOOLEAN,
               ParseFirstPacket(c, i) \/ AddLoginTask(c, i, right)
        PROVE  BansConsistent'
    BY <2>0, <2>2, FirstPacketKeeps, AddLoginTaskKeeps
  <2>3. ASSUME NEW c \in Char, NEW i \in Address, LoginTask(c, i)
        PROVE  BansConsistent'
    BY <2>0, <2>3, LoginTaskKeeps
  <2>4. ASSUME NEW c \in Char, Leave(c) \/ KickPlayer(c)
        PROVE  BansConsistent'
    BY <2>0, <2>4, LeaveKeeps DEF KickPlayer
  <2>5. ASSUME NEW c \in Char, AddUnjustifiedDead(c)
        PROVE  BansConsistent'
    BY <2>0, <2>5, UnjustifiedKeeps
  <2>6. ASSUME NEW c \in Char, NEW banIp \in BOOLEAN, ViolationWindow(c, banIp)
        PROVE  BansConsistent'
    BY <2>0, <2>6, ViolationWindowKeeps
  <2>7. ASSUME LuaStep \/ GlobalSave \/ Second
        PROVE  BansConsistent'
    BY <2>0, <2>7, LuaKeeps, SaveKeeps, SecondKeeps
  <2>8. ASSUME NEW k \in DOMAIN bans, Expire(k)
        PROVE  BansConsistent'
    BY <2>0, <2>8, ExpireKeeps
  <2>. QED
    BY <2>0, <2>1, <2>2, <2>3, <2>4, <2>5, <2>6, <2>7, <2>8 DEF BansStep
<1>. QED
  BY <1>1, <1>2

\* The state of the start.
LEMMA BansStart == BansInit => BansConsistent
<1>. SUFFICES ASSUME BansInit PROVE BansConsistent
  OBVIOUS
<1>1. /\ bans = << >> /\ inGame = {} /\ kicks = {} /\ asking = {} /\ asked = {} /\ spared = {}
      /\ warnings = [a \in Account |-> 0] /\ lastip = [c \in Char |-> NoAddress]
      /\ attempts = [i \in Address |-> Rested]
  BY DEF BansInit
<1>2. Longest \in Nat
  BY BansAssumption DEF Longest
<1>3. BansTypeOK
  <2>1. bans \in Seq(BanRow)
    BY <1>1
  <2>. QED
    BY <1>1, <1>2, <2>1 DEF BansTypeOK, BanRow, Rested
<1>4. OneRow /\ LockedLeave
  BY <1>1 DEF OneRow, LockedLeave
<1>5. \A y, v : Rows(bans, y, v) = {}
  BY <1>1 DEF Rows
<1>6. Warned /\ NobodyEnters
  BY <1>5 DEF Warned, NobodyEnters, IsDeleted
<1>7. FewWrong
  BY <1>1, BansAssumption DEF FewWrong, Rested
<1>. QED
  BY <1>3, <1>4, <1>6, <1>7 DEF BansConsistent

\* The table of bans, who is in the game in spite of it, and the counts of
\* attempts stay as they should be, for any accounts, addresses and limits.
THEOREM BansAlwaysConsistent == BansSpec => []BansConsistent
BY BansStart, BansNextKeeps, PTL DEF BansSpec

-----------------------------------------------------------------------------
(* The tables, and what a save writes.                                     *)

\* Among numbers there is a least one.
LEMMA LeastOne ==
  ASSUME NEW S \in SUBSET Nat, S # {}
  PROVE  \E n \in S : \A m \in S : n <= m
<1>. DEFINE R == {q \in Nat \X Nat : q[1] < q[2]}
<1>1. IsWellFoundedOn(R, Nat)
  BY NatLessThanWellFounded DEF OpToRel
<1>2. \A m, n \in Nat : m < n => <<m, n>> \in R
  OBVIOUS
<1>. HIDE DEF R
<1>3. PICK n \in S : \A y \in S : ~(<<y, n>> \in R)
  BY <1>1, WFMin
<1>4. \A m \in S : n <= m
  <2>. SUFFICES ASSUME NEW m \in S PROVE n <= m
    OBVIOUS
  <2>1. m \in Nat /\ n \in Nat
    OBVIOUS
  <2>2. ~(m < n)
    BY <1>2, <1>3, <2>1
  <2>. QED BY <2>1, <2>2
<1>. QED BY <1>4

\* What holds at zero and is handed on up to N holds up to N.
LEMMA HandedOn ==
  ASSUME NEW N \in Nat, NEW T, 0 \in T, \A n \in Nat : n \in T /\ n < N => n + 1 \in T
  PROVE  \A n \in 0..N : n \in T
<1>. DEFINE B == (0..N) \ T
<1>. SUFFICES ASSUME B # {} PROVE FALSE
  OBVIOUS
<1>1. B \subseteq Nat
  OBVIOUS
<1>. HIDE DEF B
<1>2. PICK m \in B : \A j \in B : m <= j
  BY <1>1, LeastOne
<1>3. m \in 0..N /\ m \notin T
  BY DEF B
<1>4. m # 0 /\ m - 1 \in Nat /\ m - 1 < N
  BY <1>3
<1>5. m - 1 \in T
  <2>. SUFFICES ASSUME m - 1 \notin T PROVE FALSE
    OBVIOUS
  <2>1. m - 1 \in B
    BY <1>4 DEF B
  <2>. QED BY <1>2, <1>3, <2>1
<1>6. (m - 1) + 1 = m
  BY <1>3
<1>. QED BY <1>3, <1>4, <1>5, <1>6

\* The tables: three with a row, or rows, for each player, and three of the
\* houses.
Tables(d) ==
  /\ DOMAIN d = {"bag", "depot", "money", "tiles", "store", "guests"}
  /\ d = [u \in DOMAIN d |-> d[u]]
  /\ \A u \in {"bag", "depot", "money"} : d[u] = [p \in Owners |-> d[u][p]]

\* One set of tables is another but for the table u, or for one row of it.
ButTable(e, d, u)  == \A v \in {"bag", "depot", "money", "tiles", "store", "guests"} : v # u => e[v] = d[v]
ButRow(e, d, u, p) == ButTable(e, d, u) /\ \A q \in Owners : q # p => e[u][q] = d[u][q]

\* A statement changes a row of a player's table.
LEMMA RowWritten ==
  ASSUME NEW d, Tables(d), NEW u \in {"bag", "depot", "money"}, NEW p \in Owners, NEW v,
         NEW e, e = Execute(d, Statement(u, p, v))
  PROVE  Tables(e) /\ ButRow(e, d, u, p) /\ e[u][p] = v
<1>1. e = [d EXCEPT ![u] = [d[u] EXCEPT ![p] = v]]
  BY DEF Execute, Statement
<1>. DEFINE w == [d[u] EXCEPT ![p] = v]
<1>2. d[u] = [q \in Owners |-> d[u][q]]
  BY DEF Tables
<1>3. w = [q \in Owners |-> w[q]] /\ w[p] = v /\ \A q \in Owners : q # p => w[q] = d[u][q]
  BY <1>2
<1>. HIDE DEF w
<1>4. e = [d EXCEPT ![u] = w]
  BY <1>1 DEF w
<1>5. e = [x \in DOMAIN d |-> IF x = u THEN w ELSE d[x]]
  BY <1>4, Zenon DEF Tables
<1>6. DOMAIN e = DOMAIN d /\ e[u] = w /\ ButTable(e, d, u)
  BY <1>5 DEF Tables, ButTable
<1>7. e = [x \in DOMAIN e |-> e[x]]
  BY <1>5
<1>8. \A x \in {"bag", "depot", "money"} : e[x] = [q \in Owners |-> e[x][q]]
  <2>. SUFFICES ASSUME NEW x \in {"bag", "depot", "money"} PROVE e[x] = [q \in Owners |-> e[x][q]]
    OBVIOUS
  <2>1. CASE x = u
    BY <1>3, <1>6, <2>1
  <2>2. CASE x # u
    <3>1. e[x] = d[x]
      BY <1>6, <2>2 DEF ButTable
    <3>2. d[x] = [q \in Owners |-> d[x][q]]
      BY DEF Tables
    <3>. QED BY <3>1, <3>2
  <2>. QED BY <2>1, <2>2
<1>. QED BY <1>3, <1>6, <1>7, <1>8, SMTT(30) DEF Tables, ButRow

\* A statement changes a table of the houses.
LEMMA TableWritten ==
  ASSUME NEW d, Tables(d), NEW u \in {"tiles", "store", "guests"}, NEW p, NEW v,
         NEW e, e = Execute(d, Statement(u, p, v))
  PROVE  Tables(e) /\ ButTable(e, d, u) /\ e[u] = v
<1>1. e = [d EXCEPT ![u] = v]
  BY DEF Execute, Statement
<1>2. e = [x \in DOMAIN d |-> IF x = u THEN v ELSE d[x]]
  BY <1>1, Zenon DEF Tables
<1>3. DOMAIN e = DOMAIN d /\ e[u] = v /\ ButTable(e, d, u)
  BY <1>2 DEF Tables, ButTable
<1>4. e = [x \in DOMAIN e |-> e[x]]
  BY <1>2
<1>5. \A x \in {"bag", "depot", "money"} : e[x] = [q \in Owners |-> e[x][q]]
  BY <1>3 DEF Tables, ButTable
<1>. QED BY <1>3, <1>4, <1>5 DEF Tables

-----------------------------------------------------------------------------
(* Statements, one after the other.                                        *)

\* What the first statements make of the tables.
IsDone(d, sts, m, f) ==
  f = [n \in 0..m |-> IF n = 0 THEN d ELSE Execute(f[n - 1], sts[n])]

\* There is such a function: one statement after the other.
LEMMA DoneExists ==
  ASSUME NEW d, NEW sts, NEW N \in Nat
  PROVE  \E f : IsDone(d, sts, N, f)
<1>. DEFINE T == {m \in Nat : \E f : IsDone(d, sts, m, f)}
<1>1. 0 \in T
  <2>. DEFINE f == [n \in 0..0 |-> d]
  <2>1. IsDone(d, sts, 0, f)
    BY DEF IsDone
  <2>. QED BY <2>1
<1>2. ASSUME NEW m \in Nat, m \in T, m < N PROVE m + 1 \in T
  <2>1. PICK g : IsDone(d, sts, m, g)
    BY <1>2
  <2>. DEFINE f == [n \in 0..(m + 1) |-> IF n = 0 THEN d ELSE Execute(g[n - 1], sts[n])]
  <2>2. \A n \in 0..m : f[n] = g[n]
    <3>. SUFFICES ASSUME NEW n \in 0..m PROVE f[n] = g[n]
      OBVIOUS
    <3>1. n \in 0..(m + 1)
      OBVIOUS
    <3>. QED BY <2>1, <3>1 DEF IsDone
  <2>3. \A n \in 0..(m + 1) : n # 0 => n - 1 \in 0..m
    OBVIOUS
  <2>4. \A n \in 0..(m + 1) : n # 0 => f[n - 1] = g[n - 1]
    BY <2>2, <2>3
  <2>5. IsDone(d, sts, m + 1, f)
    BY <2>4 DEF IsDone
  <2>. QED BY <2>5
<1>. HIDE DEF T
<1>3. N \in T
  <2>1. \A n \in Nat : n \in T /\ n < N => n + 1 \in T
    BY <1>2
  <2>2. N \in Nat /\ 0 \in T
    BY <1>1
  <2>3. \A n \in 0..N : n \in T
    BY <2>1, <2>2, HandedOn, Zenon
  <2>4. N \in 0..N
    BY <2>2
  <2>. QED BY <2>3, <2>4, Zenon
<1>. QED BY <1>3 DEF T

\* Each statement is executed on what those before it have left.
InTurn(d, sts, f) ==
  /\ f[0] = d /\ Executed(d, sts) = f[Len(sts)]
  /\ \A n \in 1..Len(sts) : f[n] = Execute(f[n - 1], sts[n])

LEMMA ExecutedIs ==
  ASSUME NEW d, NEW sts, Len(sts) \in Nat
  PROVE  \E f : InTurn(d, sts, f)
<1>. DEFINE f == CHOOSE f : IsDone(d, sts, Len(sts), f)
<1>1. IsDone(d, sts, Len(sts), f)
  BY DoneExists
<1>2. Executed(d, sts) = f[Len(sts)]
  BY DEF Executed, IsDone
<1>. HIDE DEF f
<1>3. f[0] = d
  <2>1. 0 \in 0..Len(sts)
    OBVIOUS
  <2>. QED BY <1>1, <2>1 DEF IsDone
<1>4. ASSUME NEW n \in 1..Len(sts) PROVE f[n] = Execute(f[n - 1], sts[n])
  <2>1. n \in 0..Len(sts) /\ n # 0
    OBVIOUS
  <2>. QED BY <1>1, <2>1 DEF IsDone
<1>5. InTurn(d, sts, f)
  BY <1>2, <1>3, <1>4 DEF InTurn
<1>. QED BY <1>5

\* One statement, two, and five.
LEMMA OneExecuted ==
  ASSUME NEW d, NEW a
  PROVE  Executed(d, <<a>>) = Execute(d, a)
<1>. DEFINE s == <<a>>
<1>0. Len(s) = 1 /\ Len(s) \in Nat /\ s[1] = a
  OBVIOUS
<1>. HIDE DEF s
<1>. PICK f : InTurn(d, s, f)
  BY <1>0, ExecutedIs, Zenon
<1>1. /\ f[0] = d /\ Executed(d, s) = f[Len(s)]
      /\ \A n \in 1..Len(s) : f[n] = Execute(f[n - 1], s[n])
  BY DEF InTurn
<1>2. f[1] = Execute(f[0], a)
  BY <1>0, <1>1
<1>3. Executed(d, s) = Execute(d, a)
  BY <1>0, <1>1, <1>2
<1>. QED BY <1>3 DEF s

LEMMA TwoExecuted ==
  ASSUME NEW d, NEW a, NEW b
  PROVE  Executed(d, <<a, b>>) = Execute(Execute(d, a), b)
<1>. DEFINE s == <<a, b>>
<1>0. Len(s) = 2 /\ Len(s) \in Nat /\ s[1] = a /\ s[2] = b
  OBVIOUS
<1>. HIDE DEF s
<1>. PICK f : InTurn(d, s, f)
  BY <1>0, ExecutedIs, Zenon
<1>1. /\ f[0] = d /\ Executed(d, s) = f[Len(s)]
      /\ \A n \in 1..Len(s) : f[n] = Execute(f[n - 1], s[n])
  BY DEF InTurn
<1>2. f[1] = Execute(f[0], a) /\ f[2] = Execute(f[1], b)
  BY <1>0, <1>1
<1>3. Executed(d, s) = Execute(Execute(d, a), b)
  BY <1>0, <1>1, <1>2
<1>. QED BY <1>3 DEF s

LEMMA FiveExecuted ==
  ASSUME NEW d, NEW a, NEW b, NEW c, NEW m, NEW e
  PROVE  Executed(d, <<a, b, c, m, e>>) = Execute(Execute(Execute(Execute(Execute(d, a), b), c), m), e)
<1>. DEFINE s == <<a, b, c, m, e>>
<1>0. Len(s) = 5 /\ Len(s) \in Nat /\ s[1] = a /\ s[2] = b /\ s[3] = c /\ s[4] = m /\ s[5] = e
  OBVIOUS
<1>. HIDE DEF s
<1>. PICK f : InTurn(d, s, f)
  BY <1>0, ExecutedIs, Zenon
<1>1. /\ f[0] = d /\ Executed(d, s) = f[Len(s)]
      /\ \A n \in 1..Len(s) : f[n] = Execute(f[n - 1], s[n])
  BY DEF InTurn
<1>2. /\ f[1] = Execute(f[0], a) /\ f[2] = Execute(f[1], b) /\ f[3] = Execute(f[2], c)
      /\ f[4] = Execute(f[3], m) /\ f[5] = Execute(f[4], e)
  BY <1>0, <1>1
<1>3. Executed(d, s) = Execute(Execute(Execute(Execute(Execute(d, a), b), c), m), e)
  BY <1>0, <1>1, <1>2
<1>. QED BY <1>3 DEF s

-----------------------------------------------------------------------------
(* A player that is saved.                                                 *)

\* What is written of a player.
RowsOf(c, m, p) == <<PlayerRows(c, c[Slot[p]]), PlayerRows(c, <<Locker[p]>>), m>>

\* One set of tables is another but for what belongs to one player.
ButPlayer(e, d, p) ==
  /\ e.tiles = d.tiles /\ e.store = d.store /\ e.guests = d.guests
  /\ \A q \in Owners : q # p => Record(e, q) = Record(d, q)

\* A save that is made writes what the player has, whatever was there, and
\* leaves the others and the houses.
LEMMA SavedIs ==
  ASSUME NEW d, Tables(d), NEW c, NEW m, NEW p \in Owners,
         NEW e, e = SavePlayer(d, c, m, p, PlayerSteps)
  PROVE  Tables(e) /\ ButPlayer(e, d, p) /\ Record(e, p) = RowsOf(c, m, p)
<1>. DEFINE r == PlayerRows(c, c[Slot[p]])
            l == PlayerRows(c, <<Locker[p]>>)
            s1 == Statement("money", p, m)
            s2 == Statement("bag", p, <<>>)
            s3 == Statement("depot", p, <<>>)
            s4 == Statement("bag", p, r)
            s5 == Statement("depot", p, l)
<1>1. PlayerStatements(c, m, p) = <<s1, s2, s3, s4, s5>>
  BY DEF PlayerStatements
<1>. HIDE DEF s1, s2, s3, s4, s5, r, l
<1>2. e = Executed(d, <<s1, s2, s3, s4, s5>>)
  BY <1>1 DEF SavePlayer, Transaction, PlayerSteps
<1>. DEFINE e1 == Execute(d, s1)
            e2 == Execute(e1, s2)
            e3 == Execute(e2, s3)
            e4 == Execute(e3, s4)
            e5 == Execute(e4, s5)
<1>3. e = e5
  BY <1>2, FiveExecuted
<1>4. Tables(e1) /\ ButRow(e1, d, "money", p) /\ e1["money"][p] = m
  BY RowWritten DEF s1
<1>. HIDE DEF e1
<1>5. Tables(e2) /\ ButRow(e2, e1, "bag", p)
  BY <1>4, RowWritten DEF s2
<1>. HIDE DEF e2
<1>6. Tables(e3) /\ ButRow(e3, e2, "depot", p)
  BY <1>5, RowWritten DEF s3
<1>. HIDE DEF e3
<1>7. Tables(e4) /\ ButRow(e4, e3, "bag", p) /\ e4["bag"][p] = r
  BY <1>6, RowWritten DEF s4
<1>. HIDE DEF e4
<1>8. Tables(e5) /\ ButRow(e5, e4, "depot", p) /\ e5["depot"][p] = l
  BY <1>7, RowWritten DEF s5
<1>. HIDE DEF e5
<1>9. ButPlayer(e5, d, p)
  BY <1>4, <1>5, <1>6, <1>7, <1>8 DEF ButPlayer, ButRow, ButTable, Record
<1>10. Record(e5, p) = RowsOf(c, m, p)
  BY <1>4, <1>5, <1>6, <1>7, <1>8 DEF ButRow, ButTable, Record, RowsOf, r, l
<1>. QED BY <1>3, <1>8, <1>9, <1>10

\* A save that breaks changes nothing.
LEMMA BrokenSave ==
  ASSUME NEW d, NEW c, NEW m, NEW p, NEW n, n # PlayerSteps
  PROVE  SavePlayer(d, c, m, p, n) = d
<1>1. Len(PlayerStatements(c, m, p)) = 5
  BY DEF PlayerStatements
<1>. QED BY <1>1 DEF SavePlayer, Transaction, PlayerSteps

-----------------------------------------------------------------------------
(* Players that are saved one after the other, and the houses.             *)

\* What saving the first players makes of the tables.
IsKept(players, m, f) ==
  f = [i \in 0..m |-> IF i = 0 THEN db ELSE SavePlayer(f[i - 1], content, money[players[i]], players[i], PlayerSteps)]

\* There is such a function: one player after the other.
LEMMA KeptExists ==
  ASSUME NEW players, NEW N \in Nat
  PROVE  \E f : IsKept(players, N, f)
<1>. DEFINE S(e, i) == SavePlayer(e, content, money[players[i]], players[i], PlayerSteps)
            T == {m \in Nat : \E f : IsKept(players, m, f)}
<1>1. 0 \in T
  <2>. DEFINE f == [i \in 0..0 |-> db]
  <2>1. IsKept(players, 0, f)
    BY DEF IsKept
  <2>. QED BY <2>1
<1>2. ASSUME NEW m \in Nat, m \in T, m < N PROVE m + 1 \in T
  <2>1. PICK g : IsKept(players, m, g)
    BY <1>2
  <2>. DEFINE f == [i \in 0..(m + 1) |-> IF i = 0 THEN db ELSE S(g[i - 1], i)]
  <2>2. \A i \in 0..m : f[i] = g[i]
    <3>. SUFFICES ASSUME NEW i \in 0..m PROVE f[i] = g[i]
      OBVIOUS
    <3>1. i \in 0..(m + 1)
      OBVIOUS
    <3>. QED BY <2>1, <3>1 DEF IsKept
  <2>3. \A i \in 0..(m + 1) : i # 0 => i - 1 \in 0..m
    OBVIOUS
  <2>4. \A i \in 0..(m + 1) : i # 0 => f[i - 1] = g[i - 1]
    BY <2>2, <2>3
  <2>5. IsKept(players, m + 1, f)
    BY <2>4 DEF IsKept
  <2>. QED BY <2>5
<1>. HIDE DEF T
<1>3. N \in T
  <2>1. \A n \in Nat : n \in T /\ n < N => n + 1 \in T
    BY <1>2
  <2>2. N \in Nat /\ 0 \in T
    BY <1>1
  <2>3. \A n \in 0..N : n \in T
    BY <2>1, <2>2, HandedOn, Zenon
  <2>4. N \in 0..N
    BY <2>2
  <2>. QED BY <2>3, <2>4, Zenon
<1>. QED BY <1>3 DEF T

\* Each player is saved on what those before it have left.
KeptInTurn(players, f) ==
  /\ f[0] = db /\ SavePlayers(players) = f[Len(players)]
  /\ \A i \in 1..Len(players) :
       f[i] = SavePlayer(f[i - 1], content, money[players[i]], players[i], PlayerSteps)

LEMMA SavePlayersIs ==
  ASSUME NEW players, Len(players) \in Nat
  PROVE  \E f : KeptInTurn(players, f)
<1>. DEFINE f == CHOOSE f : IsKept(players, Len(players), f)
<1>1. IsKept(players, Len(players), f)
  BY KeptExists
<1>2. SavePlayers(players) = f[Len(players)]
  BY DEF SavePlayers, IsKept
<1>. HIDE DEF f
<1>3. f[0] = db
  <2>1. 0 \in 0..Len(players)
    OBVIOUS
  <2>. QED BY <1>1, <2>1 DEF IsKept
<1>4. ASSUME NEW i \in 1..Len(players)
      PROVE f[i] = SavePlayer(f[i - 1], content, money[players[i]], players[i], PlayerSteps)
  <2>1. i \in 0..Len(players) /\ i # 0
    OBVIOUS
  <2>. QED BY <1>1, <2>1 DEF IsKept
<1>5. KeptInTurn(players, f)
  BY <1>2, <1>3, <1>4 DEF KeptInTurn
<1>. QED BY <1>5

\* The tables as they were, but for players in the game that were saved.
SomeSaved(e) ==
  /\ Tables(e) /\ e.tiles = db.tiles /\ e.store = db.store
  /\ \A p \in Owners : \/ Record(e, p) = Record(db, p)
                       \/ p \in online /\ Record(e, p) = RowsOf(content, money[p], p)

\* One more is saved.
LEMMA OneMoreSaved ==
  ASSUME NEW d, SomeSaved(d), NEW p \in Owners, p \in online,
         NEW e, e = SavePlayer(d, content, money[p], p, PlayerSteps)
  PROVE  SomeSaved(e)
<1>1. Tables(e) /\ ButPlayer(e, d, p) /\ Record(e, p) = RowsOf(content, money[p], p)
  BY SavedIs DEF SomeSaved
<1>2. \A q \in Owners : q # p => Record(e, q) = Record(d, q)
  BY <1>1 DEF ButPlayer
<1>3. e.tiles = d.tiles /\ e.store = d.store
  BY <1>1 DEF ButPlayer
<1>. QED BY <1>1, <1>2, <1>3 DEF SomeSaved

\* Players in the game are saved: each as it is, whoever comes first.
LEMMA PlayersSaved ==
  ASSUME Tables(db), online \subseteq Owners, NEW players, Len(players) \in Nat,
         \A i \in 1..Len(players) : players[i] \in online
  PROVE  SomeSaved(SavePlayers(players))
<1>1. PICK f : KeptInTurn(players, f)
  BY SavePlayersIs
<1>. DEFINE T == {i \in 0..Len(players) : SomeSaved(f[i])}
<1>2. 0 \in T
  BY <1>1 DEF KeptInTurn, SomeSaved
<1>3. ASSUME NEW i \in Nat, i \in T, i < Len(players) PROVE i + 1 \in T
  <2>1. i + 1 \in 1..Len(players) /\ i + 1 \in 0..Len(players) /\ (i + 1) - 1 = i
    BY <1>3
  <2>2. f[i + 1] = SavePlayer(f[i], content, money[players[i + 1]], players[i + 1], PlayerSteps)
    BY <1>1, <2>1 DEF KeptInTurn
  <2>3. players[i + 1] \in Owners /\ players[i + 1] \in online
    BY <2>1
  <2>4. SomeSaved(f[i + 1])
    BY <1>3, <2>2, <2>3, OneMoreSaved
  <2>. QED BY <2>1, <2>4
<1>. HIDE DEF T
<1>4. Len(players) \in T
  <2>1. \A n \in Nat : n \in T /\ n < Len(players) => n + 1 \in T
    BY <1>3
  <2>2. Len(players) \in Nat /\ 0 \in T
    BY <1>2
  <2>3. \A n \in 0..Len(players) : n \in T
    BY <2>1, <2>2, HandedOn, Zenon
  <2>4. Len(players) \in 0..Len(players)
    BY <2>2
  <2>. QED BY <2>3, <2>4, Zenon
<1>. QED BY <1>1, <1>4 DEF T, KeptInTurn

\* The players in the game as a sequence.
LEMMA OnlineInTurn ==
  ASSUME online \subseteq Owners
  PROVE  /\ Len(SetToSeq(online)) \in Nat
         /\ \A i \in 1..Len(SetToSeq(online)) : SetToSeq(online)[i] \in online
<1>1. IsFiniteSet(online)
  BY StorageAssumption, FS_Subset
<1>2. Cardinality(online) \in Nat /\ ExistsBijection(1..Cardinality(online), online)
  BY <1>1, FS_CardinalityType
<1>3. \E f \in [1..Cardinality(online) -> online] : IsInjective(f)
  BY <1>2 DEF ExistsBijection, Bijection, Injection, IsInjective
<1>4. SetToSeq(online) \in [1..Cardinality(online) -> online]
  BY <1>3 DEF SetToSeq
<1>5. Len(SetToSeq(online)) = Cardinality(online)
  BY <1>2, <1>4
<1>. QED BY <1>2, <1>4, <1>5

\* The first of them.
LEMMA FirstInTurn ==
  ASSUME online \subseteq Owners, NEW k \in Nat,
         NEW players, players = SubSeq(SetToSeq(online), 1, Min({k, Len(SetToSeq(online))}))
  PROVE  Len(players) \in Nat /\ \A i \in 1..Len(players) : players[i] \in online
<1>. DEFINE s == SetToSeq(online)
            m == Min({k, Len(s)})
<1>1. Len(s) \in Nat /\ \A i \in 1..Len(s) : s[i] \in online
  BY OnlineInTurn
<1>. HIDE DEF s
<1>2. m \in Nat /\ m <= Len(s)
  <2>1. \E x \in {k, Len(s)} : \A y \in {k, Len(s)} : x <= y
    BY <1>1
  <2>2. m \in {k, Len(s)} /\ \A y \in {k, Len(s)} : m <= y
    BY <2>1 DEF Min
  <2>. QED BY <1>1, <2>2
<1>. HIDE DEF m
<1>3. players = SubSeq(s, 1, m) /\ \A i \in 1..m : s[i] \in online
  BY <1>1, <1>2 DEF s, m
<1>4. 1 \in Int /\ m \in Int
  BY <1>2
<1>5. SubSeq(s, 1, m) \in Seq(online)
  BY <1>3, <1>4, SubSeqProperties, Zenon
<1>6. players \in Seq(online)
  BY <1>3, <1>5
<1>7. Len(players) \in Nat
  BY <1>6, LenProperties
<1>. QED BY <1>6, <1>7, ElementOfSeq, Zenon

\* The things of the houses are saved in one way or the other, the rest of the
\* tables stays.
LEMMA MapSaved ==
  ASSUME NEW d, SomeSaved(d), NEW e, e = Transaction(d, MapStatements, Len(MapStatements))
  PROVE  /\ Tables(e)
         /\ \A p \in Owners : Record(e, p) = Record(d, p)
         /\ <<e.tiles, e.store>> \in {<<TileRows(content), db.store>>, <<db.tiles, TileStream(content)>>}
<1>1. e = Executed(d, MapStatements)
  BY DEF Transaction
<1>2. Tables(d) /\ d.tiles = db.tiles /\ d.store = db.store
  BY DEF SomeSaved
<1>3. CASE mapStorage = "relational"
  <2>. DEFINE a == Statement("tiles", HouseOwner, <<>>)
              b == Statement("tiles", HouseOwner, TileRows(content))
              e1 == Execute(d, a)
              e2 == Execute(e1, b)
  <2>1. e = e2
    BY <1>1, <1>3, TwoExecuted DEF MapStatements
  <2>2. Tables(e1) /\ ButTable(e1, d, "tiles")
    BY <1>2, TableWritten
  <2>. HIDE DEF e1
  <2>3. Tables(e2) /\ ButTable(e2, e1, "tiles") /\ e2["tiles"] = TileRows(content)
    BY <2>2, TableWritten
  <2>. HIDE DEF e2
  <2>. QED BY <1>2, <2>1, <2>2, <2>3 DEF ButTable, Record
<1>4. CASE mapStorage # "relational"
  <2>. DEFINE a == Statement("store", HouseOwner, <<>>)
              b == Statement("store", HouseOwner, TileStream(content))
              e1 == Execute(d, a)
              e2 == Execute(e1, b)
  <2>1. e = e2
    BY <1>1, <1>4, TwoExecuted DEF MapStatements
  <2>2. Tables(e1) /\ ButTable(e1, d, "store")
    BY <1>2, TableWritten
  <2>. HIDE DEF e1
  <2>3. Tables(e2) /\ ButTable(e2, e1, "store") /\ e2["store"] = TileStream(content)
    BY <2>2, TableWritten
  <2>. HIDE DEF e2
  <2>. QED BY <1>2, <2>1, <2>2, <2>3 DEF ButTable, Record
<1>. QED BY <1>3, <1>4

\* Saving who may enter leaves the rest.
LEMMA InfoSaved ==
  ASSUME NEW d, Tables(d), NEW e, e = Transaction(d, InfoStatements, Len(InfoStatements))
  PROVE  /\ Tables(e) /\ e.tiles = d.tiles /\ e.store = d.store
         /\ \A p \in Owners : Record(e, p) = Record(d, p)
<1>. DEFINE a == Statement("guests", HouseOwner, FALSE)
            b == Statement("guests", HouseOwner, TRUE)
            e1 == Execute(d, a)
            e2 == Execute(e1, b)
<1>1. e = Executed(d, InfoStatements)
  BY DEF Transaction
<1>2. e \in {e1, e2}
  <2>1. InfoStatements = <<a>> \o (IF guests THEN <<b>> ELSE <<>>)
    BY DEF InfoStatements
  <2>. HIDE DEF a, b
  <2>2. <<a>> \o <<b>> = <<a, b>> /\ <<a>> \o <<>> = <<a>>
    <3>. DEFINE s == <<a>>
                t == <<b>>
                u == <<a, b>>
    <3>1. s \in Seq({a, b}) /\ t \in Seq({a, b}) /\ u \in Seq({a, b})
      OBVIOUS
    <3>2. Len(s) = 1 /\ s[1] = a /\ Len(t) = 1 /\ t[1] = b /\ Len(u) = 2 /\ u[1] = a /\ u[2] = b
      OBVIOUS
    <3>4. s \o t = u
      <4>. HIDE DEF s, t, u
      <4>1. /\ s \o t \in Seq({a, b}) /\ Len(s \o t) = 2
            /\ (s \o t)[1] = a /\ (s \o t)[2] = b
        BY <3>1, <3>2, ConcatProperties
      <4>. QED BY <3>1, <3>2, <4>1, SeqEqual
    <3>3. <<a>> \o <<>> = <<a>>
      BY <3>1, ConcatEmptySeq
    <3>. QED BY <3>3, <3>4
  <2>3. InfoStatements \in {<<a, b>>, <<a>>}
    BY <2>1, <2>2
  <2>4. Executed(d, <<a, b>>) = e2 /\ Executed(d, <<a>>) = e1
    BY TwoExecuted, OneExecuted
  <2>. QED BY <1>1, <2>3, <2>4
<1>3. Tables(e1) /\ ButTable(e1, d, "guests")
  BY TableWritten
<1>. HIDE DEF e1
<1>4. Tables(e2) /\ ButTable(e2, e1, "guests")
  BY <1>3, TableWritten
<1>. HIDE DEF e2
<1>. QED BY <1>2, <1>3, <1>4 DEF ButTable, Record

-----------------------------------------------------------------------------
(* Never by halves.                                                        *)

\* The inductive invariant.
StorageIInv == Tables(db) /\ online \subseteq Owners

\* What a step may do to a player's record, and to the houses' things.
SameRow(p)   == Record(db', p) = Record(db, p)
WholeRow(p)  == p \in online /\ Record(db', p) = Record(SavePlayer(db, content, money[p], p, PlayerSteps), p)
AwayRow(p)   == p \notin online /\ connected'
HousesOK  ==
  \/ <<db'.tiles, db'.store>> = <<db.tiles, db.store>>
  \/ <<db'.tiles, db'.store>> \in {<<TileRows(content), db.store>>, <<db.tiles, TileStream(content)>>}

\* No step changes a record by halves, and the tables stay tables.
WholeStep ==
  /\ Tables(db') /\ HousesOK
  /\ \A p \in Owners : SameRow(p) \/ WholeRow(p) \/ AwayRow(p)

\* A step that leaves the tables.
LEMMA NothingSaved ==
  ASSUME Tables(db), db' = db
  PROVE  WholeStep
BY DEF WholeStep, SameRow, HousesOK

\* A step that saves players that are in the game.
LEMMA SomeSavedWhole ==
  ASSUME Tables(db), Tables(db'), HousesOK,
         NEW d, SomeSaved(d), \A p \in Owners : Record(db', p) = Record(d, p)
  PROVE  WholeStep
<1>1. ASSUME NEW p \in Owners PROVE SameRow(p) \/ WholeRow(p)
  <2>1. Record(SavePlayer(db, content, money[p], p, PlayerSteps), p) = RowsOf(content, money[p], p)
    BY SavedIs
  <2>2. Record(db', p) = Record(db, p) \/ (p \in online /\ Record(db', p) = RowsOf(content, money[p], p))
    BY DEF SomeSaved
  <2>. QED BY <2>1, <2>2 DEF SameRow, WholeRow
<1>. QED BY <1>1 DEF WholeStep

\* A step that saves a player that is not in the game.
LEMMA AwaySavedWhole ==
  ASSUME Tables(db), NEW p \in Owners, p \notin online, NEW n, NEW c, NEW m,
         db' = SavePlayer(db, c, m, p, n), n = PlayerSteps => connected'
  PROVE  WholeStep
<1>1. CASE n # PlayerSteps
  BY <1>1, BrokenSave, NothingSaved
<1>2. CASE n = PlayerSteps
  <2>1. Tables(db') /\ ButPlayer(db', db, p)
    BY <1>2, SavedIs
  <2>2. AwayRow(p)
    BY <1>2 DEF AwayRow
  <2>. QED BY <2>1, <2>2 DEF WholeStep, ButPlayer, SameRow, HousesOK
<1>. QED BY <1>1, <1>2

\* A connection that holds for all statements is there.
LEMMA ReachesAll ==
  ASSUME NEW n, connected, Reaches(n, PlayerSteps)
  PROVE  n = PlayerSteps => connected'
BY DEF Reaches

\* What every step does.
LEMMA StorageSteps ==
  ASSUME StorageIInv, StorageNext
  PROVE  WholeStep /\ online' \subseteq Owners
<1>0. Tables(db) /\ online \subseteq Owners
  BY DEF StorageIInv
<1>1. CASE Start
  BY <1>0, <1>1, NothingSaved DEF Start
<1>2. CASE Crash
  BY <1>0, <1>2, NothingSaved DEF Crash, Ends
<1>3. CASE ShutdownServer
  <2>. DEFINE players == SetToSeq(online)
  <2>1. Len(players) \in Nat /\ \A i \in 1..Len(players) : players[i] \in online
    BY <1>0, OnlineInTurn
  <2>2. db' = SavePlayers(players) /\ online' = {}
    BY <1>3 DEF ShutdownServer, Ends
  <2>. HIDE DEF players
  <2>3. SomeSaved(db')
    BY <1>0, <2>1, <2>2, PlayersSaved
  <2>4. Tables(db') /\ HousesOK
    BY <2>3 DEF SomeSaved, HousesOK
  <2>. QED BY <1>0, <2>2, <2>3, <2>4, SomeSavedWhole
<1>4. CASE \E p \in Owners : Login(p)
  <2>1. PICK p \in Owners : Login(p)
    BY <1>4
  <2>. QED BY <1>0, <2>1, NothingSaved DEF Login
<1>5. CASE \E p \in Owners, n \in Breaks : Logout(p, n)
  <2>1. PICK p \in Owners, n \in Breaks : Logout(p, n)
    BY <1>5
  <2>2. p \in online /\ db' = SavePlayer(db, content, money[p], p, n) /\ online' \subseteq Owners
    BY <1>0, <2>1 DEF Logout
  <2>3. CASE n # PlayerSteps
    BY <1>0, <2>2, <2>3, BrokenSave, NothingSaved
  <2>4. CASE n = PlayerSteps
    <3>1. SomeSaved(db)
      BY <1>0 DEF SomeSaved
    <3>2. SomeSaved(db')
      BY <2>2, <2>4, <3>1, OneMoreSaved
    <3>3. Tables(db') /\ HousesOK
      BY <3>2 DEF SomeSaved, HousesOK
    <3>. QED BY <1>0, <2>2, <3>2, <3>3, SomeSavedWhole
  <2>. QED BY <2>3, <2>4
<1>6. CASE \E k \in 0..Cardinality(Owners) + 2, crash \in BOOLEAN : SaveServer(k, crash)
  <2>1. PICK k \in 0..Cardinality(Owners) + 2, crash \in BOOLEAN : SaveServer(k, crash)
    BY <1>6
  <2>. DEFINE players == SetToSeq(online)
              first   == SubSeq(players, 1, Min({k, Len(players)}))
              saved   == SavePlayers(first)
              tiled   == IF k > Len(players) THEN Transaction(saved, MapStatements, Len(MapStatements)) ELSE saved
              all     == IF k > Len(players) + 1 THEN Transaction(tiled, InfoStatements, Len(InfoStatements)) ELSE tiled
  <2>2. db' = all /\ online' \subseteq Owners
    BY <1>0, <2>1 DEF SaveServer, Ends
  <2>3. Cardinality(Owners) \in Nat
    BY StorageAssumption, FS_CardinalityType
  <2>4. k \in Nat
    BY <2>3
  <2>5. Len(first) \in Nat /\ \A i \in 1..Len(first) : first[i] \in online
    BY <1>0, <2>4, FirstInTurn
  <2>. HIDE DEF first
  <2>6. SomeSaved(saved)
    BY <1>0, <2>5, PlayersSaved
  <2>. HIDE DEF saved
  <2>. DEFINE HousesAre(e) ==
         \/ <<e.tiles, e.store>> = <<db.tiles, db.store>>
         \/ <<e.tiles, e.store>> \in {<<TileRows(content), db.store>>, <<db.tiles, TileStream(content)>>}
  <2>7. Tables(tiled) /\ HousesAre(tiled) /\ \A p \in Owners : Record(tiled, p) = Record(saved, p)
    <3>1. CASE k > Len(players)
      BY <2>6, <3>1, MapSaved
    <3>2. CASE ~(k > Len(players))
      BY <2>6, <3>2 DEF SomeSaved
    <3>. QED BY <3>1, <3>2
  <2>. HIDE DEF tiled
  <2>8. Tables(all) /\ HousesAre(all) /\ \A p \in Owners : Record(all, p) = Record(saved, p)
    <3>1. CASE k > Len(players) + 1
      BY <2>7, <3>1, InfoSaved
    <3>2. CASE ~(k > Len(players) + 1)
      BY <2>7, <3>2
    <3>. QED BY <3>1, <3>2
  <2>. HIDE DEF all
  <2>9. Tables(db') /\ HousesOK /\ \A p \in Owners : Record(db', p) = Record(saved, p)
    BY <2>2, <2>8 DEF HousesOK
  <2>. QED BY <1>0, <2>2, <2>6, <2>9, SomeSavedWhole
<1>7. CASE \E t \in Things, h \in Places : Move(t, h)
  BY <1>0, <1>7, NothingSaved DEF Move
<1>8. CASE \E t \in Things, p \in Owners, n \in Breaks : Mail(t, p, n)
  <2>1. PICK t \in Things, p \in Owners, n \in Breaks : Mail(t, p, n)
    BY <1>8
  <2>2. connected /\ online' \subseteq Owners
    BY <1>0, <2>1 DEF Mail
  <2>3. CASE p \in online
    BY <1>0, <2>1, <2>2, <2>3, NothingSaved DEF Mail
  <2>4. CASE p \notin online
    <3>1. Reaches(n, PlayerSteps) /\ \E c : db' = SavePlayer(db, c, db.money[p], p, n)
      BY <2>1, <2>4 DEF Mail
    <3>. QED BY <1>0, <2>2, <2>4, <3>1, ReachesAll, AwaySavedWhole
  <2>. QED BY <2>3, <2>4
<1>9. CASE \E n \in Breaks : LoseHouse(n)
  <2>1. PICK n \in Breaks : LoseHouse(n)
    BY <1>9
  <2>2. connected /\ online' \subseteq Owners /\ HouseOwner \in Owners
    BY <1>0, <2>1, StorageAssumption DEF LoseHouse
  <2>3. CASE HouseOwner \in online
    BY <1>0, <2>1, <2>2, <2>3, NothingSaved DEF LoseHouse
  <2>4. CASE HouseOwner \notin online
    <3>1. Reaches(n, PlayerSteps) /\ \E c : db' = SavePlayer(db, c, db.money[HouseOwner], HouseOwner, n)
      BY <2>1, <2>4 DEF LoseHouse
    <3>. QED BY <1>0, <2>2, <2>4, <3>1, ReachesAll, AwaySavedWhole
  <2>. QED BY <2>3, <2>4
<1>10. CASE \E p, q \in Owners, n \in Breaks : Pay(p, q, n)
  <2>1. PICK p \in Owners, q \in Owners, n \in Breaks : Pay(p, q, n)
    BY <1>10
  <2>2. connected /\ online' \subseteq Owners
    BY <1>0, <2>1 DEF Pay
  <2>3. CASE q \in online
    BY <1>0, <2>1, <2>2, <2>3, NothingSaved DEF Pay
  <2>4. CASE q \notin online
    <3>1. Reaches(n, PlayerSteps) /\ \E c : db' = SavePlayer(db, c, db.money[q] + 1, q, n)
      BY <2>1, <2>4 DEF Pay
    <3>. QED BY <1>0, <2>2, <2>4, <3>1, ReachesAll, AwaySavedWhole
  <2>. QED BY <2>3, <2>4
<1>11. CASE \E b \in BOOLEAN : SetGuests(b)
  BY <1>0, <1>11, NothingSaved DEF SetGuests
<1>. QED BY <1>1, <1>2, <1>3, <1>4, <1>5, <1>6, <1>7, <1>8, <1>9, <1>10, <1>11
       DEF StorageNext, Sessions, Handling, Dealing

\* The tables the server begins with.
LEMMA StorageStart == StorageInit => StorageIInv
<1>. SUFFICES ASSUME StorageInit PROVE StorageIInv
  OBVIOUS
<1>. DEFINE first == CHOOSE p \in Owners : p # HouseOwner
            all == [NoThings EXCEPT ![Locker[first]] = SetToSeq(Things)]
            dep == [p \in Owners |-> IF p = first THEN PlayerRows(all, <<Locker[p]>>)
                                     ELSE PlayerRows(NoThings, <<Locker[p]>>)]
            mon == [p \in Owners |-> IF p = first THEN 1 ELSE 0]
<1>1. db = [bag |-> [p \in Owners |-> <<>>], depot |-> dep, money |-> mon, tiles |-> <<>>, store |-> <<>>,
            guests |-> FALSE]
  BY DEF StorageInit
<1>2. dep = [p \in Owners |-> dep[p]] /\ mon = [p \in Owners |-> mon[p]]
  OBVIOUS
<1>. HIDE DEF dep, mon
<1>3. Tables(db)
  <2>1. DOMAIN db = {"bag", "depot", "money", "tiles", "store", "guests"}
    BY <1>1
  <2>2. db["bag"] = [p \in Owners |-> <<>>] /\ db["depot"] = dep /\ db["money"] = mon
    BY <1>1
  <2>3. \A u \in {"bag", "depot", "money"} : db[u] = [p \in Owners |-> db[u][p]]
    BY <1>2, <2>2
  <2>4. db = [u \in DOMAIN db |-> db[u]]
    BY <1>1
  <2>. QED BY <2>1, <2>3, <2>4 DEF Tables
<1>. QED BY <1>3 DEF StorageInit, StorageIInv

\* Whatever happens, and wherever the connection breaks or the server crashes:
\* no player's record and no house's things are ever changed by halves, for any
\* number of players and things.
THEOREM NeverByHalves == StorageSpec => NeverHalf
<1>1. StorageInit => StorageIInv
  BY StorageStart
<1>2. StorageIInv /\ [StorageNext]_storageVars => StorageIInv'
  <2>1. CASE StorageNext
    BY <2>1, StorageSteps DEF StorageIInv, WholeStep
  <2>2. CASE UNCHANGED storageVars
    BY <2>2 DEF storageVars, StorageIInv
  <2>. QED BY <2>1, <2>2
<1>3. StorageIInv /\ [StorageNext]_storageVars
      => [/\ \A p \in Owners :
               \/ Record(db', p) = Record(db, p)
               \/ p \in online /\ Record(db', p) = Record(SavePlayer(db, content, money[p], p, PlayerSteps), p)
               \/ p \notin online /\ connected'
          /\ \/ <<db'.tiles, db'.store>> = <<db.tiles, db.store>>
             \/ <<db'.tiles, db'.store>> \in {<<TileRows(content), db.store>>, <<db.tiles, TileStream(content)>>}
         ]_storageVars
  <2>1. CASE StorageNext
    BY <2>1, StorageSteps, Zenon DEF WholeStep, SameRow, WholeRow, AwayRow, HousesOK
  <2>2. CASE UNCHANGED storageVars
    BY <2>2
  <2>. QED BY <2>1, <2>2
<1>. QED BY <1>1, <1>2, <1>3, PTL DEF StorageSpec, NeverHalf

=============================================================================
