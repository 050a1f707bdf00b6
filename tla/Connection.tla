----------------------------- MODULE Connection -----------------------------
(***************************************************************************)
(* The life of a client connection: Source/connection.cpp, the Protocol    *)
(* object it serves, and the output messages that refer to both            *)
(* (outputmessage.cpp, protocol.cpp).                                      *)
(*                                                                         *)
(* Two threads meet here.  The network thread runs the completion handlers *)
(* of the socket, each under m_connectionLock; the dispatcher runs tasks   *)
(* and, after each of them, OutputMessagePool::sendAll, which takes the    *)
(* lock message by message.  A section under the lock is one step and      *)
(* maps a world (connection, protocol, messages, task list) to a world.    *)
(***************************************************************************)
EXTENDS Naturals, Sequences, FiniteSets

CONSTANTS
  Msgs,         (* bound: the OutputMessage objects in use at a time       *)
  NoMsg,        (* the null OutputMessage_ptr                              *)
  MaxPackets,   (* bound: packets the client sends                         *)
  InitRefs,     (* values of Protocol::m_refCount, which nobody initialises*)
  MayStop       (* TRUE: the dispatcher may be stopped                     *)

ASSUME ConnectionAssumption ==
  /\ IsFiniteSet(Msgs)
  /\ NoMsg \notin Msgs
  /\ Msgs \cap {"close", "login", "game", "relConn", "relProto"} = {}
  /\ MaxPackets \in Nat
  /\ InitRefs \subseteq Nat /\ InitRefs # {}
  /\ MayStop \in BOOLEAN

VARIABLES
  conn,         (* the Connection                                          *)
  proto,        (* its Protocol                                            *)
  msg,          (* the output messages                                     *)
  tasks,        (* the tasks of these objects in the dispatcher's list     *)
  timers,       (* release tasks that the scheduler holds                  *)
  accepting,    (* the dispatcher accepts tasks                            *)
  pending,      (* messages that sendAll has still to look at              *)
  packets       (* packets received                                        *)

vars == <<conn, proto, msg, tasks, timers, accepting, pending, packets>>

Releases == {"relConn", "relProto"}
Tasks    == {"close", "login", "game"} \cup Releases \cup Msgs

Times(t) == Cardinality({i \in 1..Len(tasks) : tasks[i] = t})

World == [conn |-> conn, proto |-> proto, msg |-> msg, tasks |-> tasks]

Becomes(w) ==
  /\ conn' = w.conn
  /\ proto' = w.proto
  /\ msg' = w.msg
  /\ tasks' = w.tasks

FreeMsg == [at |-> "free", sealed |-> 0, fresh |-> FALSE]

\* A connection was accepted and its first header is being read.
Init ==
  /\ conn = [state |-> "NONE", socketClosed |-> FALSE, writeError |-> FALSE,
             pendingRead |-> 1, pendingWrite |-> 0, refs |-> 0,
             reading |-> "header", writing |-> NoMsg, alive |-> TRUE]
  /\ proto \in [life : {"none"}, refs : InitRefs, buffer : {NoMsg}]
  /\ msg = [m \in Msgs |-> FreeMsg]
  /\ tasks = <<>>
  /\ timers = {}
  /\ accepting = TRUE
  /\ pending = {}
  /\ packets = 0

-----------------------------------------------------------------------------
(* Functions on worlds.                                                    *)

\* Seeded fault: every task is put to the front of the list.
PostFront(w, t) == IF accepting THEN [w EXCEPT !.tasks = <<t>> \o @] ELSE w

\* Dispatcher::addTask; a dispatcher that was stopped drops the task.
Post(w, t) == IF accepting THEN [w EXCEPT !.tasks = Append(@, t)] ELSE w

\* Connection::closeConnection
CloseConnection(w) ==
  IF w.conn.state # "NONE" THEN w
  ELSE Post([w EXCEPT !.conn.state = "REQUESTED"], "close")

\* Seeded fault: the socket is left open.
ClosingConnectionKeepsSocket(w) ==
  IF w.conn.pendingWrite # 0 /\ ~w.conn.writeError THEN w
  ELSE IF w.conn.pendingRead = 0 THEN Post(w, "relConn") ELSE w

\* Connection::closingConnection: once nothing is being written the socket is
\* closed, and once nothing is being read either the connection is released.
ClosingConnection(w) ==
  IF w.conn.pendingWrite # 0 /\ ~w.conn.writeError THEN w
  ELSE LET w1 == [w EXCEPT !.conn.socketClosed = TRUE]
       IN IF w.conn.pendingRead = 0 THEN Post(w1, "relConn") ELSE w1

\* OutputMessagePool::releaseMessage, when the last pointer to m is gone: its
\* task goes to the front of the list.
ReleaseMessage(w, m) ==
  IF accepting
    THEN [w EXCEPT !.tasks = <<m>> \o @, !.msg[m].at = "releasing"]
    ELSE [w EXCEPT !.msg[m].at = "lost"]

\* Seeded fault: the buffer that is being filled is kept.
OnSendMessageKeepsBuffer(w, m) == [w EXCEPT !.msg[m].sealed = @ + 1]

\* Protocol::onSendMessage: writes the header, and ends the filling of m.
OnSendMessage(w, m) ==
  [w EXCEPT !.msg[m].sealed = @ + 1,
            !.proto.buffer = IF @ = m THEN NoMsg ELSE @]

\* Connection::send.  When it fails the caller calls onSendMessage and drops
\* the message; while another is being written it is put off.
Send(w, m) ==
  IF w.conn.state = "CLOSING" \/ w.conn.writeError
    THEN ReleaseMessage(OnSendMessage(w, m), m)
  ELSE IF w.conn.pendingWrite = 0
    THEN [OnSendMessage(w, m) EXCEPT !.conn.pendingWrite = @ + 1,
                                     !.conn.writing = m,
                                     !.msg[m].at = "inflight"]
  ELSE [w EXCEPT !.msg[m].at = "toadd"]

\* OutputMessagePool::getOutputMessage for the protocol, while it has a
\* connection; both are referenced until the message is free again.
GetMessage(w, m, at) ==
  [w EXCEPT !.msg[m] = [at |-> at, sealed |-> 0, fresh |-> TRUE],
            !.proto.refs = @ + 1,
            !.conn.refs = @ + 1]

\* ProtocolGame::disconnectClient: a message of its own, then close.
DisconnectClient(w, m) == CloseConnection(Send(GetMessage(w, m, "single"), m))

\* What the protocol does with its output while it handles a request: it
\* writes to its buffer, disconnects the client, closes, or does nothing.
Outcomes(w) ==
  {w} \cup
  (IF w.proto.life # "attached" THEN {}
   ELSE LET free == {m \in Msgs : w.msg[m].at = "free"}
        IN {CloseConnection(w)}
             \cup {DisconnectClient(w, m) : m \in free}
             \cup (IF w.proto.buffer # NoMsg THEN {}
                   ELSE {[GetMessage(w, m, "autosend") EXCEPT !.proto.buffer = m] :
                           m \in free}))

-----------------------------------------------------------------------------
(* The network thread.                                                     *)

\* A read ends badly: handleReadError, or nothing more to do when closing.
\* A read on a closed socket cannot end otherwise.
ReadFails ==
  /\ conn.reading # "none"
  /\ LET w == [World EXCEPT !.conn.pendingRead = @ - 1, !.conn.reading = "none"]
     IN Becomes(IF conn.state = "CLOSING" THEN ClosingConnection(w)
                ELSE CloseConnection(w))
  /\ UNCHANGED <<timers, accepting, pending, packets>>

\* Connection::parseHeader of a good header.
ParseHeader ==
  /\ conn.reading = "header"
  /\ ~conn.socketClosed
  /\ Becomes(LET w == [World EXCEPT !.conn.pendingRead = @ - 1, !.conn.reading = "none"]
             IN IF conn.state = "CLOSING" THEN ClosingConnection(w)
                ELSE [w EXCEPT !.conn.pendingRead = @ + 1, !.conn.reading = "body"])
  /\ UNCHANGED <<timers, accepting, pending, packets>>

\* Connection::parsePacket of the first packet: it names no protocol, or
\* creates one, which answers itself or queues the login.
FirstPacket(w) ==
  LET w1 == [w EXCEPT !.proto.life = "attached"]
      again(v) == [v EXCEPT !.conn.pendingRead = @ + 1, !.conn.reading = "header"]
  IN {CloseConnection(w)} \cup
     {again(v) : v \in {CloseConnection(w1), Post(w1, "login")} \cup
                       {DisconnectClient(w1, m) : m \in {n \in Msgs : w.msg[n].at = "free"}}}

\* Connection::parsePacket: the first packet, or one for the protocol, which
\* queues a game task or ignores it.
ParsePacket ==
  /\ conn.reading = "body"
  /\ ~conn.socketClosed
  /\ packets < MaxPackets
  /\ packets' = packets + 1
  /\ LET w == [World EXCEPT !.conn.pendingRead = @ - 1, !.conn.reading = "none"]
     IN \E v \in IF conn.state = "CLOSING" THEN {ClosingConnection(w)}
                 ELSE IF proto.life = "none" THEN FirstPacket(w)
                 ELSE {[u EXCEPT !.conn.pendingRead = @ + 1, !.conn.reading = "header"] :
                         u \in {w, Post(w, "game")}} :
          Becomes(v)
  /\ UNCHANGED <<timers, accepting, pending>>

\* Connection::onWriteOperation, with or without an error; on a closed socket
\* a write ends with one.  The pointer the handler held is the last one.
OnWriteOperation(error) ==
  /\ conn.writing # NoMsg
  /\ conn.socketClosed => error
  /\ LET m  == conn.writing
         w1 == ReleaseMessage([World EXCEPT !.conn.pendingWrite = @ - 1,
                                            !.conn.writing = NoMsg], m)
         w2 == IF error THEN [CloseConnection(w1) EXCEPT !.conn.writeError = TRUE]
               ELSE w1
     IN Becomes(IF conn.state = "CLOSING" THEN ClosingConnection(w2) ELSE w2)
  /\ UNCHANGED <<timers, accepting, pending, packets>>

-----------------------------------------------------------------------------
(* The dispatcher thread.                                                  *)

\* Connection::closeConnectionTask
CloseConnectionTask(w) ==
  IF w.conn.state # "REQUESTED" THEN w
  ELSE LET w1 == [w EXCEPT !.conn.state = "CLOSING"]
       IN ClosingConnection(IF w.proto.life = "attached"
                              THEN [Post(w1, "relProto") EXCEPT !.proto.life = "detached"]
                              ELSE w1)

\* Seeded fault: the references are not looked at.
ReleaseTaskAtOnce(t) ==
  /\ Becomes(IF t = "relConn"
               THEN [World EXCEPT !.tasks = Tail(@), !.conn.alive = FALSE]
               ELSE [World EXCEPT !.tasks = Tail(@), !.proto.life = "deleted"])
  /\ UNCHANGED timers

\* Connection::releaseConnection and Protocol::releaseProtocol: deletes the
\* object, or tries again later as long as messages refer to it.
ReleaseTask(t) ==
  LET w    == [World EXCEPT !.tasks = Tail(@)]
      refs == IF t = "relConn" THEN conn.refs ELSE proto.refs
  IN IF refs > 0
       THEN Becomes(w) /\ timers' = timers \cup {t}
       ELSE /\ Becomes(IF t = "relConn" THEN [w EXCEPT !.conn.alive = FALSE]
                       ELSE [w EXCEPT !.proto.life = "deleted"])
            /\ UNCHANGED timers

\* OutputMessagePool::internalReleaseMessage
InternalReleaseMessage(w, m) ==
  [w EXCEPT !.msg[m] = FreeMsg, !.proto.refs = @ - 1, !.conn.refs = @ - 1]

\* The messages that sendAll looks at.
Unsent == {m \in Msgs : msg[m].at \in {"autosend", "toadd"}}

\* The first task is run; sendAll follows.
RunTask ==
  /\ pending = {}
  /\ tasks # <<>>
  /\ LET t == Head(tasks)
         w == [World EXCEPT !.tasks = Tail(@)]
     IN \/ t \in Releases /\ ReleaseTask(t)
        \/ t \notin Releases /\ UNCHANGED timers
             /\ \E v \in CASE t = "close" -> {CloseConnectionTask(w)}
                           [] t \in Msgs -> {InternalReleaseMessage(w, t)}
                           [] OTHER -> Outcomes(w) :
                  Becomes(v)
  /\ pending' = Unsent'
  /\ UNCHANGED <<accepting, packets>>

\* Another task of the game is queued, one the client did not ask for: others
\* move, an idle player is kicked.  Bound: one at a time.
OtherTask ==
  /\ Times("game") = 0
  /\ Becomes(Post(World, "game"))
  /\ UNCHANGED <<timers, accepting, pending, packets>>

\* OutputMessagePool::sendAll, one message: one that was put off may be too
\* old and is dropped; one that is small and fresh is kept for later.
SendAll(m) ==
  /\ m \in pending
  /\ pending' = pending \ {m}
  /\ \/ /\ msg[m].at = "toadd"
        /\ Becomes(ReleaseMessage(OnSendMessage(World, m), m))
     \/ Becomes(Send(World, m))
     \/ /\ msg[m].fresh
        /\ Becomes([World EXCEPT !.msg[m].at = "autosend"])
  /\ UNCHANGED <<timers, accepting, packets>>

\* Ten milliseconds pass.
Age(m) ==
  /\ msg[m].fresh
  /\ msg' = [msg EXCEPT ![m].fresh = FALSE]
  /\ UNCHANGED <<conn, proto, tasks, timers, accepting, pending, packets>>

\* The scheduler hands a release task back to the dispatcher.
Retry(t) ==
  /\ t \in timers
  /\ timers' = timers \ {t}
  /\ Becomes(Post(World, t))
  /\ UNCHANGED <<accepting, pending, packets>>

\* Dispatcher::stop
StopDispatcher ==
  /\ MayStop /\ accepting
  /\ accepting' = FALSE
  /\ UNCHANGED <<conn, proto, msg, tasks, timers, pending, packets>>

-----------------------------------------------------------------------------
Network ==
  \/ ReadFails \/ ParseHeader \/ ParsePacket
  \/ \E error \in BOOLEAN : OnWriteOperation(error)

SendAllStep == \E m \in Msgs : SendAll(m)

DispatcherThread == RunTask \/ SendAllStep

Next ==
  \/ Network
  \/ DispatcherThread
  \/ OtherTask
  \/ \E m \in Msgs : Age(m)
  \/ \E t \in Releases : Retry(t)
  \/ StopDispatcher

Spec == Init /\ [][Next]_vars

\* The dispatcher takes its tasks in turn, and there are always others (the
\* checks the game repeats); the scheduler goes on; a write ends some time, if
\* only by a timeout of TCP; a read on a closed socket is aborted.  A client
\* need not send anything.
Fairness ==
  /\ WF_vars(DispatcherThread)
  /\ WF_vars(OtherTask)
  /\ \A t \in Releases : WF_vars(Retry(t))
  /\ \A m \in Msgs : WF_vars(Age(m))
  /\ WF_vars(\E error \in BOOLEAN : OnWriteOperation(error))
  /\ WF_vars(conn.socketClosed /\ ReadFails)

FairSpec == Spec /\ Fairness

-----------------------------------------------------------------------------
\* Types of the variables.
TypeOK ==
  /\ conn \in [state : {"NONE", "REQUESTED", "CLOSING"}, socketClosed : BOOLEAN,
               writeError : BOOLEAN, pendingRead : 0..1, pendingWrite : 0..1,
               refs : Nat, reading : {"none", "header", "body"},
               writing : Msgs \cup {NoMsg}, alive : BOOLEAN]
  /\ proto \in [life : {"none", "attached", "detached", "deleted"}, refs : Nat,
                buffer : Msgs \cup {NoMsg}]
  /\ msg \in [Msgs -> [at : {"free", "autosend", "toadd", "inflight", "releasing", "lost"},
                       sealed : Nat, fresh : BOOLEAN]]
  /\ tasks \in Seq(Tasks)
  /\ timers \subseteq Releases
  /\ accepting \in BOOLEAN
  /\ pending \subseteq Msgs
  /\ packets \in 0..MaxPackets

InUse == {m \in Msgs : msg[m].at # "free"}

\* Nothing points to a deleted connection: no handler is still to come, no
\* message and no task refers to it, and the protocol has let go of it.
ConnectionUnused ==
  ~conn.alive =>
    /\ conn.reading = "none" /\ conn.writing = NoMsg
    /\ InUse = {}
    /\ Times("close") = 0 /\ Times("relConn") = 0 /\ "relConn" \notin timers
    /\ proto.life # "attached"

\* Nothing points to a deleted protocol either; the login task does not count
\* as a reference and is safe only because it was queued before the release.
ProtocolUnused ==
  proto.life = "deleted" =>
    /\ InUse = {}
    /\ Times("login") = 0 /\ Times("relProto") = 0 /\ "relProto" \notin timers

\* ProtocolGame::login uses getConnection() unchecked: when it runs, the
\* connection has not been closed under it.
LoginHasConnection ==
  tasks # <<>> /\ Head(tasks) = "login" => proto.life = "attached"

\* Sound types; nobody is deleted before the last handler, task, timer or message
\* has let go of it; and what a login uses unchecked is there.
ObjectsUnused == TypeOK /\ ConnectionUnused /\ ProtocolUnused /\ LoginHasConnection

\* The message the game is writing to is not the one the socket sends, and no
\* message gets a second header.
BufferNotSent ==
  /\ proto.buffer # NoMsg =>
       msg[proto.buffer].at \in {"autosend", "toadd"} /\ msg[proto.buffer].sealed = 0
  /\ \A m \in Msgs : msg[m].sealed <= 1

\* What the threads share is used by who may use it, and by nobody else.
ConnectionConsistent == ObjectsUnused /\ BufferNotSent

\* A connection that is to be closed is deleted some day, whatever is being
\* read, written or waiting to be sent, if the dispatcher goes on.
ClosedIsDeleted == (conn.state = "REQUESTED") ~> (~conn.alive \/ ~accepting)

\* protocol.cpp:95 says of a protocol that is still referenced: "Reschedule
\* it and try again": once it is to be released it is deleted in the end.
ReleasedIsDeleted == (proto.life = "detached") ~> (proto.life = "deleted")
=============================================================================
