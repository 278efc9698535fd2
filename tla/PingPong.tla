------------------------------- MODULE PingPong -------------------------------
(***************************************************************************)
(* ipc/mq, ipc/fifos, ipc/pipes and ipc/sockets: the client sends "Hi" and *)
(* reads an answer, the server reads and answers "ACK", nmessages times.   *)
(* The programs differ in how the two meet and in what carries the bytes:  *)
(* a POSIX message queue for both directions, so that whoever receives     *)
(* first gets a message, also its own, and a message sent while somebody   *)
(* waits is handed to the waiter; or a stream for each direction.  Fifos   *)
(* and pipes are open for reading and writing in both programs and hence   *)
(* never at end of file, and move a message (at most PIPE_BUF bytes) at    *)
(* once.  A read from a socket may be short, ends the loop only when it is *)
(* negative, and returns 0 when the peer is gone.                          *)
(***************************************************************************)
EXTENDS IpcSettings, Sequences

maxmsg == 2  \* attr.mq_maxmsg
Party == {"server", "client"}
Message == {"Hi", "ACK"}
Fifos == {"cli2srv", "srv2cli"}
Channel == {"old", "new"} \cup Fifos

VARIABLES prog,
          short,     \* this run's socket returns short reads
          names,     \* the names in the file system; of a queue, its age
          channel,   \* what was written to each channel and not yet read
          handle,    \* what the client has opened: "none", "old" or "new"
          at, i,     \* where each program is; its loop index
          back, echo \* history: how often the client received its own
                     \* message, and the server its own (mq)
vars == <<settings, prog, short, names, channel, handle, at, i, back, echo>>
constant == <<settings, prog, short>>
history == <<back, echo>>

\* What a run that was killed leaves: a queue with any of its contents, some
\* of the fifos' names, a socket's name.
Init == /\ ReadConfig
        /\ prog \in {"mq", "fifos", "pipes", "sockets"}
        /\ short \in {FALSE, prog = "sockets"}
        /\ names \in SUBSET CASE prog = "mq" -> {"old"} [] prog = "fifos" -> Fifos
                              [] prog = "sockets" -> {"socket"} [] OTHER -> {}
        /\ channel \in [Channel -> {<<>>, <<"Hi">>, <<"ACK">>}]
        /\ \A c \in Channel \ (names \cap {"old"}) : channel[c] = <<>>
        /\ handle = "none"
        /\ at = [p \in Party |-> "start"] /\ i = [p \in Party |-> 0]
        /\ back = 0 /\ echo = 0

Other(p) == IF p = "server" THEN "client" ELSE "server"
Word(p) == IF p = "client" THEN "Hi" ELSE "ACK"
size == IF prog = "mq" THEN 1 ELSE buffersiz
Queue(p) == IF p = "server" THEN "new" ELSE handle
Outgoing(p) == IF prog = "mq" THEN Queue(p)
               ELSE IF p = "client" THEN "cli2srv" ELSE "srv2cli"
Incoming(p) == IF prog = "mq" THEN Queue(p) ELSE Outgoing(Other(p))

Ended == {"done", "failed", "broken", "killed"}
\* Only a socket tells that the peer is gone.
PeerGone(p) == prog = "sockets" /\ at[Other(p)] \in Ended

Go(p, from, to) == at[p] = from /\ at' = [at EXCEPT ![p] = to]
----------------------------------------------------------------------------
(* The server until its loop *)

Setup == UNCHANGED <<constant, channel, handle, i, history>>

\* mq_unlink "to make sure it is clean", and mq_open with O_EXCL.
Unlink == /\ prog = "mq" /\ Go("server", "start", "create")
          /\ names' = {}
          /\ Setup
Create == /\ prog = "mq" /\ Go("server", "create", "receive")
          /\ names' = {"new"}
          /\ Setup

\* mkfifo fails when the name is there; after the second, both are opened.
MkFifo(fifo, from, to) ==
  /\ prog = "fifos"
  /\ Go("server", from, IF fifo \in names THEN "failed" ELSE to)
  /\ names' = names \cup {fifo}
  /\ Setup

\* sched_setaffinity of a core that does not exist fails.
Pin == /\ prog = "pipes"
       /\ Go("server", "start", "receive") \/ Go("server", "start", "failed")
       /\ UNCHANGED names /\ Setup

\* bind fails on a left-over name (run.sh removes it; of TCP, a port in use).
Bind == /\ prog = "sockets"
        /\ Go("server", "start", IF "socket" \in names THEN "failed" ELSE "listen")
        /\ names' = names \cup {"socket"}
        /\ Setup
Listen == /\ Go("server", "listen", "accept")
          /\ UNCHANGED names /\ Setup
Accept == /\ Go("server", "accept", "receive")
          /\ handle = "new"
          /\ UNCHANGED names /\ Setup
----------------------------------------------------------------------------
(* The client until its loop *)

Opening == UNCHANGED <<constant, names, channel, i, history>>

OpenQueue == /\ prog = "mq"
             /\ IF names = {} THEN Go("client", "start", "failed") /\ UNCHANGED handle
                ELSE Go("client", "start", "send") /\ handle' \in names
             /\ Opening

\* open of the two names, O_RDWR and hence without waiting.
OpenFifo == /\ prog = "fifos" /\ UNCHANGED handle
            /\ Go("client", "start", IF "cli2srv" \in names THEN "open2" ELSE "failed")
            /\ Opening
OpenSecond == /\ IF "srv2cli" \in names
                 THEN Go("client", "open2", "send") /\ handle' = "new"
                 ELSE Go("client", "open2", "failed") /\ UNCHANGED handle
              /\ Opening

PinClient == /\ prog = "pipes"
             /\ \/ Go("client", "start", "send") /\ handle' = "new"
                \/ Go("client", "start", "failed") /\ UNCHANGED handle
             /\ Opening

\* connect is refused until the server listens; it does not wait for accept.
Connect == /\ prog = "sockets"
           /\ IF at["server"] = "accept"
              THEN Go("client", "start", "send") /\ handle' = "new"
              ELSE Go("client", "start", "failed") /\ UNCHANGED handle
           /\ Opening
----------------------------------------------------------------------------
(* The two loops *)

\* for (i = 0; i < nmessages; i++); a mutant server leaves one message out.
OneLess(p) == i[p] + (IF p = "server" THEN 1 ELSE 0) < nmessages
More(p) == i[p] < nmessages
NextRound(p) == i' = [i EXCEPT ![p] = @ + 1]
Looping == UNCHANGED <<constant, names, handle>>

\* After its message the client reads, the server goes round; a mutant client
\* does not read the answer.
Unread(p) == IF p = "client" THEN "got" ELSE "receive"
AfterSend(p) == "receive"
Send(p) ==
  /\ p = "client" => More(p)
  /\ Go(p, "send", AfterSend(p))
  /\ ~(prog = "mq" /\ at[Other(p)] = "waiting" /\ handle = "new")
  /\ prog = "mq" => Len(channel[Outgoing(p)]) < maxmsg
  /\ channel' = [channel EXCEPT ![Outgoing(p)] = @ \o [b \in 1 .. size |-> Word(p)]]
  /\ IF p = "server" THEN NextRound(p) ELSE UNCHANGED i
  /\ Looping /\ UNCHANGED history

\* mq_send while the other waits in mq_receive.
HandOver(p) ==
  /\ p = "client" => More(p)
  /\ prog = "mq" /\ at[p] = "send" /\ at[Other(p)] = "waiting" /\ handle = "new"
  /\ at' = [at EXCEPT ![p] = AfterSend(p), ![Other(p)] = "got"]
  /\ IF p = "server" THEN NextRound(p) ELSE UNCHANGED i
  /\ Looping /\ UNCHANGED <<channel, history>>

\* A read takes what there is, up to a message.
Receive(p) ==
  /\ p = "server" => More(p)
  /\ Go(p, "receive", "got")
  /\ LET c == channel[Incoming(p)]
     IN \E k \in 1 .. Len(c) :
          /\ k = size \/ (short /\ k < size)
          /\ channel' = [channel EXCEPT ![Incoming(p)] = SubSeq(c, k + 1, Len(c))]
          /\ back' = back + (IF p = "client" /\ c[1] = "Hi" THEN 1 ELSE 0)
          /\ echo' = echo + (IF p = "server" /\ c[1] = "ACK" THEN 1 ELSE 0)
  /\ Looping /\ UNCHANGED i
Wait(p) ==
  /\ p = "server" => More(p)
  /\ Go(p, "receive", "waiting")
  /\ prog = "mq" /\ channel[Incoming(p)] = <<>>
  /\ Looping /\ UNCHANGED <<channel, i, history>>
\* read returns 0, which counts as a message.
EndOfFile(p) ==
  /\ p = "server" => More(p)
  /\ Go(p, "receive", "got")
  /\ PeerGone(p) /\ channel[Incoming(p)] = <<>>
  /\ Looping /\ UNCHANGED <<channel, i, history>>

\* The server goes on to answer, the client to its next message.
Got(p) == /\ Go(p, "got", "send")
          /\ IF p = "client" THEN NextRound(p) ELSE UNCHANGED i
          /\ Looping /\ UNCHANGED <<channel, history>>

\* Without its peer a socket kills who writes to it, or lets the first bytes
\* go nowhere; a peer that left bytes unread has reset the connection.
BrokenPipe(p) ==
  /\ PeerGone(p)
  /\ \/ Go(p, "send", "broken") /\ (p = "client" => More(p))
     \/ Go(p, "receive", "broken") /\ (p = "server" => More(p))
        /\ channel[Outgoing(p)] # <<>>
  /\ Looping /\ UNCHANGED <<channel, i, history>>

\* The server sleeps first ("so that client closes first"), for any time, and
\* removes its names, except a socket's.
Close(p) ==
  /\ ~More(p)
  /\ Go(p, IF p = "server" THEN "receive" ELSE "send", "done")
  /\ names' = IF p = "server" /\ prog # "sockets" THEN {} ELSE names
  /\ UNCHANGED <<constant, channel, handle, i, history>>

Loop(p) == \/ Send(p) \/ HandOver(p) \/ Receive(p) \/ Wait(p) \/ EndOfFile(p)
           \/ Got(p) \/ BrokenPipe(p) \/ Close(p)
Server == \/ Unlink \/ Create
          \/ MkFifo("cli2srv", "start", "second") \/ MkFifo("srv2cli", "second", "receive")
          \/ Pin \/ Bind \/ Listen \/ Accept \/ Loop("server")
Client == \/ OpenQueue \/ OpenFifo \/ OpenSecond \/ PinClient \/ Connect
          \/ Loop("client")

\* One of the two is killed.
Kill(p) == /\ at[p] \notin Ended /\ at[Other(p)] # "killed"
           /\ at' = [at EXCEPT ![p] = "killed"]
           /\ UNCHANGED <<constant, names, channel, handle, i, history>>

Next == Server \/ Client \/ \E p \in Party : Kill(p)
Spec == Init /\ [][Next]_vars
\* The two processes run on independently.
FairSpec == Spec /\ WF_vars(Server) /\ WF_vars(Client)
----------------------------------------------------------------------------
TypeOK == /\ names \subseteq {"old", "new", "socket"} \cup Fifos
          /\ channel \in [Channel -> Seq(Message)]
          /\ handle \in {"none", "old", "new"}
          /\ at \in [Party -> {"start", "create", "second", "listen", "accept", "open2",
                              "receive", "waiting", "got", "send"} \cup Ended]
          /\ i \in [Party -> 0 .. nmessages]
          /\ back \in 0 .. nmessages /\ echo \in 0 .. nmessages

\* Where each program can be, and what it then has opened; names by kind.
InPlace ==
  /\ at["server"] \notin {"open2"} /\ at["client"] \notin {"create", "second",
                                                         "listen", "accept"}
  /\ at["client"] \in {"start", "open2", "failed"} => handle = "none"
  /\ at["client"] \in {"send", "receive", "waiting", "got", "done"} => handle # "none"
  /\ at["client"] = "open2" => prog = "fifos"
  /\ handle = "none" => i["client"] = 0 /\ back = 0
  /\ at["server"] \in {"listen", "accept"} => prog = "sockets"
  /\ prog = "sockets" /\ at["server"] \in {"receive", "got", "send", "done"}
       => handle = "new"
  /\ prog = "sockets" /\ handle # "none" => at["server"] \notin {"start", "listen", "failed"}
  /\ \A p \in Party : at[p] = "waiting" => prog = "mq"
  /\ handle = "old" => prog = "mq"
  /\ prog = "mq" => names \subseteq {"old", "new"}

\* A stream carries one program's words.
OwnWords == prog # "mq" =>
              \A p \in Party : channel[Outgoing(p)] \in Seq({Word(p)})

\* What the loops count.
Received == i["client"] + (IF at["client"] = "got" THEN 1 ELSE 0)
InHand == at["server"] \in {"got", "send"}
Counted ==
  /\ at["server"] \in {"waiting", "got", "send"} => More("server")
  /\ at["client"] \in {"receive", "waiting", "got"} => More("client")
  /\ \A p \in Party : at[p] = "done" => ~More(p)
  /\ at["client"] # "killed" => back =< Received
  /\ at["server"] \notin {"broken", "killed"} =>
       echo =< i["server"] + (IF InHand THEN 1 ELSE 0)
  /\ prog # "mq" => back = 0 /\ echo = 0

\* One message travels at a time: while the client wants an answer there is
\* exactly one message, and a whole one, under way or in the server's hands,
\* and otherwise none, so that mq_send never waits on a full queue.
Wanted == handle = "new" /\ at["client"] \in {"receive", "waiting"}
Carriers == Channel \ {"old"}
Nothing == \A c \in Carriers : channel[c] = <<>>
Travels(p) == \A c \in Carriers :
                channel[c] = IF c = Outgoing(p) THEN [b \in 1 .. size |-> Word(p)]
                                                ELSE <<>>
OneToken == /\ InHand \/ ~Wanted => Nothing
            /\ InHand => Wanted
            /\ Wanted /\ ~InHand => \E p \in Party : Travels(p)

\* The answers add up: each one that the server sent was read by the client,
\* taken back by the server or is on its way; the client read nothing else but
\* its own messages.
AnswersAddUp ==
  IF handle = "new"
  THEN i["server"] + back = Received + echo + (IF Travels("server") THEN 1 ELSE 0)
  ELSE i["server"] = 0 /\ echo = 0

\* Nothing out of the ordinary has happened in this run.
Orderly == ~short /\ \A p \in Party : at[p] # "killed"

\* With the types, by induction: where no read is short and nobody was killed
\* the programs agree on what is under way, whatever carries it.
Consistent == /\ TypeOK /\ InPlace /\ OwnWords /\ Counted
              /\ Orderly => OneToken /\ AnswersAddUp

\* Nobody dies of a peer that has left unless a read was short or the peer was
\* killed: both programs count the same messages, so that the server's last
\* answer is read before either closes.
NoBrokenPipe == Orderly => \A p \in Party : at[p] # "broken"

\* The client never hangs, also when it talks to itself on an old queue and
\* with short reads, which may make it die; but everything except a socket
\* keeps it waiting for ever for a server that gave up or was killed.
ClientFinishes ==
  <>(at["client"] \in Ended
     \/ (at["server"] \in {"failed", "killed"} /\ prog # "sockets"))

\* Nor does a server that the client has reached, unless the client took a
\* message back or was killed out of sight: with short reads the two counts
\* differ and still nobody waits for the other, because a read takes no more
\* than a write gives.
ServerFinishes ==
  (/\ at["client"] \in Ended /\ handle = "new" /\ back = 0
   /\ at["client"] = "killed" => prog = "sockets") ~> at["server"] \in Ended
=============================================================================
