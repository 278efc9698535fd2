------------------------------ MODULE IpcProofs ------------------------------
(***************************************************************************)
(* Proofs about the programs of ipc/.  PingPong: queues, fifos, pipes and  *)
(* sockets, for any number and any size of messages.  ShmPingPong: shared  *)
(* memory, for any number of messages and every size above 3; with 3 bytes *)
(* the NUL of "ACK" lies on the flag and hands the turn over before the    *)
(* server does.                                                            *)
(***************************************************************************)
EXTENDS PingPong, ShmPingPong, SequenceTheorems, TLAPS

(* Queues, fifos, pipes and sockets *)

\* What init_settings and the choice of the program leave for good.
Chosen == /\ ReadConfig
          /\ prog \in {"mq", "fifos", "pipes", "sockets"}
          /\ short \in {FALSE, prog = "sockets"}
Placed == Chosen /\ TypeOK /\ InPlace /\ OwnWords /\ Counted
PingPongInv == Placed /\ NoBrokenPipe /\ (Orderly => OneToken /\ AnswersAddUp)

Whole(word) == [b \in 1 .. size |-> word]

\* A message as it lies in its carrier.
LEMMA WholeMessage ==
  ASSUME Placed, NEW word \in Message
  PROVE  /\ size \in Nat /\ size > 0
         /\ Whole(word) \in Seq(Message) /\ Len(Whole(word)) = size
         /\ Whole(word) # <<>> /\ Whole(word)[1] = word
         /\ <<>> \in Seq(Message) /\ <<>> \o Whole(word) = Whole(word)
<1>1. size \in Nat /\ size > 0
  BY IpcAssumption DEF Placed, Chosen, ReadConfig, size
<1>2. Whole(word) \in [1 .. size -> Message]
  BY DEF Whole
<1>3. Whole(word) \in Seq(Message)
  BY <1>1, <1>2
<1>4. Len(Whole(word)) = size
  BY <1>1, <1>2, <1>3
<1>5. Whole(word)[1] = word
  BY <1>1 DEF Whole
<1>6. Whole(word) # <<>>
  BY <1>1, <1>3, <1>4, EmptySeq
<1> QED
  BY <1>1, <1>3, <1>4, <1>5, <1>6, EmptySeq, ConcatEmptySeq


\* Both words are messages, and a channel of its own belongs to each direction
\* but in a queue.
LEMMA Directions ==
  ASSUME Placed, NEW p \in Party
  PROVE  /\ Word(p) \in Message /\ Other(p) \in Party /\ Other(p) # p
         /\ Outgoing(p) \in Channel \cup {"none"} /\ Incoming(p) \in Channel \cup {"none"}
         /\ Outgoing("server") \in Carriers
         /\ handle = "new" => Outgoing(p) \in Carriers
         /\ p = "server" \/ handle # "none" =>
              Outgoing(p) \in Channel /\ Incoming(p) \in Channel
         /\ prog # "mq" => Outgoing("server") # Outgoing("client")
         /\ prog # "mq" => Incoming(p) = Outgoing(Other(p))
         /\ prog = "mq" => Incoming(p) = Outgoing(p)
         /\ prog = "mq" => Outgoing("server") = "new" /\ Outgoing("client") = handle
  BY DEF Placed, Chosen, TypeOK, InPlace, Party, Message, Word, Other,
         Outgoing, Incoming, Queue, Channel, Carriers, Fifos

\* What carries one message carries no other.
Carries(content, carrier, word) ==
  \A c \in Carriers : content[c] = IF c = carrier THEN Whole(word) ELSE <<>>
LEMMA CarriesOne ==
  ASSUME Placed, NEW content, NEW a \in Carriers, NEW b \in Carriers,
         NEW v \in Message, NEW w \in Message, Carries(content, a, v)
  PROVE  /\ content[a] = Whole(v) /\ content[a] # <<>> /\ content[a][1] = v
         /\ v # w => ~Carries(content, b, w)
<1>1. /\ Whole(v) # <<>> /\ Whole(v)[1] = v
      /\ Whole(w) # <<>> /\ Whole(w)[1] = w
  BY WholeMessage
<1>2. content[a] = Whole(v)
  BY DEF Carries
<1>3. ASSUME Carries(content, b, w) PROVE v = w
  <2>1. content[b] = Whole(w)
    BY <1>3 DEF Carries
  <2>2. content[b] # <<>>
    BY <1>1, <2>1
  <2>3. b = a
    BY <2>2 DEF Carries
  <2> QED
    BY <1>1, <1>2, <2>1, <2>3
<1> QED
  BY <1>1, <1>2, <1>3

LEMMA TravelsCarries ==
  ASSUME Placed
  PROVE  /\ \A p \in Party : Travels(p) <=> Carries(channel, Outgoing(p), Word(p))
         /\ Nothing => ~Travels("server")
         /\ Travels("server") => channel[Outgoing("server")] # <<>>
         /\ handle = "new" /\ Travels("client") => ~Travels("server")
<1>1. \A p \in Party : Travels(p) <=> Carries(channel, Outgoing(p), Word(p))
  BY DEF Travels, Carries, Whole
<1>2. /\ "server" \in Party /\ "client" \in Party
      /\ Word("server") = "ACK" /\ Word("client") = "Hi" /\ {"Hi", "ACK"} = Message
  BY DEF Party, Word, Message
<1>3. Outgoing("server") \in Carriers /\ (handle = "new" => Outgoing("client") \in Carriers)
  BY <1>2, Directions
<1>4. Travels("server") => channel[Outgoing("server")] # <<>>
  BY <1>1, <1>2, <1>3, CarriesOne
<1>5. Nothing => ~Travels("server")
  BY <1>3, <1>4 DEF Nothing
<1>6. handle = "new" /\ Travels("client") => ~Travels("server")
  BY <1>1, <1>2, <1>3, CarriesOne
<1> QED
  BY <1>1, <1>4, <1>5, <1>6

\* Types, places and counts in the steps before the loops.
LEMMA OpeningsKeepPlaces ==
  ASSUME Placed,
         \/ Unlink \/ Create \/ MkFifo("cli2srv", "start", "second")
         \/ MkFifo("srv2cli", "second", "receive") \/ Pin \/ Bind \/ Listen \/ Accept
         \/ OpenQueue \/ OpenFifo \/ OpenSecond \/ PinClient \/ Connect
  PROVE  Placed'
<1> USE DEF Placed, Chosen, ReadConfig, TypeOK, InPlace, Counted, InHand, Received, More,
            Party, Go, Setup, Opening, constant, settings, history, Ended, Fifos, Outgoing,
            OwnWords
<1>1. CASE \/ Unlink \/ Create \/ MkFifo("cli2srv", "start", "second")
           \/ MkFifo("srv2cli", "second", "receive") \/ Pin \/ Bind \/ Listen \/ Accept
  <2>1. UNCHANGED <<settings, prog, short, channel, handle, i, back, echo>>
    BY <1>1 DEF Unlink, Create, MkFifo, Pin, Bind, Listen, Accept
  <2> DEFINE Moves(to) ==
               /\ at["server"] \in {"start", "create", "second", "listen", "accept"}
               /\ at' = [at EXCEPT !["server"] = to]
               /\ to \in {"create", "second", "listen", "accept", "receive", "failed"}
               /\ to \in {"listen", "accept"} => prog = "sockets"
               /\ prog = "sockets" /\ to = "receive" => handle = "new"
               /\ prog = "sockets" /\ handle # "none" => to \notin {"listen", "failed"}
  <2> HIDE DEF Moves
  <2>2. PICK to : Moves(to)
    <3>1. CASE Unlink
      <4>1. Moves("create")
        BY <3>1 DEF Unlink, Moves
      <4> QED
        BY <4>1
    <3>2. CASE Create
      <4>1. Moves("receive")
        BY <3>2 DEF Create, Moves
      <4> QED
        BY <4>1
    <3>3. ASSUME NEW fifo \in Fifos, NEW from \in {"start", "second"},
                 NEW next \in {"second", "receive"}, MkFifo(fifo, from, next)
          PROVE  \E to : Moves(to)
      <4>1. Moves("failed") \/ Moves(next)
        BY <3>3 DEF MkFifo, Moves
      <4> QED
        BY <4>1
    <3>4. CASE Pin
      <4>1. Moves("failed") \/ Moves("receive")
        BY <3>4 DEF Pin, Moves
      <4> QED
        BY <4>1
    <3>5. CASE Bind
      <4>1. Moves("failed") \/ Moves("listen")
        BY <3>5 DEF Bind, Moves
      <4> QED
        BY <4>1
    <3>6. CASE Listen
      <4>1. Moves("accept")
        BY <3>6 DEF Listen, Moves
      <4> QED
        BY <4>1
    <3>7. CASE Accept
      <4>1. Moves("receive")
        BY <3>7 DEF Accept, Moves
      <4> QED
        BY <4>1
    <3> QED
      BY <1>1, <3>1, <3>2, <3>3, <3>4, <3>5, <3>6, <3>7
  <2>3. /\ names' \subseteq {"old", "new", "socket"} \cup Fifos
        /\ prog = "mq" => names' \subseteq {"old", "new"}
    BY <1>1 DEF Unlink, Create, MkFifo, Pin, Bind, Listen, Accept
  <2>4. TypeOK'
    BY <2>1, <2>2, <2>3 DEF Moves
  <2>5. InPlace'
    BY <2>1, <2>2, <2>3 DEF Moves
  <2>6. Counted'
    BY <2>1, <2>2 DEF Moves
  <2> QED
    BY <2>1, <2>4, <2>5, <2>6
<1>2. CASE OpenQueue \/ OpenFifo \/ OpenSecond \/ PinClient \/ Connect
  <2>1. UNCHANGED <<settings, prog, short, names, channel, i, back, echo>>
    BY <1>2 DEF OpenQueue, OpenFifo, OpenSecond, PinClient, Connect
  <2> DEFINE Moves(to) ==
               /\ at["client"] \in {"start", "open2"}
               /\ at' = [at EXCEPT !["client"] = to]
               /\ \/ to = "failed" /\ handle' = handle
                  \/ to = "open2" /\ handle' = handle /\ prog = "fifos"
                  \/ /\ to = "send" /\ handle' \in {"new", "old"}
                     /\ handle' = "old" => prog = "mq"
                     /\ prog = "sockets" => at["server"] = "accept"
  <2> HIDE DEF Moves
  <2>2. PICK to : Moves(to)
    <3>1. CASE OpenQueue
      <4>1. Moves("failed") \/ Moves("send")
        BY <3>1 DEF OpenQueue, Moves
      <4> QED
        BY <4>1
    <3>2. CASE OpenFifo
      <4>1. Moves("failed") \/ Moves("open2")
        BY <3>2 DEF OpenFifo, Moves
      <4> QED
        BY <4>1
    <3>3. CASE OpenSecond
      <4>1. Moves("failed") \/ Moves("send")
        BY <3>3 DEF OpenSecond, Moves
      <4> QED
        BY <4>1
    <3>4. CASE PinClient
      <4>1. Moves("failed") \/ Moves("send")
        BY <3>4 DEF PinClient, Moves
      <4> QED
        BY <4>1
    <3>5. CASE Connect
      <4>1. Moves("failed") \/ Moves("send")
        BY <3>5 DEF Connect, Moves
      <4> QED
        BY <4>1
    <3> QED
      BY <1>2, <3>1, <3>2, <3>3, <3>4, <3>5
  <2>3. at["client"] \in {"start", "open2"} => handle = "none"
    OBVIOUS
  <2>4. TypeOK'
    BY <2>1, <2>2 DEF Moves
  <2>5. InPlace'
    BY <2>1, <2>2, <2>3 DEF Moves
  <2>6. Counted'
    BY <2>1, <2>2 DEF Moves
  <2> QED
    BY <2>1, <2>4, <2>5, <2>6
<1> QED
  BY <1>1, <1>2


\* What a step of the loops leaves alone, and what it appends or takes.
LEMMA LoopKeepsPlaces ==
  ASSUME Placed, NEW p \in Party, Loop(p)
  PROVE  Placed'
<1> USE DEF Go, constant, settings, history, Looping
<1>0. /\ UNCHANGED <<settings, prog, short, handle>> /\ Other(p) \in Party
      /\ size' = size /\ \A q : Outgoing(q)' = Outgoing(q) /\ Incoming(q)' = Incoming(q)
  BY DEF Loop, Send, HandOver, Receive, Wait, EndOfFile, Got, BrokenPipe, Close, Other,
         Party, size, Outgoing, Incoming, Queue
<1>00. Chosen'
  BY <1>0 DEF Placed, Chosen, ReadConfig
<1>000. channel' = channel => OwnWords'
  BY <1>0 DEF Placed, OwnWords
<1>1. CASE Send(p)
  <2>1. /\ UNCHANGED <<names, back, echo>> /\ at[p] = "send"
        /\ at' = [at EXCEPT ![p] = "receive"]
        /\ channel' = [channel EXCEPT ![Outgoing(p)] = @ \o Whole(Word(p))]
        /\ More(p)
        /\ i' = IF p = "server" THEN [i EXCEPT ![p] = @ + 1] ELSE i
    BY <1>1 DEF Send, AfterSend, Whole, NextRound, Placed, Counted, Party
  <2>2. /\ channel' \in [Channel -> Seq(Message)]
        /\ OwnWords'
    <3>1. /\ Word(p) \in Message /\ Outgoing(p) \in Channel
          /\ prog # "mq" => Outgoing("client") # Outgoing("server")
      BY <2>1, Directions DEF Placed, InPlace, Party
    <3>2. Whole(Word(p)) \in Seq(Message) /\ Whole(Word(p)) \in Seq({Word(p)})
      BY <3>1, WholeMessage DEF Whole
    <3>3. channel[Outgoing(p)] \o Whole(Word(p)) \in Seq(Message)
      BY <3>1, <3>2, ConcatProperties DEF Placed, TypeOK
    <3>4. prog # "mq" => channel[Outgoing(p)] \o Whole(Word(p)) \in Seq({Word(p)})
      BY <3>2, ConcatProperties DEF Placed, OwnWords
    <3> QED
      BY <1>0, <2>1, <3>1, <3>3, <3>4 DEF Placed, TypeOK, OwnWords, Party
  <2>7. TypeOK'
    BY <1>0, <2>1, <2>2 DEF Placed, Chosen, ReadConfig, TypeOK, Counted, More, Received,
                            InHand, Ended, Party
  <2>8. InPlace'
    BY <1>0, <2>1, <2>2 DEF Placed, TypeOK, InPlace, Party
  <2>9. Counted'
    BY <1>0, <2>1, <2>2 DEF Placed, Chosen, ReadConfig, TypeOK, Counted, More, InHand,
                            Received, Party
  <2> QED
    BY <2>2, <1>00, <1>000, <2>1, <2>7, <2>8, <2>9 DEF Placed
<1>2. CASE HandOver(p)
  <2>1. /\ UNCHANGED <<names, channel, back, echo>> /\ at[p] = "send" /\ More(p)
        /\ at[Other(p)] = "waiting" /\ prog = "mq" /\ handle = "new"
        /\ at' = [at EXCEPT ![p] = "receive", ![Other(p)] = "got"]
        /\ i' = IF p = "server" THEN [i EXCEPT ![p] = @ + 1] ELSE i
    BY <1>2 DEF HandOver, AfterSend, NextRound, Placed, Counted, Party
  <2>7. TypeOK'
    BY <1>0, <2>1 DEF Placed, Chosen, ReadConfig, TypeOK, Counted, More, Received,
                      InHand, Ended, Party, Other
  <2>8. InPlace'
    BY <1>0, <2>1 DEF Placed, TypeOK, InPlace, Party, Other
  <2>9. Counted'
    BY <1>0, <2>1 DEF Placed, Chosen, ReadConfig, TypeOK, Counted, More, InHand,
                      Received, Party, Other
  <2> QED
    BY <1>00, <1>000, <2>1, <2>7, <2>8, <2>9 DEF Placed
<1>3. CASE Receive(p)
  <2>1. /\ UNCHANGED <<names, i>> /\ at[p] = "receive" /\ More(p)
        /\ at' = [at EXCEPT ![p] = "got"]
    BY <1>3 DEF Receive, Placed, Counted, Party
  <2>2. Incoming(p) \in Channel /\ (prog # "mq" => Incoming(p) = Outgoing(Other(p)))
    BY <2>1, Directions DEF Placed, InPlace, Party
  <2> DEFINE c == channel[Incoming(p)]
  <2>3. PICK k \in 1 .. Len(c) :
          /\ channel' = [channel EXCEPT ![Incoming(p)] = SubSeq(c, k + 1, Len(c))]
          /\ back' = back + (IF p = "client" /\ c[1] = "Hi" THEN 1 ELSE 0)
          /\ echo' = echo + (IF p = "server" /\ c[1] = "ACK" THEN 1 ELSE 0)
    BY <1>3 DEF Receive
  <2>4. /\ channel' \in [Channel -> Seq(Message)]
        /\ OwnWords'
    <3>1. c \in Seq(Message) /\ (prog # "mq" => c \in Seq({Word(Other(p))}))
      BY <1>0, <2>2 DEF Placed, TypeOK, OwnWords
    <3>2. ASSUME NEW S, c \in Seq(S) PROVE SubSeq(c, k + 1, Len(c)) \in Seq(S)
      BY <3>2, SubSeqProperties, LenProperties
    <3>3. SubSeq(c, k + 1, Len(c)) \in Seq(Message)
      BY <3>1, <3>2
    <3>4. prog # "mq" => SubSeq(c, k + 1, Len(c)) \in Seq({Word(Other(p))})
      BY <3>1, <3>2
    <3>5. prog # "mq" => \A q \in Party : q # Other(p) => Outgoing(q) # Incoming(p)
      BY <2>2, Directions DEF Party, Other
    <3> QED
      BY <1>0, <2>2, <2>3, <3>3, <3>4, <3>5 DEF Placed, TypeOK, OwnWords
  <2>5. prog # "mq" => back' = back /\ echo' = echo
    <3>1. prog # "mq" => c[1] = Word(Other(p))
      <4>1. prog # "mq" => c \in Seq({Word(Other(p))})
        BY <1>0, <2>2 DEF Placed, OwnWords
      <4>2. 1 \in 1 .. Len(c)
        BY <2>3
      <4> QED
        BY <4>1, <4>2, ElementOfSeq
    <3> QED
      BY <2>3, <3>1 DEF Word, Other, Party, Placed, TypeOK
  <2> HIDE DEF c
  <2>6. /\ back' \in back .. back + 1 /\ (p = "server" => back' = back)
        /\ echo' \in echo .. echo + 1 /\ (p = "client" => echo' = echo)
    BY <2>3 DEF Placed, TypeOK
  <2>7. TypeOK'
    BY <1>0, <2>1, <2>4, <2>5, <2>6 DEF Placed, Chosen, ReadConfig, TypeOK, Counted,
                                        More, Received, InHand, Ended, Party
  <2>8. InPlace'
    BY <1>0, <2>1, <2>4, <2>5, <2>6 DEF Placed, TypeOK, InPlace, Party
  <2>9. Counted'
    BY <1>0, <2>1, <2>4, <2>5, <2>6 DEF Placed, Chosen, ReadConfig, TypeOK, Counted,
                                        More, InHand, Received, Party
  <2> QED
    BY <2>4, <1>00, <1>000, <2>1, <2>7, <2>8, <2>9 DEF Placed
<1>4. CASE Wait(p) \/ EndOfFile(p) \/ BrokenPipe(p)
  <2>1. /\ UNCHANGED <<names, channel, i, back, echo>>
        /\ \/ /\ at[p] = "receive" /\ More(p)
              /\ \/ at' = [at EXCEPT ![p] = "waiting"] /\ prog = "mq"
                 \/ at' = [at EXCEPT ![p] = "got"]
                 \/ at' = [at EXCEPT ![p] = "broken"]
           \/ at[p] = "send" /\ at' = [at EXCEPT ![p] = "broken"]
    BY <1>4 DEF Wait, EndOfFile, BrokenPipe, Placed, Counted, Party
  <2>7. TypeOK'
    BY <1>0, <2>1 DEF Placed, Chosen, ReadConfig, TypeOK, Counted, More, Received,
                      InHand, Ended, Party
  <2>8. InPlace'
    BY <1>0, <2>1 DEF Placed, TypeOK, InPlace, Party
  <2>9. Counted'
    BY <1>0, <2>1 DEF Placed, Chosen, ReadConfig, TypeOK, Counted, More, InHand,
                      Received, Party
  <2> QED
    BY <1>00, <1>000, <2>1, <2>7, <2>8, <2>9 DEF Placed
<1>5. CASE Got(p)
  <2>1. /\ UNCHANGED <<names, channel, back, echo>> /\ at[p] = "got"
        /\ at' = [at EXCEPT ![p] = "send"]
        /\ i' = IF p = "client" THEN [i EXCEPT ![p] = @ + 1] ELSE i
    BY <1>5 DEF Got, NextRound
  <2>7. TypeOK'
    BY <1>0, <2>1 DEF Placed, Chosen, ReadConfig, TypeOK, Counted, More, Received,
                      InHand, Ended, Party
  <2>8. InPlace'
    BY <1>0, <2>1 DEF Placed, TypeOK, InPlace, Party
  <2>9. Counted'
    BY <1>0, <2>1 DEF Placed, Chosen, ReadConfig, TypeOK, Counted, More, InHand,
                      Received, Party
  <2> QED
    BY <1>00, <1>000, <2>1, <2>7, <2>8, <2>9 DEF Placed
<1>6. CASE Close(p)
  <2>1. /\ UNCHANGED <<channel, i, back, echo>> /\ ~More(p)
        /\ at[p] = IF p = "server" THEN "receive" ELSE "send"
        /\ at' = [at EXCEPT ![p] = "done"] /\ (names' = names \/ names' = {})
    BY <1>6 DEF Close
  <2>7. TypeOK'
    BY <1>0, <2>1 DEF Placed, Chosen, ReadConfig, TypeOK, Counted, More, Received,
                      InHand, Ended, Party
  <2>8. InPlace'
    BY <1>0, <2>1 DEF Placed, TypeOK, InPlace, Party
  <2>9. Counted'
    BY <1>0, <2>1 DEF Placed, Chosen, ReadConfig, TypeOK, Counted, More, InHand,
                      Received, Party
  <2> QED
    BY <1>00, <1>000, <2>1, <2>7, <2>8, <2>9 DEF Placed
<1> QED
  BY <1>1, <1>2, <1>3, <1>4, <1>5, <1>6 DEF Loop

----------------------------------------------------------------------------
\* The token and the counts, where no read is short and nobody was killed.
Token == Orderly => OneToken /\ AnswersAddUp

\* Steps that move no message and take nobody in or out of the hands it is in.
LEMMA QuietKeepsToken ==
  ASSUME PingPongInv, Orderly' => Orderly,
         UNCHANGED <<settings, prog, channel, echo, back>>,
         InHand' <=> InHand, Wanted' <=> Wanted,
         i'["server"] = i["server"], Received' = Received,
         \/ handle' = handle
         \/ handle = "none" /\ ~Wanted /\ back = 0 /\ Received = 0
  PROVE  Token'
<1> SUFFICES ASSUME Orderly' PROVE OneToken' /\ AnswersAddUp'
  BY DEF Token
<1>1. /\ Placed /\ OneToken /\ AnswersAddUp /\ Orderly
  BY DEF PingPongInv
<1>2. /\ Nothing' <=> Nothing
      /\ Travels("server")' <=> Travels("server")
      /\ handle' = handle => \A p \in Party : Travels(p)' <=> Travels(p)
  BY DEF Nothing, Travels, Outgoing, Queue, size, settings, Party, Word
<1>3. CASE handle' = handle
  <2>1. OneToken'
    BY <1>1, <1>2, <1>3 DEF OneToken
  <2>2. AnswersAddUp'
    BY <1>1, <1>2, <1>3 DEF AnswersAddUp
  <2> QED
    BY <2>1, <2>2
<1>4. CASE handle = "none" /\ ~Wanted /\ back = 0 /\ Received = 0
  <2>1. Nothing /\ ~InHand /\ ~Travels("server")
    BY <1>1, <1>4, TravelsCarries DEF OneToken
  <2>2. i["server"] = 0 /\ echo = 0
    BY <1>1, <1>4 DEF AnswersAddUp
  <2>3. OneToken'
    BY <1>2, <1>4, <2>1 DEF OneToken
  <2>4. AnswersAddUp'
    BY <1>2, <1>4, <2>1, <2>2 DEF AnswersAddUp
  <2> QED
    BY <2>3, <2>4
<1> QED
  BY <1>3, <1>4

LEMMA OpeningsKeepToken ==
  ASSUME PingPongInv,
         \/ Unlink \/ Create \/ MkFifo("cli2srv", "start", "second")
         \/ MkFifo("srv2cli", "second", "receive") \/ Pin \/ Bind \/ Listen \/ Accept
         \/ OpenQueue \/ OpenFifo \/ OpenSecond \/ PinClient \/ Connect
  PROVE  NoBrokenPipe' /\ Token'
<1> USE DEF Go, Setup, Opening, constant, settings, history
<1>1. /\ DOMAIN at = Party /\ InPlace /\ Placed /\ NoBrokenPipe
  BY DEF PingPongInv, Placed, TypeOK
<1>2. CASE \/ Unlink \/ Create \/ MkFifo("cli2srv", "start", "second")
           \/ MkFifo("srv2cli", "second", "receive") \/ Pin \/ Bind \/ Listen \/ Accept
  <2>1. /\ UNCHANGED <<settings, prog, short, channel, handle, i, back, echo>>
        /\ at'["client"] = at["client"]
        /\ at["server"] \notin {"got", "send", "killed"}
        /\ at'["server"] \notin {"got", "send", "killed", "broken"}
    BY <1>1, <1>2 DEF Unlink, Create, MkFifo, Pin, Bind, Listen, Accept, Party
  <2>2. Orderly' <=> Orderly
    BY <2>1 DEF Orderly, Party
  <2>3. Token'
    BY <2>1, <2>2, QuietKeepsToken DEF InHand, Wanted, Received
  <2> QED
    BY <1>1, <2>1, <2>2, <2>3 DEF NoBrokenPipe, Party
<1>3. CASE OpenQueue \/ OpenFifo \/ OpenSecond \/ PinClient \/ Connect
  <2>1. /\ UNCHANGED <<settings, prog, short, channel, i, back, echo>>
        /\ at'["server"] = at["server"]
        /\ at["client"] \in {"start", "open2"}
        /\ at'["client"] \in {"send", "open2", "failed"}
    BY <1>1, <1>3 DEF OpenQueue, OpenFifo, OpenSecond, PinClient, Connect, Party
  <2>2. handle = "none" /\ back = 0 /\ i["client"] = 0
    BY <1>1, <2>1 DEF InPlace
  <2>3. Orderly' <=> Orderly
    BY <2>1 DEF Orderly, Party
  <2>4. Token'
    BY <2>1, <2>2, <2>3, QuietKeepsToken DEF InHand, Wanted, Received
  <2> QED
    BY <1>1, <2>1, <2>3, <2>4 DEF NoBrokenPipe, Party
<1> QED
  BY <1>2, <1>3

\* A program that has not all its messages still has a peer, or its last
\* message lies there to be read: both count the same messages.
LEMMA PeerStays ==
  ASSUME PingPongInv, Orderly, NEW p \in Party
  PROVE  ~EndOfFile(p) /\ ~BrokenPipe(p)
<1>1. /\ Placed /\ NoBrokenPipe /\ OneToken /\ AnswersAddUp /\ TypeOK /\ InPlace /\ Counted
  BY DEF PingPongInv, Placed
<1>0. nmessages \in Nat
  BY <1>1, IpcAssumption DEF Placed, Chosen, ReadConfig
<1> SUFFICES ASSUME prog = "sockets", at[Other(p)] \in Ended,
                    at[p] \in {"send", "receive"}, More(p)
             PROVE  /\ at[p] = "receive"
                    /\ channel[Incoming(p)] # <<>> /\ channel[Outgoing(p)] = <<>>
  <2>1. at[p] = "receive" => More(p) \/ p = "server"
    BY <1>1 DEF Counted, Party
  <2>2. EndOfFile(p) => /\ prog = "sockets" /\ at[Other(p)] \in Ended
                        /\ at[p] = "receive" /\ More(p) /\ channel[Incoming(p)] = <<>>
    BY <2>1 DEF EndOfFile, PeerGone, Go
  <2>3. BrokenPipe(p) => /\ prog = "sockets" /\ at[Other(p)] \in Ended
                         /\ \/ at[p] = "receive" /\ More(p) /\ channel[Outgoing(p)] # <<>>
                            \/ at[p] = "send" /\ More(p)
    <3>1. p = "server" /\ at[p] = "send" => More(p)
      BY <1>1 DEF Counted
    <3> QED
      BY <2>1, <3>1 DEF BrokenPipe, PeerGone, Go, Party
  <2> QED
    BY <2>2, <2>3
<1>2. at[Other(p)] \in {"failed", "done"}
  BY <1>1, Directions DEF NoBrokenPipe, Orderly, Ended
<1>3. back = 0 /\ echo = 0
  BY <1>1 DEF Counted
<1>4. CASE p = "client"
  <2>1. at["server"] = "done" /\ handle = "new"
    BY <1>1, <1>2, <1>4 DEF InPlace, Other, TypeOK
  <2>2. i["server"] = nmessages /\ i["client"] < nmessages /\ Received = i["client"]
    BY <1>0, <1>1, <1>4, <2>1 DEF Counted, More, TypeOK, Party, Received
  <2>3. Travels("server")
    BY <1>0, <1>1, <1>3, <2>1, <2>2 DEF AnswersAddUp, TypeOK, Party
  <2>4. Wanted
    BY <1>1, <2>3, TravelsCarries DEF OneToken
  <2>5. Outgoing("client") # Outgoing("server") /\ Outgoing("client") \in Carriers
        /\ Incoming("client") = Outgoing("server")
    BY <1>1, <2>1, <1>4, Directions DEF Other
  <2>6. channel[Outgoing("client")] = <<>> /\ channel[Outgoing("server")] # <<>>
    BY <1>1, <2>3, <2>5, TravelsCarries DEF Travels
  <2> QED
    BY <1>4, <2>4, <2>5, <2>6 DEF Wanted
<1>5. CASE p = "server"
  <2>1. at["client"] = "done" /\ handle = "new"
    BY <1>1, <1>2, <1>5 DEF InPlace, Other
  <2>2. i["client"] = nmessages /\ i["server"] < nmessages /\ Received = i["client"]
    BY <1>0, <1>1, <1>5, <2>1 DEF Counted, More, TypeOK, Party, Received
  <2>3. ~Wanted
    BY <2>1 DEF Wanted
  <2>4. ~Travels("server")
    BY <1>1, <2>3, TravelsCarries DEF OneToken
  <2> QED
    BY <1>0, <1>1, <1>3, <2>1, <2>2, <2>4 DEF AnswersAddUp, TypeOK, Party
<1> QED
  BY <1>4, <1>5 DEF Party

LEMMA SendKeepsToken ==
  ASSUME PingPongInv, NEW p \in Party, Send(p) \/ HandOver(p)
  PROVE  Token'
<1>1. /\ Placed /\ TypeOK /\ InPlace /\ Counted /\ DOMAIN at = Party
      /\ DOMAIN i = Party /\ DOMAIN channel = Channel
      /\ i["server"] \in Int /\ i["client"] \in Int /\ back \in Int /\ echo \in Int
  BY DEF PingPongInv, Placed, TypeOK, Party
<1>2. /\ UNCHANGED <<settings, prog, short, handle, back, echo>>
      /\ at[p] = "send" /\ size' = size
      /\ \A q : Outgoing(q)' = Outgoing(q)
  BY DEF Send, HandOver, Go, Looping, constant, settings, history, size, Outgoing, Queue
<1>3. i' = IF p = "server" THEN [i EXCEPT ![p] = @ + 1] ELSE i
  BY DEF Send, HandOver, NextRound
<1>4. /\ \A q \in Party :
           q # p => (at'[q] = at[q] \/ (at[q] = "waiting" /\ at'[q] = "got"))
      /\ at'[p] = "receive"
  <2>1. CASE Send(p)
    BY <1>1, <2>1 DEF Send, Go, AfterSend
  <2>2. CASE HandOver(p)
    <3>1. Other(p) \in Party /\ Other(p) # p
      BY <1>1, Directions
    <3>2. /\ at[Other(p)] = "waiting"
          /\ at' = [at EXCEPT ![p] = "receive", ![Other(p)] = "got"]
      BY <2>2 DEF HandOver, AfterSend
    <3> QED
      BY <1>1, <3>1, <3>2
  <2> QED
    BY <2>1, <2>2
<1> SUFFICES ASSUME Orderly' PROVE OneToken' /\ AnswersAddUp'
  BY DEF Token
<1>5. Orderly /\ OneToken /\ AnswersAddUp
  BY <1>2, <1>4 DEF PingPongInv, Orderly
<1>6. /\ "server" \in Party /\ "client" \in Party /\ "server" # "client"
      /\ Word("server") = "ACK" /\ Word("client") = "Hi" /\ {"Hi", "ACK"} = Message
      /\ Outgoing("server") \in Carriers
      /\ handle = "new" => Outgoing("client") \in Carriers
  BY <1>1, Directions DEF Party, Word, Message
<1>7. \A q \in Party : Travels(q)' <=> Carries(channel', Outgoing(q), Word(q))
  BY <1>2, <1>6 DEF Travels, Carries, Whole, Word
<1>8. CASE Send(p)
  <2>1. /\ channel' = [channel EXCEPT ![Outgoing(p)] = @ \o Whole(Word(p))]
        /\ \A q \in Party : q # p => at'[q] = at[q]
    BY <1>1, <1>8 DEF Send, Go, Whole
  <2>2. ~(prog = "mq" /\ at[Other(p)] = "waiting" /\ handle = "new")
    BY <1>8 DEF Send
  <2>3. ASSUME Nothing, Outgoing(p) \in Carriers
        PROVE  Carries(channel', Outgoing(p), Word(p))
    <3>1. channel[Outgoing(p)] = <<>> /\ Outgoing(p) \in Channel
      BY <2>3 DEF Nothing, Carriers
    <3>2. Whole(Word(p)) = <<>> \o Whole(Word(p))
      BY <1>1, Directions, WholeMessage
    <3> QED
      BY <1>1, <2>1, <2>3, <3>1, <3>2 DEF Carries, Nothing, Carriers
  <2>4. CASE p = "client" /\ handle = "new"
    <3>1. ~Wanted /\ Nothing /\ ~InHand /\ ~Travels("server")
      BY <1>1, <1>2, <1>5, <2>4, TravelsCarries DEF Wanted, OneToken
    <3>2. Carries(channel', Outgoing("client"), "Hi")
      BY <1>6, <2>3, <2>4, <3>1
    <3>3. Travels("client")' /\ ~Travels("server")'
      BY <1>1, <1>6, <1>7, <2>4, <3>2, CarriesOne
    <3>4. Wanted' /\ ~InHand' /\ Received' = Received
      BY <1>2, <1>3, <1>4, <1>6, <2>1, <2>4, <3>1 DEF Wanted, InHand, Received
    <3>5. OneToken'
      BY <1>6, <3>3, <3>4 DEF OneToken
    <3>6. AnswersAddUp'
      BY <1>2, <1>3, <1>5, <1>6, <2>4, <3>1, <3>3, <3>4 DEF AnswersAddUp
    <3> QED
      BY <3>5, <3>6
  <2>5. CASE p = "client" /\ handle # "new"
    <3>1. handle = "old" /\ prog = "mq" /\ Outgoing("client") = "old"
      BY <1>1, <1>2, <2>5, Directions DEF InPlace, TypeOK, Party
    <3>2. \A c \in Carriers : channel'[c] = channel[c]
      BY <1>1, <2>1, <2>5, <3>1 DEF Carriers
    <3>3. /\ Nothing' <=> Nothing
          /\ ~Wanted /\ ~Wanted' /\ (InHand' <=> InHand)
      BY <1>2, <1>6, <2>1, <2>5, <3>2 DEF Nothing, Wanted, InHand
    <3>4. OneToken'
      BY <1>5, <3>3 DEF OneToken
    <3>5. AnswersAddUp'
      BY <1>2, <1>3, <1>5, <1>6, <2>5 DEF AnswersAddUp
    <3> QED
      BY <3>4, <3>5
  <2>6. CASE p = "server"
    <3>1. InHand /\ Wanted /\ Nothing /\ ~Travels("server") /\ handle = "new"
      BY <1>1, <1>2, <1>5, <2>6, TravelsCarries DEF Wanted, OneToken, InHand
    <3>2. Travels("server")'
      BY <1>6, <1>7, <2>3, <2>6, <3>1
    <3>3. /\ Wanted' /\ ~InHand' /\ Received' = Received
      BY <1>2, <1>3, <1>4, <1>6, <2>1, <2>6, <3>1 DEF Wanted, InHand, Received
    <3>4. OneToken'
      BY <1>6, <3>2, <3>3 DEF OneToken
    <3>5. i'["server"] = i["server"] + 1 /\ Received \in Int
      BY <1>1, <1>3, <1>6, <2>6 DEF Received
    <3>6. AnswersAddUp'
      BY <1>1, <1>2, <1>5, <3>1, <3>2, <3>3, <3>5 DEF AnswersAddUp
    <3> QED
      BY <3>4, <3>6
  <2> QED
    BY <2>4, <2>5, <2>6 DEF Party
<1>9. CASE HandOver(p)
  <2>1. /\ channel' = channel /\ handle = "new" /\ at[Other(p)] = "waiting"
        /\ at' = [at EXCEPT ![p] = "receive", ![Other(p)] = "got"]
    BY <1>9 DEF HandOver, AfterSend, Looping
  <2>2. /\ Nothing' <=> Nothing
        /\ Travels("server")' <=> Travels("server")
    BY <1>2, <1>6, <1>7, <2>1, TravelsCarries, <1>1 DEF Nothing
  <2>3. CASE p = "client"
    <3>1. at["client"] = "send" /\ at'["client"] = "receive" /\ at'["server"] = "got"
      BY <1>1, <1>2, <1>6, <2>1, <2>3 DEF Other
    <3>2. Nothing /\ ~Travels("server")
      BY <1>1, <1>5, <3>1, TravelsCarries DEF Wanted, OneToken
    <3>3. Wanted' /\ InHand' /\ Received' = Received
      BY <1>2, <1>3, <1>6, <2>1, <2>3, <3>1 DEF Wanted, InHand, Received
    <3>4. OneToken'
      BY <2>2, <3>2, <3>3 DEF OneToken
    <3>5. AnswersAddUp'
      BY <1>2, <1>3, <1>5, <1>6, <2>1, <2>2, <2>3, <3>3 DEF AnswersAddUp
    <3> QED
      BY <3>4, <3>5
  <2>4. CASE p = "server"
    <3>1. /\ at["server"] = "send" /\ at'["server"] = "receive"
          /\ at["client"] = "waiting" /\ at'["client"] = "got"
      BY <1>1, <1>2, <1>6, <2>1, <2>4 DEF Other
    <3>2. Nothing /\ ~Travels("server")
      BY <1>1, <1>5, <3>1, TravelsCarries DEF InHand, OneToken
    <3>3. /\ ~Wanted' /\ ~InHand' /\ Received' = Received + 1 /\ Received \in Int
          /\ i'["server"] = i["server"] + 1
      BY <1>1, <1>3, <1>6, <2>4, <3>1 DEF Wanted, InHand, Received
    <3>4. OneToken'
      BY <2>2, <3>2, <3>3 DEF OneToken
    <3>5. AnswersAddUp'
      BY <1>1, <1>2, <1>5, <2>1, <2>2, <3>3 DEF AnswersAddUp
    <3> QED
      BY <3>4, <3>5
  <2> QED
    BY <2>3, <2>4 DEF Party
<1> QED
  BY <1>8, <1>9

\* A read of a whole message leaves nothing.
LEMMA WholeTaken ==
  ASSUME Placed, NEW word \in Message
  PROVE  SubSeq(Whole(word), size + 1, Len(Whole(word))) = <<>>
<1>1. size \in Nat /\ Whole(word) \in Seq(Message) /\ Len(Whole(word)) = size
  BY WholeMessage
<1> QED
  BY <1>1, SubSeqEmpty

LEMMA ReceiveKeepsToken ==
  ASSUME PingPongInv, NEW p \in Party, Receive(p)
  PROVE  Token'
<1>1. /\ Placed /\ TypeOK /\ InPlace /\ DOMAIN at = Party /\ DOMAIN channel = Channel
      /\ i["server"] \in Int /\ i["client"] \in Int /\ back \in Int /\ echo \in Int
      /\ Received \in Int
  BY DEF PingPongInv, Placed, TypeOK, Party, Received
<1>2. /\ UNCHANGED <<settings, prog, short, handle, i>> /\ size' = size /\ at[p] = "receive"
      /\ at' = [at EXCEPT ![p] = "got"]
      /\ \A q : Outgoing(q)' = Outgoing(q)
  BY DEF Receive, Go, Looping, constant, settings, size, Outgoing, Queue
<1> SUFFICES ASSUME Orderly' PROVE OneToken' /\ AnswersAddUp'
  BY DEF Token
<1>3. Orderly /\ OneToken /\ AnswersAddUp
  BY <1>1, <1>2 DEF PingPongInv, Orderly
<1>4. /\ "server" \in Party /\ "client" \in Party /\ "server" # "client"
      /\ Word("server") = "ACK" /\ Word("client") = "Hi" /\ {"Hi", "ACK"} = Message
      /\ \A q \in Party : Word(q) \in Message
  BY DEF Party, Word, Message
<1> DEFINE c == channel[Incoming(p)]
<1>5. /\ size \in 1 .. Len(c)
      /\ channel' = [channel EXCEPT ![Incoming(p)] = SubSeq(c, size + 1, Len(c))]
      /\ back' = back + (IF p = "client" /\ c[1] = "Hi" THEN 1 ELSE 0)
      /\ echo' = echo + (IF p = "server" /\ c[1] = "ACK" THEN 1 ELSE 0)
  BY <1>3 DEF Receive, Orderly
<1>6. c # <<>>
  BY <1>5
<1>7. CASE Incoming(p) \in Carriers
  <2>1. ~Nothing
    BY <1>6, <1>7 DEF Nothing
  <2>2. Wanted /\ ~InHand /\ handle = "new"
    BY <1>3, <2>1 DEF OneToken, Wanted
  <2>3. PICK q \in Party : Travels(q)
    BY <1>3, <2>2 DEF OneToken
  <2>4. Carries(channel, Outgoing(q), Word(q))
    BY <1>1, <2>3, TravelsCarries
  <2>5. Incoming(p) = Outgoing(q) /\ c = Whole(Word(q))
    BY <1>6, <1>7, <2>4 DEF Carries
  <2>6. c[1] = Word(q) /\ SubSeq(c, size + 1, Len(c)) = <<>>
    BY <1>1, <1>4, <2>5, WholeMessage, WholeTaken
  <2>7. Nothing'
    BY <1>1, <1>5, <1>7, <2>4, <2>5, <2>6 DEF Nothing, Carries, Carriers
  <2>8. ~Travels("server")'
    <3>1. Outgoing("server") \in Carriers
      BY <1>1, <1>4, Directions
    <3>2. channel'[Outgoing("server")] = <<>>
      BY <2>7, <3>1 DEF Nothing
    <3>3. Travels("server")' => channel'[Outgoing("server")] = Whole("ACK")
      BY <1>2, <1>4, <3>1 DEF Travels, Whole, Word
    <3> QED
      BY <1>1, <1>4, <3>2, <3>3, WholeMessage
  <2>9. Travels("server") <=> q = "server"
    BY <1>1, <1>4, <2>2, <2>3, TravelsCarries DEF Party
  <2>10. i["server"] + back = Received + echo + (IF q = "server" THEN 1 ELSE 0)
    BY <1>3, <2>2, <2>9 DEF AnswersAddUp
  <2>11. handle' = "new" /\ i' = i
    BY <1>2, <2>2
  <2>12. CASE p = "client"
    <3>1. /\ ~Wanted' /\ ~InHand' /\ Received' = Received + 1
      BY <1>1, <1>2, <1>4, <2>2, <2>12 DEF Wanted, InHand, Received
    <3>2. OneToken'
      BY <2>7, <3>1 DEF OneToken
    <3>3. back' = back + (IF q = "client" THEN 1 ELSE 0) /\ echo' = echo
      BY <1>1, <1>4, <1>5, <2>6, <2>12 DEF Party
    <3>4. i["server"] + back' = Received + 1 + echo'
      <4>1. CASE q = "server"
        BY <1>1, <1>4, <2>10, <3>3, <4>1
      <4>2. CASE q = "client"
        BY <1>1, <1>4, <2>10, <3>3, <4>2
      <4> QED
        BY <4>1, <4>2 DEF Party
    <3>5. AnswersAddUp'
      BY <1>1, <2>8, <2>11, <3>1, <3>3, <3>4 DEF AnswersAddUp
    <3> QED
      BY <3>2, <3>5
  <2>13. CASE p = "server"
    <3>1. /\ Wanted' /\ InHand' /\ Received' = Received
      BY <1>1, <1>2, <1>4, <2>2, <2>13 DEF Wanted, InHand, Received
    <3>2. OneToken'
      BY <2>7, <3>1 DEF OneToken
    <3>3. echo' = echo + (IF q = "server" THEN 1 ELSE 0) /\ back' = back
      BY <1>1, <1>4, <1>5, <2>6, <2>13 DEF Party
    <3>4. i["server"] + back' = Received + echo'
      BY <1>1, <1>4, <2>10, <3>3 DEF Party
    <3>5. AnswersAddUp'
      BY <1>1, <2>8, <2>11, <3>1, <3>3, <3>4 DEF AnswersAddUp
    <3> QED
      BY <3>2, <3>5
  <2> QED
    BY <2>12, <2>13 DEF Party
<1>8. CASE Incoming(p) \notin Carriers
  <2>1. p = "client" /\ handle = "old"
    BY <1>1, <1>2, <1>8 DEF InPlace, Incoming, Outgoing, Queue, Other, Carriers,
                            Channel, Fifos, Party, TypeOK
  <2>2. \A d \in Carriers : channel'[d] = channel[d]
    BY <1>1, <1>5, <1>8 DEF Carriers
  <2>3. /\ Nothing' <=> Nothing
        /\ ~Wanted /\ ~Wanted' /\ (InHand' <=> InHand) /\ echo' = echo
    <3>1. Nothing' <=> Nothing
      BY <2>2 DEF Nothing
    <3>2. at'["server"] = at["server"] /\ echo' = echo
      BY <1>1, <1>2, <1>4, <1>5, <2>1
    <3> QED
      BY <1>2, <2>1, <3>1, <3>2 DEF Wanted, InHand
  <2>4. OneToken'
    BY <1>3, <2>3 DEF OneToken
  <2>5. AnswersAddUp'
    BY <1>2, <1>3, <2>1, <2>3 DEF AnswersAddUp
  <2> QED
    BY <2>4, <2>5
<1> QED
  BY <1>7, <1>8

\* The loops and a kill, and with them every step.
LEMMA LoopKeepsToken ==
  ASSUME PingPongInv, NEW p \in Party, Loop(p)
  PROVE  NoBrokenPipe' /\ Token'
<1> USE DEF Go, Looping, constant, settings, history
<1>1. /\ Placed /\ DOMAIN at = Party /\ DOMAIN i = Party /\ NoBrokenPipe
      /\ "server" \in Party /\ "client" \in Party /\ Party = {"server", "client"}
      /\ i["client"] \in Int
  BY DEF PingPongInv, Placed, TypeOK, Party
<1>2. short' = short /\ (Orderly' => Orderly)
  BY <1>1 DEF Loop, Send, HandOver, Receive, Wait, EndOfFile, Got, BrokenPipe, Close,
              Orderly, AfterSend, Other
<1>3. NoBrokenPipe'
  <2> SUFFICES ASSUME Orderly' PROVE \A q \in Party : at'[q] # "broken"
    BY DEF NoBrokenPipe
  <2>1. Orderly /\ \A q \in Party : at[q] # "broken"
    BY <1>1, <1>2 DEF NoBrokenPipe
  <2>2. ~BrokenPipe(p)
    BY <2>1, PeerStays
  <2> QED
    BY <1>1, <2>1, <2>2 DEF Loop, Send, HandOver, Receive, Wait, EndOfFile, Got, Close,
                            AfterSend, Other
<1>4. CASE Send(p) \/ HandOver(p)
  BY <1>4, SendKeepsToken, <1>3
<1>5. CASE Receive(p)
  BY <1>5, ReceiveKeepsToken, <1>3
<1>6. CASE EndOfFile(p) \/ BrokenPipe(p)
  <2>1. ~Orderly
    BY <1>6, PeerStays
  <2> QED
    BY <1>2, <1>3, <2>1 DEF Token
<1>7. CASE Wait(p) \/ Got(p) \/ Close(p)
  <2>1. UNCHANGED <<settings, prog, channel, echo, back, handle>>
    BY <1>7 DEF Wait, Got, Close
  <2>2. i'["server"] = i["server"] /\ Received' = Received
    BY <1>1, <1>7 DEF Wait, Got, Close, Received, NextRound
  <2>3. (InHand' <=> InHand) /\ (Wanted' <=> Wanted)
    BY <1>1, <1>7, <2>1 DEF Wait, Got, Close, InHand, Wanted
  <2> QED
    BY <1>2, <1>3, <2>1, <2>2, <2>3, QuietKeepsToken
<1> QED
  BY <1>4, <1>5, <1>6, <1>7 DEF Loop

LEMMA KillKeeps ==
  ASSUME PingPongInv, NEW p \in Party, Kill(p)
  PROVE  Placed' /\ NoBrokenPipe' /\ Token'
<1>1. /\ UNCHANGED <<constant, names, channel, handle, i, history>>
      /\ at' = [at EXCEPT ![p] = "killed"] /\ at[p] \notin Ended
      /\ Placed /\ DOMAIN at = Party
  BY DEF Kill, PingPongInv, Placed, TypeOK
<1>2. ~Orderly'
  BY <1>1 DEF Orderly
<1>3. Chosen' /\ TypeOK'
  BY <1>1 DEF Placed, Chosen, ReadConfig, TypeOK, constant, settings, history, Ended,
              Party
<1>4. InPlace'
  BY <1>1 DEF Placed, TypeOK, InPlace, constant, settings, history, Ended, Party
<1>5. OwnWords'
  BY <1>1 DEF Placed, OwnWords, Outgoing, Queue, constant, settings
<1>6. Counted'
  BY <1>1 DEF Placed, Counted, TypeOK, Received, InHand, More, constant, settings,
              history, Party, Ended
<1> QED
  BY <1>2, <1>3, <1>4, <1>5, <1>6 DEF Placed, NoBrokenPipe, Token

LEMMA NextKeepsPingPongInv == PingPongInv /\ [Next]_vars => PingPongInv'
<1> SUFFICES ASSUME PingPongInv, [Next]_vars PROVE Placed' /\ NoBrokenPipe' /\ Token'
  BY DEF PingPongInv, Token
<1>1. Placed /\ NoBrokenPipe /\ Token
  BY DEF PingPongInv, Token
<1>2. ASSUME NEW p \in Party, Loop(p) PROVE Placed' /\ NoBrokenPipe' /\ Token'
  BY <1>1, <1>2, LoopKeepsPlaces, LoopKeepsToken
<1>3. CASE \/ Unlink \/ Create \/ MkFifo("cli2srv", "start", "second")
           \/ MkFifo("srv2cli", "second", "receive") \/ Pin \/ Bind \/ Listen \/ Accept
           \/ OpenQueue \/ OpenFifo \/ OpenSecond \/ PinClient \/ Connect
  BY <1>1, <1>3, OpeningsKeepPlaces, OpeningsKeepToken
<1>4. ASSUME NEW p \in Party, Kill(p) PROVE Placed' /\ NoBrokenPipe' /\ Token'
  BY <1>4, KillKeeps
<1>5. CASE UNCHANGED vars
  <2>1. Placed'
    BY <1>1, <1>5 DEF vars, Placed, Chosen, ReadConfig, settings, TypeOK, InPlace,
                      OwnWords, Outgoing, Queue, Counted, More, Received, InHand
  <2>2. NoBrokenPipe' /\ Token'
    BY <1>1, <1>5 DEF vars, settings, NoBrokenPipe, Token, Orderly, OneToken,
                      AnswersAddUp, Nothing, Wanted, InHand, Received, Travels,
                      Outgoing, Queue, size
  <2> QED
    BY <2>1, <2>2
<1>6. "server" \in Party /\ "client" \in Party
  BY DEF Party
<1> QED
  BY <1>2, <1>3, <1>4, <1>5, <1>6 DEF Next, Server, Client

LEMMA InitPingPongInv == Init => PingPongInv
<1> SUFFICES ASSUME Init PROVE PingPongInv
  OBVIOUS
<1>1. at = [p \in Party |-> "start"] /\ i = [p \in Party |-> 0] /\ handle = "none"
      /\ back = 0 /\ echo = 0
  BY DEF Init
<1>2. nmessages \in Nat /\ 0 \in 0 .. nmessages
  BY IpcAssumption DEF Init, ReadConfig
<1>3. Chosen
  BY DEF Init, Chosen
<1>4. names \subseteq {"old", "new", "socket"} \cup Fifos
      /\ (prog = "mq" => names \subseteq {"old", "new"})
  <2>1. CASE prog = "mq"
    BY <2>1 DEF Init
  <2>2. CASE prog = "fifos"
    BY <2>2 DEF Init
  <2>3. CASE prog \in {"pipes", "sockets"}
    BY <2>3 DEF Init
  <2> QED
    BY <1>3, <2>1, <2>2, <2>3 DEF Chosen
<1>5. channel \in [Channel -> Seq(Message)]
  <2>1. <<>> \in Seq(Message) /\ <<"Hi">> \in Seq(Message) /\ <<"ACK">> \in Seq(Message)
    BY DEF Message
  <2>2. channel \in [Channel -> {<<>>, <<"Hi">>, <<"ACK">>}]
    BY DEF Init
  <2> QED
    BY <2>1, <2>2
<1>6. TypeOK
  BY <1>1, <1>2, <1>4, <1>5 DEF TypeOK, Ended
<1>7. InPlace
  BY <1>1, <1>4 DEF InPlace, Party
<1>8. OwnWords
  <2>1. \A word : <<>> \in Seq({word})
    OBVIOUS
  <2>2. prog # "mq" => \A p \in Party : Outgoing(p) \in Channel \ {"old"}
    BY DEF Outgoing, Channel, Fifos, Party
  <2>3. \A c \in Channel \ {"old"} : channel[c] = <<>>
    BY DEF Init
  <2> QED
    BY <2>1, <2>2, <2>3 DEF OwnWords
<1>9. Counted
  BY <1>1, <1>2 DEF Counted, Received, InHand, Party
<1>10. NoBrokenPipe
  BY <1>1 DEF NoBrokenPipe
<1>11. OneToken /\ AnswersAddUp
  <2>1. Nothing
    BY DEF Init, Nothing, Carriers
  <2> QED
    BY <1>1, <2>1 DEF OneToken, AnswersAddUp, InHand, Wanted, Party
<1> QED
  BY <1>3, <1>6, <1>7, <1>8, <1>9, <1>10, <1>11 DEF PingPongInv, Placed

\* Whatever carries the messages, and whatever earlier runs left, the programs
\* agree on which message is under way.
THEOREM PingPongConsistent == Spec => []Consistent
<1>1. PingPongInv => Consistent
  BY DEF PingPongInv, Placed, Consistent
<1> QED
  BY <1>1, InitPingPongInv, NextKeepsPingPongInv, PTL DEF Spec

\* Nobody writes to, or resets, the socket of a peer that left, unless a read
\* was short or the peer was killed.
THEOREM PingPongNoBrokenPipe == Spec => []NoBrokenPipe
<1>1. PingPongInv => NoBrokenPipe
  BY DEF PingPongInv
<1> QED
  BY <1>1, InitPingPongInv, NextKeepsPingPongInv, PTL DEF Spec
----------------------------------------------------------------------------
(* Shared memory *)

\* No text of the programs reaches the flag.
LEMMA TextsFit ==
  ASSUME 3 \notin Sizes, buffersiz \in Sizes
  PROVE  /\ \A msg : Sprintf(msg) => text' = msg /\ flag' = flag
         /\ Blank => text' = "zero" /\ flag' = flag
<1>1. buffersiz \in Nat /\ buffersiz > 3
  BY IpcAssumption
<1>2. \A msg : Length(msg) # buffersiz
  BY <1>1 DEF Length
<1> QED
  BY <1>1, <1>2 DEF Sprintf, Blank, FlagAt

\* The invariant of ShmPingPong, with what the settings file says.
ShmInv == IInv /\ buffersiz \in Sizes /\ nmessages \in Nat /\ late \in BOOLEAN

\* The invariant, for any start order and any segment left by an earlier run.
THEOREM ShmInvariant ==
  ASSUME 3 \notin Sizes
  PROVE  ShmSpec => []ShmInv
<1> USE DEF ShmInv
<1>1. ShmInit => ShmInv
  <2> SUFFICES ASSUME ShmInit PROVE ShmInv
    OBVIOUS
  <2>1. nmessages \in Nat /\ 0 \in 0 .. nmessages
    BY IpcAssumption DEF ShmInit, ReadConfig
  <2>2. ShmTypeOK
    BY <2>1 DEF ShmInit, ShmTypeOK
  <2> QED
    BY <2>1, <2>2 DEF ShmInit, ReadConfig, IInv, Up, BeforeUp
<1>2. ShmInv /\ [ShmNext]_shmVars => ShmInv'
  <2> SUFFICES ASSUME ShmInv, [ShmNext]_shmVars PROVE ShmInv'
    OBVIOUS
  <2> USE DEF IInv, ShmTypeOK, Up, BeforeUp, AfterUp, Writing, Answered, Behind,
              Again, conf, settings, memory, GoServer, GoClient, ServerUnch, ClientUnch
  <2>1. CASE ServerOpen
    BY <2>1 DEF ServerOpen
  <2>2. CASE ServerTruncate
    BY <2>2 DEF ServerTruncate
  <2>3. CASE ServerInit
    BY <2>3 DEF ServerInit, FlagCleared
  <2>4. CASE ServerSees
    BY <2>4 DEF ServerSees, ServerTurn
  <2>5. CASE ServerZero
    BY <2>5, TextsFit DEF ServerZero
  <2>6. CASE ServerPrint
    BY <2>6, TextsFit DEF ServerPrint
  <2>7. CASE ServerFlip
    BY <2>7 DEF ServerFlip
  <2>8. CASE ServerUnlink
    BY <2>8 DEF ServerUnlink
  <2>9. CASE ClientOpen
    BY <2>9 DEF ClientOpen
  <2>10. CASE ClientKilled
    BY <2>10 DEF ClientKilled
  <2>11. CASE ClientZero
    BY <2>11, TextsFit DEF ClientZero
  <2>12. CASE ClientPrint
    BY <2>12, TextsFit DEF ClientPrint
  <2>13. CASE ClientFlip
    BY <2>13 DEF ClientFlip
  <2>14. CASE ClientSees
    BY <2>14 DEF ClientSees, ClientTurn
  <2>15. CASE ClientRead
    BY <2>15 DEF ClientRead
  <2>16. CASE ClientEnd
    BY <2>16 DEF ClientEnd
  <2>17. CASE UNCHANGED shmVars
    BY <2>17 DEF shmVars
  <2> QED
    BY <2>1, <2>2, <2>3, <2>4, <2>5, <2>6, <2>7, <2>8, <2>9, <2>10, <2>11,
       <2>12, <2>13, <2>14, <2>15, <2>16, <2>17
    DEF ShmNext, ShmServer, ShmClient, Idle
<1> QED
  BY <1>1, <1>2, PTL DEF ShmSpec

\* The two programs never use the text at the same time.
THEOREM ShmTurnTaking ==
  ASSUME 3 \notin Sizes
  PROVE  ShmSpec => []TurnTaking
<1>1. ShmInv => TurnTaking
  BY DEF ShmInv, IInv, ShmTypeOK, Up, BeforeUp, AfterUp, Writing, TurnTaking
<1> QED
  BY <1>1, ShmInvariant, PTL

\* A client started behind the server reads the answer to its last message.
THEOREM ShmClientReadsAck ==
  ASSUME 3 \notin Sizes
  PROVE  ShmSpec => []ClientReadsAck
<1>1. ShmInv => ClientReadsAck
  BY DEF ShmInv, IInv, ShmTypeOK, Up, BeforeUp, AfterUp, Answered, Behind,
         ClientReadsAck
<1> QED
  BY <1>1, ShmInvariant, PTL

\* A server started late loses at most one message.
THEOREM ShmOneLostAtMost ==
  ASSUME 3 \notin Sizes
  PROVE  ShmSpec => []OneLostAtMost
<1>1. ShmInv => OneLostAtMost
  BY DEF ShmInv, IInv, ShmTypeOK, Up, BeforeUp, AfterUp, Answered, Behind,
         OneLostAtMost
<1> QED
  BY <1>1, ShmInvariant, PTL
=============================================================================
