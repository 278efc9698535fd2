------------------------------ MODULE ShmPingPong ------------------------------
(***************************************************************************)
(* ipc/shm: server and client share a segment; its first buffersiz bytes   *)
(* hold a text, the byte after them is the flag that says whose turn it    *)
(* is.  run.sh starts the client 0.5 s after the server, so that the       *)
(* server has set the flag up; "late" is a server that has not.            *)
(***************************************************************************)
EXTENDS IpcSettings

Length(msg) == IF msg = "Hi" THEN 2 ELSE 3

VARIABLES late,
          segment,      \* "none", "empty", "sized": the object's length
          name,         \* whether its name exists
          text, flag,   \* the contents
          server, si,   \* where the server is; its loop index
          client, ci
conf == <<settings, late>>
memory == <<text, flag>>
shmVars == <<conf, segment, name, memory, server, si, client, ci>>

\* An earlier server that was killed leaves a segment with any flag.
ShmInit == /\ ReadConfig
           /\ late \in BOOLEAN
           /\ \/ /\ name = FALSE /\ segment = "none" /\ flag = 0 /\ text = "zero"
              \/ /\ name = TRUE /\ segment = "sized" /\ flag \in {0, 1}
                 /\ text \in {"zero", "Hi", "ACK"}
           /\ server = "open" /\ si = 0
           /\ client = "open" /\ ci = 0
-----------------------------------------------------------------------------
\* The flag lies behind the text; a mutant puts it on the last byte of it.
FlagInside == buffersiz - 1
FlagAt == buffersiz
\* bzero, and sprintf, whose NUL may lie on the flag.
Blank == text' = "zero" /\ flag' = IF FlagAt < buffersiz THEN 0 ELSE flag
Sprintf(msg) == text' = msg /\ flag' = IF Length(msg) = FlagAt THEN 0 ELSE flag

\* for (i = 0; i < nmessages; i++).
Again(n) == n < nmessages

GoServer(from, to) == server = from /\ server' = to
ServerUnch == UNCHANGED <<conf, client, ci>>

ServerOpen == /\ GoServer("open", "truncate")
              /\ segment' = IF segment = "none" THEN "empty" ELSE segment
              /\ name' = TRUE
              /\ UNCHANGED <<memory, si>> /\ ServerUnch
ServerTruncate == /\ GoServer("truncate", "init")
                  /\ segment' = "sized"
                  /\ UNCHANGED <<name, memory, si>> /\ ServerUnch
\* "Initialize flag to 0"; a mutant leaves what it finds.
FlagLeft == flag
FlagCleared == 0
ServerInit == /\ GoServer("init", "wait")
              /\ flag' = FlagCleared
              /\ UNCHANGED <<segment, name, text, si>> /\ ServerUnch
\* The compare-and-swap of 1 by 1: spins until the flag is 1.
ServerTurn == flag = 1
ServerSees == /\ Again(si)
              /\ GoServer("wait", "bzero")
              /\ ServerTurn
              /\ UNCHANGED <<segment, name, memory, si>> /\ ServerUnch
ServerZero == /\ GoServer("bzero", "print")
              /\ Blank
              /\ UNCHANGED <<segment, name, si>> /\ ServerUnch
ServerPrint == /\ GoServer("print", "flip")
               /\ Sprintf("ACK")
               /\ UNCHANGED <<segment, name, si>> /\ ServerUnch
ServerFlip == /\ GoServer("flip", "wait")
              /\ flag' = 0
              /\ si' = si + 1
              /\ UNCHANGED <<segment, name, text>> /\ ServerUnch
\* munmap and shm_unlink; the client keeps what it has mapped.
ServerUnlink == /\ ~Again(si)
                /\ GoServer("wait", "done")
                /\ name' = FALSE
                /\ UNCHANGED <<segment, memory, si>> /\ ServerUnch
-----------------------------------------------------------------------------
GoClient(from, to) == client = from /\ client' = to
ClientUnch == UNCHANGED <<conf, server, si>>

\* Also O_CREAT, but no ftruncate: what it creates has no length.
ClientOpen == /\ late \/ server \in {"wait", "done"}
              /\ GoClient("open", "bzero")
              /\ segment' = IF name THEN segment ELSE "empty"
              /\ name' = TRUE
              /\ UNCHANGED <<memory, ci>> /\ ClientUnch
\* The first write into a mapping without length is a SIGBUS.
ClientKilled == /\ Again(ci) /\ segment = "empty"
                /\ GoClient("bzero", "killed")
                /\ UNCHANGED <<segment, name, memory, ci>> /\ ClientUnch
ClientZero == /\ Again(ci) /\ segment = "sized"
              /\ GoClient("bzero", "print")
              /\ Blank
              /\ UNCHANGED <<segment, name, ci>> /\ ClientUnch
ClientPrint == /\ GoClient("print", "flip")
               /\ Sprintf("Hi")
               /\ UNCHANGED <<segment, name, ci>> /\ ClientUnch
ClientFlip == /\ GoClient("flip", "wait")
              /\ flag' = 1
              /\ UNCHANGED <<segment, name, text, ci>> /\ ClientUnch
\* Spins until the flag is 0; a mutant does not.
AnyTurn == TRUE
ClientTurn == flag = 0
ClientSees == /\ GoClient("wait", "read")
              /\ ClientTurn
              /\ UNCHANGED <<segment, name, memory, ci>> /\ ClientUnch
\* "Read message", the printf that is commented out, and i++.
ClientRead == /\ GoClient("read", "bzero")
              /\ ci' = ci + 1
              /\ UNCHANGED <<segment, name, memory>> /\ ClientUnch
ClientEnd == /\ ~Again(ci)
             /\ GoClient("bzero", "done")
             /\ UNCHANGED <<segment, name, memory, ci>> /\ ClientUnch

ShmServer == \/ ServerOpen \/ ServerTruncate \/ ServerInit \/ ServerSees
             \/ ServerZero \/ ServerPrint \/ ServerFlip \/ ServerUnlink
ShmClient == \/ ClientOpen \/ ClientKilled \/ ClientZero \/ ClientPrint
             \/ ClientFlip \/ ClientSees \/ ClientRead \/ ClientEnd

\* Both may spin or be at their end.
Idle == UNCHANGED shmVars
ShmNext == ShmServer \/ ShmClient \/ Idle
ShmSpec == ShmInit /\ [][ShmNext]_shmVars
FairShmSpec == ShmSpec /\ WF_shmVars(ShmServer) /\ WF_shmVars(ShmClient)
-----------------------------------------------------------------------------
ShmTypeOK == /\ text \in {"zero", "Hi", "ACK"} /\ flag \in {0, 1}
             /\ segment \in {"none", "empty", "sized"} /\ name \in BOOLEAN
             /\ {si, ci} \subseteq 0 .. nmessages
             /\ server \in {"open", "truncate", "init", "wait", "bzero", "print",
                            "flip", "done"}
             /\ client \in {"open", "bzero", "print", "flip", "wait", "read",
                            "done", "killed"}
             /\ server \in {"init", "wait", "bzero", "print", "flip"} =>
                  segment = "sized"

\* The text is never written by one program while the other writes or reads
\* it, whatever the order of their start and whatever an earlier run left.
TurnTaking == ~(/\ server \in {"bzero", "print", "flip"}
                /\ client \in {"print", "flip", "read"})

\* If the server was ready, each text the client reads is the answer to its
\* last message, and the server never runs ahead.
ClientReadsAck == ~late =>
  /\ client = "read" => text = "ACK" /\ si = ci + 1
  /\ si \in {ci, ci + 1}

\* A server that starts late loses one message at most: the one whose flag its
\* initialisation wipes out.
OneLostAtMost == si >= ci - 1

\* The invariant behind them: once the server has set the flag up, 1 means that
\* the client waits, and the indexes agree, but for the message a late server
\* may have lost.
Writing == server \in {"bzero", "print", "flip"}
Up == server \notin {"open", "truncate", "init"}
Answered == client = "read" \/ (client = "wait" /\ flag = 0)
Behind(lost) == si = ci - lost + (IF Answered THEN 1 ELSE 0)
BeforeUp == /\ si = 0 /\ ci = 0
            /\ client # "read" /\ (client = "wait" => flag = 1)
            /\ ~late => client = "open"
AfterUp == /\ flag = 1 => client = "wait"
           /\ Writing => flag = 1 /\ Again(si) /\ (server = "flip" => text = "ACK")
           /\ Behind(0) \/ (late /\ Behind(1))
           /\ ~late /\ Answered => text = "ACK"
IInv == /\ ShmTypeOK
        /\ server \notin {"open", "done"} => name
        /\ client \in {"print", "flip", "wait", "read"} => Again(ci)
        /\ IF Up THEN AfterUp ELSE BeforeUp

\* The client always ends, killed only if the server was late; a server that
\* was ready ends too.
Finishes == /\ <>(client = "done" \/ (late /\ client = "killed"))
            /\ ~late ~> server = "done"
=============================================================================
