------------------------------- MODULE Server -------------------------------
(***************************************************************************)
(* The life of a rktlet process (cmd/server/main.go, rktlet/rktlet.go, New *)
(* and fetchStage1Image of rktlet/runtime): the unix socket, the port of   *)
(* the stream server, the stage1 image, signals, and the exits that run    *)
(* the deferred calls and those that do not.  systemd starts the Managed   *)
(* instances again whenever they are down; others are started by hand and  *)
(* share socket path and port with them.                                   *)
(***************************************************************************)
EXTENDS Naturals

CONSTANTS
  Instances,
  Managed,     \* those of the systemd unit with Restart=always
  NoInstance,  \* nobody
  Dead,        \* a process that is gone
  Stage1Named, \* --rkt-stage1-name is given
  MaxFaults    \* failures and kills that may happen

ASSUME ServerAssumption ==
  /\ Managed \subseteq Instances
  /\ NoInstance \notin Instances /\ Dead \notin Instances
  /\ NoInstance # Dead
  /\ Stage1Named \in BOOLEAN
  /\ MaxFaults \in Nat

VARIABLES
  pc,       \* per instance: where main is
  sig,      \* per instance: a signal is in exitCh
  stream,   \* per instance: the goroutine of the stream server
  sock,     \* whose socket is at the path
  port,     \* who listens on the stream server's address
  stage1,   \* the stage1 image is in rkt's store
  faults,   \* history: failures and kills so far
  mishap    \* history: a socket was left behind, or taken from its owner

serverVars == <<pc, sig, stream, sock, port, stage1, faults, mishap>>

PCs == {"down", "listen", "new", "stage1", "fetch", "serve", "close", "remove"}

ServerInit ==
  /\ pc = [i \in Instances |-> "down"]
  /\ sig = [i \in Instances |-> FALSE]
  /\ stream = [i \in Instances |-> "none"]
  /\ sock = NoInstance
  /\ port = NoInstance
  /\ stage1 \in BOOLEAN
  /\ faults = 0
  /\ mishap = FALSE

Up(i) == pc[i] # "down"

Goto(i, l) == pc' = [pc EXCEPT ![i] = l]

Fault == faults < MaxFaults /\ faults' = faults + 1

(* The process is gone: its port is free, its pending signal lost, and a   *)
(* socket that it bound and did not unlink stays at the path.              *)
ProcessGone(i) ==
  /\ Goto(i, "down")
  /\ sig' = [sig EXCEPT ![i] = FALSE]
  /\ stream' = [stream EXCEPT ![i] = "none"]
  /\ port' = IF port = i THEN NoInstance ELSE port
  /\ UNCHANGED stage1

(* glog.Fatalf exits without the deferred calls, as a kill does.           *)
MUT_Fatalf(i) ==
  /\ ProcessGone(i)
  /\ sock' = NoInstance
  /\ mishap' = mishap
Fatalf(i) ==
  /\ ProcessGone(i)
  /\ sock' = IF sock = i THEN Dead ELSE sock
  /\ mishap' = (mishap \/ sock = i)

----------------------------------------------------------------------------
(* main, up to the point where it serves.                                  *)

(* From here on SIGINT and SIGTERM go to exitCh.                           *)
StartProcess(i) ==
  /\ ~Up(i)
  /\ Goto(i, "listen")
  /\ UNCHANGED <<sig, stream, sock, port, stage1, faults, mishap>>

(* bind fails on a path that exists, whoever made it.                      *)
Listen(i) ==
  /\ pc[i] = "listen"
  /\ UNCHANGED faults
  /\ \/ /\ sock = NoInstance
        /\ sock' = i
        /\ Goto(i, "new")
        /\ UNCHANGED <<sig, stream, port, stage1, mishap>>
     \/ /\ sock # NoInstance
        /\ Fatalf(i)

(* rktlet.New: rkt and systemd-run are looked up, and may be missing; then *)
(* runtime.New starts the stream server in a goroutine.                    *)
New(i) ==
  /\ pc[i] = "new"
  /\ \/ /\ Fault
        /\ Fatalf(i)
     \/ /\ Goto(i, IF Stage1Named THEN "stage1" ELSE "serve")
        /\ stream' = [stream EXCEPT ![i] = "start"]
        /\ UNCHANGED <<sig, sock, port, stage1, faults, mishap>>

(* The goroutine, at any time after: it listens for good or ends rktlet.   *)
MUT_StreamServerStart(i) ==
  /\ stream[i] = "start"
  /\ port' = IF port = NoInstance THEN i ELSE port
  /\ stream' = [stream EXCEPT ![i] = "up"]
  /\ UNCHANGED <<pc, sig, sock, stage1, faults, mishap>>
StreamServerStart(i) ==
  /\ stream[i] = "start"
  /\ UNCHANGED faults
  /\ \/ /\ port = NoInstance
        /\ port' = i
        /\ stream' = [stream EXCEPT ![i] = "up"]
        /\ UNCHANGED <<pc, sig, sock, stage1, mishap>>
     \/ /\ port # NoInstance
        /\ Fatalf(i)

(* fetchStage1Image: any error of ImageStatus, the image not being there   *)
(* included, leads to the fetch.                                           *)
fetchStage1Image(i) ==
  \/ /\ pc[i] = "stage1"
     /\ \/ stage1 /\ Goto(i, "serve") /\ UNCHANGED faults
        \/ ~stage1 /\ Goto(i, "fetch") /\ UNCHANGED faults
        \/ Fault /\ Goto(i, "fetch")
     /\ UNCHANGED <<sig, stream, sock, port, stage1, mishap>>
  \/ /\ pc[i] = "fetch"
     /\ \/ /\ stage1' = TRUE
           /\ Goto(i, "serve")
           /\ UNCHANGED <<sig, stream, sock, port, faults, mishap>>
        \/ Fault /\ Fatalf(i)

----------------------------------------------------------------------------
(* The exits.                                                              *)

(* exitCh has room for one signal, which waits there while rktlet starts.  *)
Signal(i) ==
  /\ Up(i) /\ ~sig[i]
  /\ sig' = [sig EXCEPT ![i] = TRUE]
  /\ UNCHANGED <<pc, stream, sock, port, stage1, faults, mishap>>

(* <-exitCh: gRPC serves in a goroutine, so main gets to read it.          *)
MUT_Received(i) == FALSE
Received(i) == pc[i] = "serve" /\ sig[i]

Exiting(i) ==
  /\ Received(i)
  /\ Goto(i, "close")
  /\ UNCHANGED <<sig, stream, sock, port, stage1, faults, mishap>>

(* sock.Close and then os.Remove each unlink the path, whatever is there.  *)
MUT_Unlink(i) ==
  /\ sock' = IF sock = i THEN Dead ELSE sock
  /\ UNCHANGED mishap
Unlink(i) ==
  /\ sock' = NoInstance
  /\ mishap' = (mishap \/ sock \notin {i, NoInstance})

CloseSock(i) ==
  /\ pc[i] = "close"
  /\ Unlink(i)
  /\ Goto(i, "remove")
  /\ UNCHANGED <<sig, stream, port, stage1, faults>>

RemoveSock(i) ==
  /\ pc[i] = "remove"
  /\ Unlink(i)
  /\ ProcessGone(i)
  /\ UNCHANGED faults

(* SIGKILL, the OOM killer, a panic of a handler.                          *)
Kill(i) ==
  /\ Up(i)
  /\ Fault
  /\ Fatalf(i)

----------------------------------------------------------------------------
Main(i) ==
  Listen(i) \/ New(i) \/ fetchStage1Image(i) \/ Exiting(i) \/ CloseSock(i) \/ RemoveSock(i)

ServerNext ==
  \E i \in Instances :
    \/ StartProcess(i)
    \/ Main(i)
    \/ StreamServerStart(i)
    \/ Signal(i)
    \/ Kill(i)

(* A process runs, commands end, and systemd starts its unit again: there  *)
(* is no limit to the restarts (StartLimitInterval=0).  Nobody owes a      *)
(* signal, a kill, or a start by hand.                                     *)
ServerFairness ==
  /\ \A i \in Instances : WF_serverVars(Main(i)) /\ WF_serverVars(StreamServerStart(i))
  /\ \A i \in Managed : WF_serverVars(StartProcess(i))

ServerSpec == ServerInit /\ [][ServerNext]_serverVars /\ ServerFairness

----------------------------------------------------------------------------
(* Properties.                                                             *)

Reachable(i) == pc[i] = "serve" /\ sock = i

(* The variables have their types; a socket at the path that is not left   *)
(* over belongs to a running process, and a stream server that is up has   *)
(* the address to itself.                                                  *)
ServerTypeOK ==
  /\ pc \in [Instances -> PCs]
  /\ sig \in [Instances -> BOOLEAN]
  /\ stream \in [Instances -> {"none", "start", "up"}]
  /\ sock \in Instances \cup {NoInstance, Dead}
  /\ port \in Instances \cup {NoInstance}
  /\ stage1 \in BOOLEAN
  /\ faults \in 0..MaxFaults
  /\ mishap \in BOOLEAN
  /\ sock \in Instances => Up(sock)
  /\ \A i \in Instances : stream[i] = "up" <=> port = i

(* The socket of a running rktlet goes from the path only in a shutdown    *)
(* after a signal: a second rktlet that finds the path taken, and fails,   *)
(* leaves it alone, because Fatalf skips the deferred os.Remove.           *)
SocketTakenOnlyByShutdown ==
  [][\A i \in Instances :
       sock = i /\ sock' # i /\ pc'[i] # "down"
         => \E j \in Instances : pc[j] \in {"close", "remove"} /\ pc'[j] # pc[j]]_serverVars

(* SIGTERM ends rktlet, also one that arrives during start-up, while the   *)
(* stage1 image is fetched, and is taken out of exitCh only later.         *)
SignalEnds == \A i \in Instances : sig[i] ~> ~Up(i)

(* Unless a socket was left behind or taken from its owner, some rktlet    *)
(* can be reached again and again: every orderly exit is made good by the  *)
(* next start, and so is the failure of an instance that found the path    *)
(* taken by one that serves.                                               *)
ComesBack == <>mishap \/ []<>(\E i \in Instances : Reachable(i))

(* The unit's Restart=always without a start limit: whenever rktlet is     *)
(* down it will be reached again.                                          *)
RestartServes == \A i \in Managed : ~Up(i) ~> Reachable(i)

=============================================================================
