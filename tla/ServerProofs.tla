---------------------------- MODULE ServerProofs ----------------------------
(***************************************************************************)
(* Proofs about the life of rktlet processes (module Server), for any      *)
(* number of instances, kills and failures.                                *)
(***************************************************************************)
EXTENDS Server, TLAPS

(* runtime.New is the only place that starts the stream server, so before  *)
(* it there is none: without this a second one could be started while the  *)
(* first holds the port.                                                   *)
NoStreamBeforeNew ==
  \A i \in Instances : pc[i] \in {"down", "listen", "new"} => stream[i] = "none"

ServerInv == ServerTypeOK /\ NoStreamBeforeNew

(* A process that ends without its deferred calls keeps the invariant: its *)
(* port is free, and its socket is nobody's.                               *)
LEMMA FatalfKeepsServerInv ==
  ASSUME ServerInv, NEW i \in Instances, Fatalf(i), faults' \in 0..MaxFaults
  PROVE  ServerInv'
  <1>1. ServerTypeOK'
    BY ServerAssumption
    DEF ServerInv, ServerTypeOK, Fatalf, ProcessGone, Goto, Up, PCs
  <1>2. NoStreamBeforeNew'
    BY DEF ServerInv, ServerTypeOK, NoStreamBeforeNew, Fatalf, ProcessGone, Goto
  <1> QED BY <1>1, <1>2 DEF ServerInv

(* A failure that happens is one of at most MaxFaults.                     *)
LEMMA FaultBounded ==
  ASSUME ServerInv, Fault
  PROVE  faults' \in 0..MaxFaults
  BY ServerAssumption DEF ServerInv, ServerTypeOK, Fault

(* Every step of a process, of its stream server and of its surroundings   *)
(* keeps the invariant.                                                    *)
LEMMA ServerInvInductive ==
  ASSUME ServerInv, [ServerNext]_serverVars
  PROVE  ServerInv'
  <1> USE ServerAssumption
  <1>0. faults \in 0..MaxFaults
    BY DEF ServerInv, ServerTypeOK
  <1>1. ASSUME NEW i \in Instances, StartProcess(i) PROVE ServerInv'
    BY <1>1 DEF StartProcess, ServerInv, ServerTypeOK, NoStreamBeforeNew, Goto, Up, PCs
  <1>2. ASSUME NEW i \in Instances, Listen(i) PROVE ServerInv'
    <2>1. CASE Fatalf(i) BY <2>1, <1>0, <1>2, FatalfKeepsServerInv DEF Listen
    <2>2. CASE ~Fatalf(i)
      BY <2>2, <1>2 DEF Listen, ServerInv, ServerTypeOK, NoStreamBeforeNew, Goto, Up, PCs
    <2> QED BY <2>1, <2>2
  <1>3. ASSUME NEW i \in Instances, New(i) PROVE ServerInv'
    <2>1. CASE Fault /\ Fatalf(i) BY <2>1, FaultBounded, FatalfKeepsServerInv
    <2>2. CASE ~(Fault /\ Fatalf(i))
      BY <2>2, <1>3 DEF New, ServerInv, ServerTypeOK, NoStreamBeforeNew, Goto, Up, PCs
    <2> QED BY <2>1, <2>2
  <1>4. ASSUME NEW i \in Instances, fetchStage1Image(i) PROVE ServerInv'
    <2>1. CASE Fault /\ Fatalf(i) BY <2>1, FaultBounded, FatalfKeepsServerInv
    <2>2. CASE ~(Fault /\ Fatalf(i))
      <3>1. faults' \in 0..MaxFaults
        BY <1>0, <1>4, <2>2, FaultBounded DEF fetchStage1Image
      <3> QED
        BY <2>2, <3>1, <1>4
        DEF fetchStage1Image, ServerInv, ServerTypeOK, NoStreamBeforeNew, Goto, Up, PCs
    <2> QED BY <2>1, <2>2
  <1>5. ASSUME NEW i \in Instances, Exiting(i) PROVE ServerInv'
    BY <1>5
    DEF Exiting, Received, ServerInv, ServerTypeOK, NoStreamBeforeNew, Goto, Up, PCs
  <1>6. ASSUME NEW i \in Instances, CloseSock(i) PROVE ServerInv'
    BY <1>6
    DEF CloseSock, Unlink, ServerInv, ServerTypeOK, NoStreamBeforeNew, Goto, Up, PCs
  <1>7. ASSUME NEW i \in Instances, RemoveSock(i) PROVE ServerInv'
    BY <1>7
    DEF RemoveSock, Unlink, ProcessGone, ServerInv, ServerTypeOK, NoStreamBeforeNew,
        Goto, Up, PCs
  <1>8. ASSUME NEW i \in Instances, StreamServerStart(i) PROVE ServerInv'
    <2>1. CASE Fatalf(i) BY <2>1, <1>0, <1>8, FatalfKeepsServerInv DEF StreamServerStart
    <2>2. CASE ~Fatalf(i)
      BY <2>2, <1>8 DEF StreamServerStart, ServerInv, ServerTypeOK, NoStreamBeforeNew, Up
    <2> QED BY <2>1, <2>2
  <1>9. ASSUME NEW i \in Instances, Signal(i) PROVE ServerInv'
    BY <1>9 DEF Signal, ServerInv, ServerTypeOK, NoStreamBeforeNew, Up
  <1>10. ASSUME NEW i \in Instances, Kill(i) PROVE ServerInv'
    BY <1>10, FaultBounded, FatalfKeepsServerInv DEF Kill
  <1>11. CASE UNCHANGED serverVars
    BY <1>11 DEF serverVars, ServerInv, ServerTypeOK, NoStreamBeforeNew, Up
  <1> QED
    BY <1>1, <1>2, <1>3, <1>4, <1>5, <1>6, <1>7, <1>8, <1>9, <1>10, <1>11
    DEF ServerNext, Main

(* Whatever the interleaving of starts, signals, kills and failures: a     *)
(* socket that is not a leftover belongs to a running process, and at most *)
(* one stream server, one that is up, has the address.                     *)
THEOREM ServerTypes == ServerSpec => []ServerTypeOK
  <1>1. ServerInit => ServerInv
    <2> SUFFICES ASSUME ServerInit PROVE ServerInv
      OBVIOUS
    <2>1. sig \in [Instances -> BOOLEAN] /\ stage1 \in BOOLEAN /\ mishap \in BOOLEAN
      BY Zenon DEF ServerInit
    <2>2. faults \in 0..MaxFaults
      BY ServerAssumption DEF ServerInit
    <2>3. pc \in [Instances -> PCs] /\ stream \in [Instances -> {"none", "start", "up"}]
      BY DEF ServerInit, PCs
    <2> QED
      BY <2>1, <2>2, <2>3, ServerAssumption
      DEF ServerInit, ServerInv, ServerTypeOK, NoStreamBeforeNew, Up
  <1>2. ServerInv /\ [ServerNext]_serverVars => ServerInv'
    BY ServerInvInductive
  <1>3. ServerInv => ServerTypeOK
    BY DEF ServerInv
  <1> QED BY <1>1, <1>2, <1>3, PTL DEF ServerSpec

(* A failing start or a kill takes no other process's socket: the exit     *)
(* through Fatalf touches the path only if the socket is its own.          *)
LEMMA FatalfLeavesOthers ==
  ASSUME ServerTypeOK, NEW i \in Instances, NEW j \in Instances, Fatalf(j),
         sock = i, sock' # i
  PROVE  pc'[i] = "down"
  BY DEF ServerTypeOK, Fatalf, ProcessGone, Goto

(* The socket of a process that goes on running is unlinked by nobody but  *)
(* a rktlet that shuts down after a signal (sock.Close and the deferred    *)
(* os.Remove of main), for any number of rktlets on one path.              *)
THEOREM SocketKept == ServerSpec => SocketTakenOnlyByShutdown
  <1> DEFINE Taken(i) == sock = i /\ sock' # i /\ pc'[i] # "down"
             ByShutdown == \E j \in Instances : pc[j] \in {"close", "remove"} /\ pc'[j] # pc[j]
             Kept == \A i \in Instances : Taken(i) => ByShutdown
  <1>1. ASSUME ServerTypeOK, ServerNext PROVE Kept
    <2> SUFFICES ASSUME NEW i \in Instances, Taken(i) PROVE ByShutdown
      OBVIOUS
    <2> USE ServerAssumption
    <2>1. PICK j \in Instances :
            StartProcess(j) \/ Main(j) \/ StreamServerStart(j) \/ Signal(j) \/ Kill(j)
      BY <1>1 DEF ServerNext
    <2>2. ~Fatalf(j)
      BY <1>1, FatalfLeavesOthers
    <2>3. CASE CloseSock(j) \/ RemoveSock(j)
      <3>1. pc[j] \in {"close", "remove"} /\ pc'[j] # pc[j]
        BY <1>1, <2>3 DEF ServerTypeOK, CloseSock, RemoveSock, ProcessGone, Goto
      <3> QED BY <3>1
    <2>4. CASE ~(CloseSock(j) \/ RemoveSock(j))
      <3>1. sock' = sock \/ sock = NoInstance
        BY <2>1, <2>2, <2>4
        DEF Main, StartProcess, Listen, New, fetchStage1Image, Exiting,
            StreamServerStart, Signal, Kill
      <3> QED BY <3>1
    <2> QED BY <2>3, <2>4
  <1>2. ServerTypeOK /\ [ServerNext]_serverVars => [Kept]_serverVars
    BY <1>1
  <1> QED BY <1>2, ServerTypes, PTL DEF ServerSpec, SocketTakenOnlyByShutdown

=============================================================================
