-------------------------------- MODULE Exec --------------------------------
(***************************************************************************)
(* Commands run in a container (rktlet/runtime/exec.go): ExecSync, and the *)
(* Exec sessions that the stream server opens, with a terminal or without. *)
(* A session is the handler that waits for the process, the goroutines     *)
(* that copy its input and output (of os/exec without a terminal, of       *)
(* execWithTty with one), the goroutine that resizes the terminal, the     *)
(* process itself and the client, all running next to each other.          *)
(***************************************************************************)
EXTENDS Naturals

CONSTANTS
  Sessions,
  MaxOut,   \* chunks a process writes to one stream, at most
  Cap       \* chunks that a pipe or a terminal holds before a write blocks

ASSUME ExecAssumption ==
  /\ MaxOut \in Nat
  /\ Cap \in Nat \ {0}

Kinds == {"sync", "pipe", "tty"}

Streams == {"out", "err"}

(* Exit status 0, another one, and -1 for a process killed by a signal.    *)
Codes == {"0", "1", "-1"}

Killed == "-1"

VARIABLE ses  \* per session, everything about it

(* pc      the handler: waiting, in its deferred calls, returned, and the  *)
(*         connection closed by the stream server                          *)
(* plan, needs, code   the process: what it will write, whether it waits   *)
(*         for input before it ends, its exit status                       *)
(* in      the client's stdin: none attached, nothing or a chunk to read,  *)
(*         or ended                                                        *)
(* fed     the process has got input, or the end of it                     *)
SessionRecords ==
  [kind : Kinds,
   pc : {"idle", "start", "wait", "closeOut", "closePty", "returned", "closed"},
   proc : {"none", "run", "exited"}, needs : BOOLEAN, code : Codes,
   plan : [Streams -> 0..MaxOut], wrote : [Streams -> 0..MaxOut],
   got : [Streams -> 0..MaxOut],
   copy : [Streams -> {"none", "run", "end", "failed"}],
   in : {"none", "quiet", "chunk", "eof"}, inCopy : {"none", "run", "end"},
   fed : BOOLEAN,
   resize : {"nil", "quiet", "size", "closed"},
   resizer : {"none", "run", "end"}, size : {"unset", "asked", "zero"},
   done : BOOLEAN, outOpen : BOOLEAN, client : BOOLEAN, copyErr : BOOLEAN,
   ret : Codes \cup {"none", "error"}]

NoSession ==
  [kind |-> "sync", pc |-> "idle", proc |-> "none", needs |-> FALSE, code |-> "0",
   plan |-> [st \in Streams |-> 0], wrote |-> [st \in Streams |-> 0],
   got |-> [st \in Streams |-> 0], copy |-> [st \in Streams |-> "none"],
   in |-> "none", inCopy |-> "none", fed |-> FALSE,
   resize |-> "nil", resizer |-> "none", size |-> "unset",
   done |-> FALSE, outOpen |-> TRUE, client |-> TRUE, copyErr |-> FALSE,
   ret |-> "none"]

ExecInit == ses = [s \in Sessions |-> NoSession]

Set(s, r) == ses' = [ses EXCEPT ![s] = r]

Tty(s) == ses[s].kind = "tty"

(* Written, neither delivered nor lost with a copier that failed.          *)
Buffered(s, st) ==
  ses[s].wrote[st] - ses[s].got[st]
    - (IF ses[s].copy[st] = "failed" THEN 1 ELSE 0)

GoroutinesEnded(s) ==
  /\ \A st \in Streams : ses[s].copy[st] # "run"
  /\ ses[s].inCopy # "run"
  /\ ses[s].resizer # "run"

----------------------------------------------------------------------------
(* The request.                                                            *)

(* ExecSync has no stdin and nobody who can leave; the stream server hands *)
(* over a resize channel with a terminal if the client's protocol has one. *)
(* A container id that does not parse is refused at once.                  *)
Exec(s, kind, in, resize) ==
  /\ ses[s].pc \in {"idle", "closed"} /\ GoroutinesEnded(s)
  /\ kind = "sync" => in = "none"
  /\ kind # "tty" => resize = "nil"
  /\ \E pc \in {"start", "returned"} :
       Set(s, [NoSession EXCEPT !.kind = kind, !.in = in, !.resize = resize,
                                !.pc = pc,
                                !.ret = IF pc = "start" THEN "none" ELSE "error"])

(* The error of Start is looked at before any goroutine exists.            *)
MUT_StartFails(s) ==
  /\ ses[s].pc = "start"
  /\ Set(s, [ses[s] EXCEPT !.pc = "returned", !.ret = "error",
                           !.resizer = IF Tty(s) THEN "run" ELSE "none"])
StartFails(s) ==
  /\ ses[s].pc = "start"
  /\ Set(s, [ses[s] EXCEPT !.pc = "returned", !.ret = "error"])

(* Without a terminal os/exec copies both streams; on a terminal there is  *)
(* one output, copied by a goroutine of execWithTty.  It always has an out *)
(* to copy to: the stream server asks every session for stdout and waits   *)
(* for the streams that it asked for (serveExec, createHttpStreamStreams), *)
(* so the nil out that execWithTty tests for does not reach it.            *)
MUT_OutputCopiers(kind) == IF kind = "tty" THEN {} ELSE Streams
OutputCopiers(kind) == IF kind = "tty" THEN {"out"} ELSE Streams

(* The command comes up.  Without stdin and without a terminal it reads    *)
(* from /dev/null and waits for nothing.                                   *)
Start(s, plan, needs, code) ==
  /\ ses[s].pc = "start"
  /\ needs => ses[s].in # "none" \/ Tty(s)
  /\ Tty(s) => plan["err"] = 0
  /\ Set(s, [ses[s] EXCEPT
       !.pc = "wait", !.proc = "run", !.plan = plan, !.needs = needs,
       !.code = code,
       !.copy = [st \in Streams |->
                   IF st \in OutputCopiers(ses[s].kind) THEN "run" ELSE "none"],
       !.inCopy = IF ses[s].in = "none" THEN "none" ELSE "run",
       !.resizer = IF Tty(s) THEN "run" ELSE "none"])

----------------------------------------------------------------------------
(* The process.                                                            *)

ProcWrites(s, st) ==
  /\ ses[s].proc = "run" /\ ses[s].wrote[st] < ses[s].plan[st]
  /\ Buffered(s, st) < Cap
  /\ Tty(s) \/ ses[s].copy[st] = "run"
  /\ Set(s, [ses[s] EXCEPT !.wrote[st] = @ + 1])

(* Nobody reads the pipe any more: SIGPIPE.  A terminal stays open.        *)
ProcBrokenPipe(s, st) ==
  /\ ses[s].proc = "run" /\ ses[s].wrote[st] < ses[s].plan[st]
  /\ ~Tty(s) /\ ses[s].copy[st] = "failed"
  /\ Set(s, [ses[s] EXCEPT !.proc = "exited", !.code = Killed])

ProcExits(s) ==
  /\ ses[s].proc = "run" /\ ses[s].wrote = ses[s].plan
  /\ ses[s].needs => ses[s].fed
  /\ Set(s, [ses[s] EXCEPT !.proc = "exited"])

(* The container is stopped, or somebody kills the process.                *)
ProcKilled(s) ==
  /\ ses[s].proc = "run"
  /\ Set(s, [ses[s] EXCEPT !.proc = "exited", !.code = Killed])

----------------------------------------------------------------------------
(* The goroutines.                                                         *)

(* One round of io.Copy from the process to the client: a chunk goes over; *)
(* or the client's side is closed, which also closes the pipe that was     *)
(* read from; or there is nothing more to read.  A write to an out that    *)
(* rktlet itself has closed (only a terminal's) is not refused by the      *)
(* stream, but the client drops what follows the end of a stream: the      *)
(* chunk is lost as if the copy had failed, which has no other effect on a *)
(* terminal.  The process alone holds the pipe open (it leaves no children *)
(* behind).                                                                *)
CopyOut(s, st) ==
  /\ ses[s].copy[st] = "run"
  /\ \/ /\ Buffered(s, st) > 0
        /\ ses[s].outOpen /\ ses[s].client
        /\ Set(s, [ses[s] EXCEPT !.got[st] = @ + 1])
     \/ /\ Buffered(s, st) > 0
        /\ ~(ses[s].outOpen /\ ses[s].client)
        /\ Set(s, [ses[s] EXCEPT !.copy[st] = "failed", !.copyErr = TRUE])
     \/ /\ ses[s].proc = "exited" /\ Buffered(s, st) = 0
        /\ Set(s, [ses[s] EXCEPT !.copy[st] = "end"])
     \/ /\ Tty(s) /\ ses[s].pc \in {"returned", "closed"}
        /\ Set(s, [ses[s] EXCEPT !.copy[st] = "end"])

(* From the client to the process.  At the end of the client's input the   *)
(* pipe is closed, which the process sees; a terminal is not, and the      *)
(* process waits on.  A client that has left may be an error or an end.    *)
CopyIn(s) ==
  /\ ses[s].inCopy = "run"
  /\ \/ /\ ses[s].in = "chunk" /\ ses[s].proc = "run"
        /\ Set(s, [ses[s] EXCEPT !.in = "quiet", !.fed = TRUE])
     \/ /\ ses[s].in = "chunk" /\ ses[s].proc = "exited"
        /\ Set(s, [ses[s] EXCEPT !.inCopy = "end"])
     \/ /\ ses[s].in = "eof"
        /\ \E e \in {ses[s].copyErr, ses[s].copyErr \/ ~ses[s].client} :
             Set(s, [ses[s] EXCEPT !.inCopy = "end", !.copyErr = e,
                                   !.fed = @ \/ ~Tty(s)])

(* The select: a size is set; the closed channel yields empty sizes for as *)
(* long as the loop runs (no error is looked at when the terminal is       *)
(* closed).                                                                *)
SetSize(s) ==
  /\ ses[s].resizer = "run"
  /\ \/ /\ ses[s].resize = "size"
        /\ Set(s, [ses[s] EXCEPT !.resize = "quiet", !.size = "asked"])
     \/ /\ ses[s].resize = "closed"
        /\ Set(s, [ses[s] EXCEPT !.size = "zero"])

ResizerDone(s) ==
  /\ ses[s].resizer = "run" /\ ses[s].done
  /\ Set(s, [ses[s] EXCEPT !.resizer = "end"])

----------------------------------------------------------------------------
(* The return.                                                             *)

(* os/exec's Wait: an exit status other than 0 before an error of a copy.  *)
WaitError(s) ==
  IF ses[s].code # "0" THEN ses[s].code
  ELSE IF ses[s].copyErr /\ ~Tty(s) THEN "error" ELSE "0"

(* newRktExitError keeps the status, and ExecSync tells it from an error.  *)
MUT_newRktExitError(e) == IF e = "0" THEN "0" ELSE "error"
newRktExitError(e) == e

(* Wait returns when the process is gone and os/exec's own copies ended.   *)
MUT_CopiesAwaited(s) == TRUE
CopiesAwaited(s) ==
  Tty(s) \/ (ses[s].inCopy # "run" /\ \A st \in Streams : ses[s].copy[st] # "run")

(* With a terminal the deferred calls follow, the last deferred first.     *)
MUT_closeDone(s) == Tty(s) /\ ses[s].resize = "nil"
closeDone(s) == Tty(s)

WaitReturns(s) ==
  /\ ses[s].pc = "wait" /\ ses[s].proc = "exited" /\ CopiesAwaited(s)
  /\ Set(s, [ses[s] EXCEPT !.ret = newRktExitError(WaitError(s)),
                           !.done = closeDone(s),
                           !.pc = IF Tty(s) THEN "closeOut" ELSE "returned"])

MUT_closeOut(s) == ses[s].outOpen
closeOut(s) == FALSE

CloseOut(s) ==
  /\ ses[s].pc = "closeOut"
  /\ Set(s, [ses[s] EXCEPT !.outOpen = closeOut(s), !.pc = "closePty"])

ClosePty(s) ==
  /\ ses[s].pc = "closePty"
  /\ Set(s, [ses[s] EXCEPT !.pc = "returned"])

(* The stream server closes the connection: the streams end with it.       *)
ConnCloses(s) ==
  /\ ses[s].pc = "returned"
  /\ Set(s, [ses[s] EXCEPT
       !.pc = "closed",
       !.in = IF @ = "none" THEN @ ELSE "eof",
       !.resize = IF @ = "nil" THEN @ ELSE "closed"])

----------------------------------------------------------------------------
(* The client of a session.                                                *)

Client(s) ==
  /\ ses[s].kind # "sync" /\ ses[s].client
  /\ ses[s].pc \notin {"idle", "closed"}
  /\ \/ /\ ses[s].in = "quiet"
        /\ \E i \in {"chunk", "eof"} : Set(s, [ses[s] EXCEPT !.in = i])
     \/ /\ ses[s].resize = "quiet"
        /\ \E z \in {"size", "closed"} : Set(s, [ses[s] EXCEPT !.resize = z])
     \/ Set(s, [ses[s] EXCEPT !.client = FALSE,
                              !.in = IF @ = "none" THEN @ ELSE "eof",
                              !.resize = IF @ = "nil" THEN @ ELSE "closed"])

----------------------------------------------------------------------------
Request(s) ==
  \/ \E k \in Kinds, i \in {"none", "quiet"}, z \in {"nil", "quiet"} : Exec(s, k, i, z)
  \/ ProcKilled(s)
  \/ Client(s)

Begin(s) ==
  \/ StartFails(s)
  \/ \E p \in [Streams -> 0..MaxOut], n \in BOOLEAN, c \in Codes : Start(s, p, n, c)

Process(s) ==
  \/ \E st \in Streams : ProcWrites(s, st) \/ ProcBrokenPipe(s, st)
  \/ ProcExits(s)

Handler(s) == Begin(s) \/ WaitReturns(s) \/ CloseOut(s) \/ ClosePty(s) \/ ConnCloses(s)

ExecNext ==
  \E s \in Sessions :
    \/ Request(s)
    \/ Process(s)
    \/ Handler(s)
    \/ \E st \in Streams : CopyOut(s, st)
    \/ CopyIn(s)
    \/ SetSize(s)
    \/ ResizerDone(s)

(* Goroutines and handlers are scheduled, and Go's select takes each of    *)
(* its ready cases in the long run.  A process goes on while it can.  The  *)
(* client owes nothing.                                                    *)
ExecFairness ==
  \A s \in Sessions :
    /\ WF_ses(Process(s))
    /\ WF_ses(Handler(s))
    /\ \A st \in Streams : WF_ses(CopyOut(s, st))
    /\ WF_ses(CopyIn(s))
    /\ SF_ses(ResizerDone(s))

ExecSpec == ExecInit /\ [][ExecNext]_ses /\ ExecFairness

----------------------------------------------------------------------------
(* Properties.                                                             *)

Returned(s) == ses[s].pc \in {"returned", "closed"}

(* Every field has its type, no pipe holds more than it can, and there are *)
(* goroutines only for a process that was started.                         *)
ExecTypeOK ==
  /\ ses \in [Sessions -> SessionRecords]
  /\ \A s \in Sessions, st \in Streams : Buffered(s, st) \in 0..Cap
  /\ \A s \in Sessions : ses[s].proc = "none" => GoroutinesEnded(s)

(* When an exec without a terminal returns and its client has stayed, the  *)
(* client has all that the process ever wrote, on both streams, also when  *)
(* the process failed or was killed in the middle.                         *)
OutputComplete ==
  \A s \in Sessions :
    Returned(s) /\ ~Tty(s) /\ ses[s].client /\ ses[s].proc = "exited"
      => ses[s].got = ses[s].wrote

(* The status that Exec and ExecSync report is the process's own; only a   *)
(* success whose output could not be delivered is an error instead.  A     *)
(* command that failed is never taken for a failure of rktlet.             *)
ExitStatusReported ==
  \A s \in Sessions :
    Returned(s) /\ ses[s].proc = "exited"
      => \/ ses[s].ret = ses[s].code
         \/ ses[s].ret = "error" /\ ses[s].code = "0" /\ ~ses[s].client

(* After Exec has returned nothing more reaches the client, although the   *)
(* goroutine that copies a terminal's output may still be running: out is  *)
(* closed before.                                                          *)
SilentAfterReturn ==
  [][\A s \in Sessions :
       ses[s].pc = "returned" => ses'[s].got = ses[s].got]_ses

(* Wait ends unless the client holds an attached stdin open, or, on a      *)
(* terminal, the client has left or a process that wants input got none.   *)
WaitEnds ==
  \A s \in Sessions :
    []<>(ses[s].pc = "wait" =>
           IF Tty(s) THEN ~ses[s].client \/ (ses[s].needs /\ ~ses[s].fed)
           ELSE ses[s].in \in {"quiet", "chunk"})

(* No goroutine outlives its session for ever: the copies end with the     *)
(* streams, and the resize loop with done, even when its channel is closed *)
(* and never stops yielding.                                               *)
GoroutinesEnd ==
  \A s \in Sessions : Returned(s) ~> GoroutinesEnded(s)

=============================================================================
