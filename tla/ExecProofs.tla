----------------------------- MODULE ExecProofs -----------------------------
(***************************************************************************)
(* Proofs about the commands run in containers (module Exec), for any      *)
(* number of sessions, any amount of output and pipes of any size.         *)
(***************************************************************************)
EXTENDS Exec, TLAPS

(* What was written to a stream and is on its way.                         *)
InPipe(r, st) ==
  r.wrote[st] - r.got[st] - (IF r.copy[st] = "failed" THEN 1 ELSE 0)

PipesBounded(r) == \A st \in Streams : InPipe(r, st) \in 0..Cap

(* Before there is a process there are neither output nor goroutines.      *)
Fresh(r) ==
  r.proc = "none" =>
    /\ \A st \in Streams : /\ r.wrote[st] = 0 /\ r.got[st] = 0
                           /\ r.copy[st] = "none"
    /\ r.inCopy = "none" /\ r.resizer = "none" /\ r.outOpen /\ ~r.copyErr

(* The handler waits for a process that was started; it goes on when that  *)
(* has exited, and has deferred calls only with a terminal.                *)
Stages(r) ==
  /\ r.pc \in {"idle", "start"} => r.proc = "none"
  /\ r.pc \in {"wait", "closeOut", "closePty"} => r.proc # "none"
  /\ r.proc = "run" => r.pc = "wait"
  /\ r.pc \in {"closeOut", "closePty"} => r.kind = "tty"

(* Without a terminal both streams have a copier until the handler is      *)
(* through; it ends when everything is delivered, or fails without client. *)
CopiersDeliver(r) ==
  r.kind # "tty" =>
    /\ r.outOpen
    /\ r.copyErr => ~r.client
    /\ \A st \in Streams :
         /\ r.copy[st] = "failed" => ~r.client
         /\ r.copy[st] = "end" => r.proc = "exited" /\ r.wrote[st] = r.got[st]
         /\ r.copy[st] = "none" => r.proc = "none"
         /\ r.copy[st] = "run" => r.pc = "wait"

(* The status is settled when Wait has returned.                           *)
StatusSettled(r) ==
  r.pc \in {"closeOut", "closePty", "returned", "closed"} /\ r.proc = "exited" =>
    \/ r.ret = r.code
    \/ r.ret = "error" /\ r.code = "0" /\ ~r.client

(* A terminal's output is cut off before the handler returns.              *)
OutClosed(r) ==
  r.kind = "tty" /\ r.pc \in {"closePty", "returned", "closed"} /\ r.proc # "none"
    => ~r.outOpen

SInv(r) ==
  /\ r \in SessionRecords
  /\ PipesBounded(r)
  /\ Fresh(r)
  /\ Stages(r)
  /\ CopiersDeliver(r)
  /\ StatusSettled(r)
  /\ OutClosed(r)

ExecInv == ses \in [Sessions -> SessionRecords] /\ \A s \in Sessions : SInv(ses[s])

----------------------------------------------------------------------------
(* A session changes from a record that satisfies the invariant to one.    *)
LEMMA SetInv ==
  ASSUME ExecInv, NEW s \in Sessions, NEW r, SInv(r), Set(s, r)
  PROVE  ExecInv'
  <1>1. r \in SessionRecords
    BY DEF SInv
  <1>2. /\ ses' \in [Sessions -> SessionRecords] /\ ses'[s] = r
        /\ \A q \in Sessions \ {s} : ses'[q] = ses[q]
    BY <1>1 DEF ExecInv, Set
  <1>3. \A q \in Sessions : SInv(ses'[q])
    BY <1>2 DEF ExecInv
  <1> QED BY <1>2, <1>3 DEF ExecInv

(* The command does not come up: there is nothing to clean up.             *)
LEMMA StartFailsInv ==
  ASSUME ExecInv, NEW s \in Sessions, StartFails(s)
  PROVE  ExecInv'
  <1> DEFINE r == ses[s]
             q == [r EXCEPT !.pc = "returned", !.ret = "error"]
  <1>1. SInv(r) /\ Set(s, q) /\ r.pc = "start"
    BY DEF ExecInv, StartFails
  <1> HIDE DEF r
  <1>2. SInv(q)
    BY <1>1
    DEF SInv, SessionRecords, PipesBounded, InPipe, Fresh, Stages, CopiersDeliver,
        StatusSettled, OutClosed
  <1> QED BY <1>1, <1>2, SetInv

(* A chunk goes into a pipe that has room.                                 *)
LEMMA ProcWritesInv ==
  ASSUME ExecInv, NEW s \in Sessions, NEW st \in Streams, ProcWrites(s, st)
  PROVE  ExecInv'
  <1> DEFINE r == ses[s]
             W == [r.wrote EXCEPT ![st] = r.wrote[st] + 1]
             q == [r EXCEPT !.wrote = W]
  <1>1. /\ SInv(r) /\ Set(s, q)
        /\ r.proc = "run" /\ r.wrote[st] < r.plan[st] /\ InPipe(r, st) < Cap
        /\ r.kind = "tty" \/ r.copy[st] = "run"
    BY DEF ExecInv, ProcWrites, Buffered, InPipe, Tty
  <1>2. r \in SessionRecords
    BY <1>1 DEF SInv
  <1> HIDE DEF r
  <1>3. /\ r.wrote \in [Streams -> 0..MaxOut] /\ r.plan \in [Streams -> 0..MaxOut]
        /\ r.got \in [Streams -> 0..MaxOut]
    BY <1>2 DEF SessionRecords
  <1>4. /\ W \in [Streams -> 0..MaxOut]
        /\ \A o \in Streams : W[o] = IF o = st THEN r.wrote[st] + 1 ELSE r.wrote[o]
    <2>1. r.wrote[st] + 1 \in 0..MaxOut
      BY <1>1, <1>3, ExecAssumption
    <2> QED BY <1>3, <2>1
  <1> HIDE DEF W
  <1>5. q \in SessionRecords
    BY <1>2, <1>4 DEF SessionRecords
  <1>6. PipesBounded(q)
    <2>1. q.wrote = W /\ q.got = r.got /\ q.copy = r.copy
      BY <1>2 DEF SessionRecords
    <2> QED BY <1>1, <1>3, <1>4, <2>1, ExecAssumption DEF SInv, PipesBounded, InPipe
  <1>7. Fresh(q) /\ Stages(q) /\ StatusSettled(q) /\ OutClosed(q)
    BY <1>1, <1>2 DEF SInv, SessionRecords, Fresh, Stages, StatusSettled, OutClosed
  <1>8. CopiersDeliver(q)
    BY <1>1, <1>2, <1>4 DEF SInv, SessionRecords, CopiersDeliver
  <1> QED BY <1>1, <1>5, <1>6, <1>7, <1>8, SetInv DEF SInv

(* The process ends before its time, of a pipe that nobody reads or by a   *)
(* kill, while the handler waits for it.                                   *)
LEMMA ProcDiesInv ==
  ASSUME ExecInv, NEW s \in Sessions, ses[s].proc = "run",
         Set(s, [ses[s] EXCEPT !.proc = "exited", !.code = Killed])
  PROVE  ExecInv'
  <1> DEFINE r == ses[s]
             q == [r EXCEPT !.proc = "exited", !.code = Killed]
  <1>1. SInv(r) /\ r.proc = "run" /\ Killed \in Codes
    BY DEF ExecInv, Killed, Codes
  <1> HIDE DEF r
  <1>2. q \in SessionRecords
    BY <1>1 DEF SInv, SessionRecords
  <1>3. /\ PipesBounded(q) /\ Fresh(q) /\ Stages(q) /\ CopiersDeliver(q)
        /\ StatusSettled(q) /\ OutClosed(q)
    BY <1>1
    DEF SInv, SessionRecords, PipesBounded, InPipe, Fresh, Stages, CopiersDeliver,
        StatusSettled, OutClosed
  <1>4. SInv(q)
    BY <1>2, <1>3 DEF SInv
  <1> QED BY <1>4, SetInv DEF r

(* The process ends.                                                       *)
LEMMA ProcExitsInv ==
  ASSUME ExecInv, NEW s \in Sessions, ProcExits(s)
  PROVE  ExecInv'
  <1> DEFINE r == ses[s]
             q == [r EXCEPT !.proc = "exited"]
  <1>1. SInv(r) /\ Set(s, q) /\ r.proc = "run"
    BY DEF ExecInv, ProcExits
  <1> HIDE DEF r
  <1>2. SInv(q)
    BY <1>1
    DEF SInv, SessionRecords, PipesBounded, InPipe, Fresh, Stages, CopiersDeliver,
        StatusSettled, OutClosed
  <1> QED BY <1>1, <1>2, SetInv

(* The resize loop ends.                                                   *)
LEMMA ResizerDoneInv ==
  ASSUME ExecInv, NEW s \in Sessions, ResizerDone(s)
  PROVE  ExecInv'
  <1> DEFINE r == ses[s]
             q == [r EXCEPT !.resizer = "end"]
  <1>1. SInv(r) /\ Set(s, q) /\ r.resizer = "run"
    BY DEF ExecInv, ResizerDone
  <1> HIDE DEF r
  <1>2. SInv(q)
    BY <1>1
    DEF SInv, SessionRecords, PipesBounded, InPipe, Fresh, Stages, CopiersDeliver,
        StatusSettled, OutClosed
  <1> QED BY <1>1, <1>2, SetInv

(* The first deferred call of execWithTty closes the output.               *)
LEMMA CloseOutInv ==
  ASSUME ExecInv, NEW s \in Sessions, CloseOut(s)
  PROVE  ExecInv'
  <1> DEFINE r == ses[s]
             q == [r EXCEPT !.outOpen = FALSE, !.pc = "closePty"]
  <1>1. SInv(r) /\ Set(s, q) /\ r.pc = "closeOut"
    BY DEF ExecInv, CloseOut, closeOut
  <1> HIDE DEF r
  <1>2. SInv(q)
    BY <1>1
    DEF SInv, SessionRecords, PipesBounded, InPipe, Fresh, Stages, CopiersDeliver,
        StatusSettled, OutClosed
  <1> QED BY <1>1, <1>2, SetInv

(* The last one closes the terminal.                                       *)
LEMMA ClosePtyInv ==
  ASSUME ExecInv, NEW s \in Sessions, ClosePty(s)
  PROVE  ExecInv'
  <1> DEFINE r == ses[s]
             q == [r EXCEPT !.pc = "returned"]
  <1>1. SInv(r) /\ Set(s, q) /\ r.pc = "closePty"
    BY DEF ExecInv, ClosePty
  <1> HIDE DEF r
  <1>2. SInv(q)
    BY <1>1
    DEF SInv, SessionRecords, PipesBounded, InPipe, Fresh, Stages, CopiersDeliver,
        StatusSettled, OutClosed
  <1> QED BY <1>1, <1>2, SetInv

(* A request: a new session, or one that is refused.                       *)
LEMMA ExecRequestInv ==
  ASSUME ExecInv, NEW s \in Sessions, NEW k \in Kinds, NEW i \in {"none", "quiet"},
         NEW z \in {"nil", "quiet"}, Exec(s, k, i, z)
  PROVE  ExecInv'
  <1>1. PICK pc \in {"start", "returned"} :
          Set(s, [NoSession EXCEPT !.kind = k, !.in = i, !.resize = z, !.pc = pc,
                                   !.ret = IF pc = "start" THEN "none" ELSE "error"])
    BY DEF Exec
  <1> DEFINE q == [NoSession EXCEPT !.kind = k, !.in = i, !.resize = z, !.pc = pc,
                                    !.ret = IF pc = "start" THEN "none" ELSE "error"]
             e == IF pc = "start" THEN "none" ELSE "error"
             q1 == [NoSession EXCEPT !.kind = k, !.in = i, !.resize = z]
             q2 == [q1 EXCEPT !.pc = pc, !.ret = e]
  <1>2. /\ NoSession \in SessionRecords /\ NoSession.proc = "none"
        /\ \A st \in Streams : /\ NoSession.wrote[st] = 0 /\ NoSession.got[st] = 0
                               /\ NoSession.copy[st] = "none"
        /\ NoSession.inCopy = "none" /\ NoSession.resizer = "none"
        /\ NoSession.outOpen /\ ~NoSession.copyErr
    BY ExecAssumption DEF NoSession, SessionRecords, Kinds, Codes
  <1>3. e \in Codes \cup {"none", "error"}
    OBVIOUS
  <1>4. /\ q \in SessionRecords /\ q.pc \in {"start", "returned"} /\ q.proc = "none"
        /\ q.wrote = NoSession.wrote /\ q.got = NoSession.got
        /\ q.copy = NoSession.copy /\ q.inCopy = NoSession.inCopy
        /\ q.resizer = NoSession.resizer /\ q.outOpen = NoSession.outOpen
        /\ q.copyErr = NoSession.copyErr
    <2>1. /\ q1 \in SessionRecords /\ q1.proc = "none"
          /\ q1.wrote = NoSession.wrote /\ q1.got = NoSession.got
          /\ q1.copy = NoSession.copy /\ q1.inCopy = NoSession.inCopy
          /\ q1.resizer = NoSession.resizer /\ q1.outOpen = NoSession.outOpen
          /\ q1.copyErr = NoSession.copyErr
      BY <1>2 DEF SessionRecords
    <2>2. q = q2
      BY DEF NoSession
    <2> HIDE DEF q, q1
    <2>3. /\ q2 \in SessionRecords /\ q2.pc \in {"start", "returned"}
          /\ q2.proc = q1.proc /\ q2.wrote = q1.wrote /\ q2.got = q1.got
          /\ q2.copy = q1.copy /\ q2.inCopy = q1.inCopy
          /\ q2.resizer = q1.resizer /\ q2.outOpen = q1.outOpen
          /\ q2.copyErr = q1.copyErr
      BY <1>1, <1>3, <2>1 DEF SessionRecords
    <2> HIDE DEF q2
    <2> QED BY <2>1, <2>2, <2>3
  <1> HIDE DEF q, e
  <1>5. PipesBounded(q)
    BY <1>2, <1>4, ExecAssumption DEF PipesBounded, InPipe
  <1>6. Fresh(q) /\ Stages(q) /\ CopiersDeliver(q) /\ StatusSettled(q) /\ OutClosed(q)
    BY <1>2, <1>4 DEF Fresh, Stages, CopiersDeliver, StatusSettled, OutClosed
  <1>7. SInv(q)
    BY <1>4, <1>5, <1>6 DEF SInv
  <1> QED BY <1>1, <1>7, SetInv DEF q

(* The process and its goroutines come up.                                 *)
LEMMA StartInv ==
  ASSUME ExecInv, NEW s \in Sessions, NEW p \in [Streams -> 0..MaxOut],
         NEW n \in BOOLEAN, NEW c \in Codes, Start(s, p, n, c)
  PROVE  ExecInv'
  <1> DEFINE r == ses[s]
             C == [st \in Streams |->
                     IF st \in OutputCopiers(r.kind) THEN "run" ELSE "none"]
             I == IF r.in = "none" THEN "none" ELSE "run"
             Z == IF r.kind = "tty" THEN "run" ELSE "none"
             q == [r EXCEPT !.pc = "wait", !.proc = "run", !.plan = p, !.needs = n,
                     !.code = c, !.copy = C, !.inCopy = I, !.resizer = Z]
  <1>1. SInv(r) /\ Set(s, q) /\ r.pc = "start"
    BY DEF ExecInv, Start, Tty
  <1> HIDE DEF r
  <1>2. /\ C \in [Streams -> {"none", "run", "end", "failed"}]
        /\ \A st \in Streams : C[st] \in {"none", "run"}
        /\ r.kind # "tty" => \A st \in Streams : C[st] = "run"
    BY DEF OutputCopiers
  <1>0. I \in {"none", "run", "end"} /\ Z \in {"none", "run", "end"}
    OBVIOUS
  <1> HIDE DEF C, I, Z
  <1>3. r \in SessionRecords /\ r.proc = "none"
    BY <1>1 DEF SInv, Stages
  <1>4. q \in SessionRecords
    <2> DEFINE q1 == [r EXCEPT !.pc = "wait", !.proc = "run", !.plan = p, !.needs = n]
               q2 == [q1 EXCEPT !.code = c, !.copy = C]
               q3 == [q2 EXCEPT !.inCopy = I, !.resizer = Z]
    <2>1. q1 \in SessionRecords
      BY <1>3 DEF SessionRecords
    <2>2. q = q3
      BY <1>3 DEF SessionRecords
    <2> HIDE DEF q, q1
    <2>3. q2 \in SessionRecords
      BY <1>2, <2>1 DEF SessionRecords
    <2> HIDE DEF q2
    <2>4. q3 \in SessionRecords
      <3>1. \A x \in {"none", "run", "end"}, y \in {"none", "run", "end"} :
              [q2 EXCEPT !.inCopy = x, !.resizer = y] \in SessionRecords
        BY <2>3 DEF SessionRecords
      <3> QED BY <1>0, <3>1
    <2> QED BY <2>2, <2>4
  <1>5. /\ q.pc = "wait" /\ q.proc = "run" /\ q.copy = C /\ q.wrote = r.wrote
        /\ q.got = r.got /\ q.kind = r.kind /\ q.outOpen = r.outOpen
        /\ q.copyErr = r.copyErr /\ q.client = r.client
    BY <1>3 DEF SessionRecords
  <1> HIDE DEF q
  <1>6. \A st \in Streams : r.wrote[st] = 0 /\ r.got[st] = 0
    BY <1>1, <1>3 DEF SInv, Fresh
  <1>7. PipesBounded(q)
    BY <1>2, <1>5, <1>6, ExecAssumption DEF PipesBounded, InPipe
  <1>8. Fresh(q) /\ Stages(q) /\ StatusSettled(q) /\ OutClosed(q)
    BY <1>5 DEF Fresh, Stages, StatusSettled, OutClosed
  <1>9. CopiersDeliver(q)
    BY <1>1, <1>2, <1>3, <1>5 DEF SInv, Fresh, CopiersDeliver
  <1> QED BY <1>1, <1>4, <1>7, <1>8, <1>9, SetInv DEF SInv

(* One round of a copier of the output.                                    *)
LEMMA CopyOutInv ==
  ASSUME ExecInv, NEW s \in Sessions, NEW st \in Streams, CopyOut(s, st)
  PROVE  ExecInv'
  <1> DEFINE r == ses[s]
  <1>1. /\ SInv(r) /\ r \in SessionRecords /\ r.copy[st] = "run"
        /\ r.wrote \in [Streams -> 0..MaxOut] /\ r.got \in [Streams -> 0..MaxOut]
        /\ r.copy \in [Streams -> {"none", "run", "end", "failed"}]
    BY DEF ExecInv, CopyOut, SessionRecords, SInv
  <1>2. CASE /\ InPipe(r, st) > 0 /\ r.outOpen /\ r.client
             /\ Set(s, [r EXCEPT !.got[st] = @ + 1])
    <2> DEFINE G == [r.got EXCEPT ![st] = r.got[st] + 1]
               q == [r EXCEPT !.got = G]
    <2>1. Set(s, q)
      BY <1>2
    <2> HIDE DEF r
    <2>2. /\ G \in [Streams -> 0..MaxOut]
          /\ \A o \in Streams : G[o] = IF o = st THEN r.got[st] + 1 ELSE r.got[o]
      <3>1. r.got[st] + 1 \in 0..MaxOut
        BY <1>1, <1>2, ExecAssumption DEF InPipe
      <3> QED BY <1>1, <3>1
    <2> HIDE DEF G
    <2>3. q \in SessionRecords /\ q.got = G /\ q.wrote = r.wrote /\ q.copy = r.copy
      BY <1>1, <2>2 DEF SessionRecords
    <2>4. PipesBounded(q)
      BY <1>1, <1>2, <2>2, <2>3, ExecAssumption DEF SInv, PipesBounded, InPipe
    <2>5. Fresh(q) /\ Stages(q) /\ StatusSettled(q) /\ OutClosed(q)
      BY <1>1 DEF SInv, SessionRecords, Fresh, Stages, StatusSettled, OutClosed
    <2>6. CopiersDeliver(q)
      BY <1>1, <2>2 DEF SInv, SessionRecords, CopiersDeliver
    <2> QED BY <2>1, <2>3, <2>4, <2>5, <2>6, SetInv DEF SInv
  <1>3. CASE /\ InPipe(r, st) > 0 /\ ~(r.outOpen /\ r.client)
             /\ Set(s, [r EXCEPT !.copy[st] = "failed", !.copyErr = TRUE])
    <2> DEFINE C == [r.copy EXCEPT ![st] = "failed"]
               q == [r EXCEPT !.copy = C, !.copyErr = TRUE]
    <2>1. Set(s, q)
      BY <1>3
    <2> HIDE DEF r
    <2>2. /\ C \in [Streams -> {"none", "run", "end", "failed"}]
          /\ \A o \in Streams : C[o] = IF o = st THEN "failed" ELSE r.copy[o]
      BY <1>1
    <2> HIDE DEF C
    <2>3. q \in SessionRecords /\ q.got = r.got /\ q.wrote = r.wrote /\ q.copy = C
      BY <1>1, <2>2 DEF SessionRecords
    <2>4. PipesBounded(q)
      BY <1>1, <1>3, <2>2, <2>3, ExecAssumption DEF SInv, PipesBounded, InPipe
    <2>5. r.proc # "none"
      BY <1>1 DEF SInv, Fresh
    <2>6. Fresh(q) /\ Stages(q) /\ StatusSettled(q) /\ OutClosed(q)
      BY <1>1, <2>5 DEF SInv, SessionRecords, Fresh, Stages, StatusSettled, OutClosed
    <2>7. CopiersDeliver(q)
      BY <1>1, <1>3, <2>2 DEF SInv, SessionRecords, CopiersDeliver
    <2> QED BY <2>1, <2>3, <2>4, <2>6, <2>7, SetInv DEF SInv
  <1>4. CASE /\ \/ r.proc = "exited" /\ InPipe(r, st) = 0
                \/ r.kind = "tty" /\ r.pc \in {"returned", "closed"}
             /\ Set(s, [r EXCEPT !.copy[st] = "end"])
    <2> DEFINE C == [r.copy EXCEPT ![st] = "end"]
               q == [r EXCEPT !.copy = C]
    <2>1. Set(s, q)
      BY <1>4
    <2> HIDE DEF r
    <2>2. /\ C \in [Streams -> {"none", "run", "end", "failed"}]
          /\ \A o \in Streams : C[o] = IF o = st THEN "end" ELSE r.copy[o]
      BY <1>1
    <2> HIDE DEF C
    <2>3. q \in SessionRecords /\ q.got = r.got /\ q.wrote = r.wrote /\ q.copy = C
      BY <1>1, <2>2 DEF SessionRecords
    <2>4. PipesBounded(q)
      BY <1>1, <2>2, <2>3, ExecAssumption DEF SInv, PipesBounded, InPipe
    <2>5. r.proc # "none"
      BY <1>1 DEF SInv, Fresh
    <2>6. Fresh(q) /\ Stages(q) /\ StatusSettled(q) /\ OutClosed(q)
      BY <1>1, <2>5 DEF SInv, SessionRecords, Fresh, Stages, StatusSettled, OutClosed
    <2>7. r.kind # "tty" => r.proc = "exited" /\ r.wrote[st] = r.got[st]
      BY <1>1, <1>4 DEF InPipe
    <2>8. CopiersDeliver(q)
      BY <1>1, <2>2, <2>7 DEF SInv, SessionRecords, CopiersDeliver
    <2> QED BY <2>1, <2>3, <2>4, <2>6, <2>8, SetInv DEF SInv
  <1> QED BY <1>2, <1>3, <1>4 DEF CopyOut, Buffered, InPipe, Tty

(* A step that leaves alone everything the invariant is about but the      *)
(* input, the resizing and, of a started process, the two goroutines for   *)
(* them, keeps it, also when the client leaves.                            *)
LEMMA InputInv ==
  ASSUME ExecInv, NEW s \in Sessions, NEW q \in SessionRecords, Set(s, q),
         q.kind = ses[s].kind, q.pc = ses[s].pc, q.proc = ses[s].proc,
         q.wrote = ses[s].wrote, q.got = ses[s].got, q.copy = ses[s].copy,
         q.code = ses[s].code, q.ret = ses[s].ret, q.outOpen = ses[s].outOpen,
         q.client => ses[s].client,
         q.copyErr => ses[s].copyErr \/ ~q.client,
         ses[s].proc = "none" =>
           q.inCopy = "none" /\ q.resizer = "none" /\ ~q.copyErr
  PROVE  ExecInv'
  <1> DEFINE r == ses[s]
  <1>1. SInv(r)
    BY DEF ExecInv
  <1>2. PipesBounded(q) /\ Stages(q) /\ OutClosed(q)
    BY <1>1 DEF SInv, PipesBounded, InPipe, Stages, OutClosed
  <1>3. Fresh(q) /\ StatusSettled(q)
    BY <1>1 DEF SInv, Fresh, StatusSettled
  <1>4. CopiersDeliver(q)
    BY <1>1 DEF SInv, CopiersDeliver
  <1> QED BY <1>2, <1>3, <1>4, SetInv DEF SInv

(* One round of the copier of the input.                                   *)
LEMMA CopyInInv ==
  ASSUME ExecInv, NEW s \in Sessions, CopyIn(s)
  PROVE  ExecInv'
  <1> DEFINE r == ses[s]
  <1>1. /\ r \in SessionRecords /\ r.inCopy = "run" /\ r.proc # "none"
        /\ r.copyErr \in BOOLEAN /\ r.client \in BOOLEAN /\ r.fed \in BOOLEAN
    BY DEF ExecInv, CopyIn, SInv, Fresh, SessionRecords
  <1>2. CASE Set(s, [r EXCEPT !.in = "quiet", !.fed = TRUE])
    <2> DEFINE q == [r EXCEPT !.in = "quiet", !.fed = TRUE]
    <2>1. /\ q \in SessionRecords
          /\ q.kind = r.kind /\ q.pc = r.pc /\ q.proc = r.proc /\ q.wrote = r.wrote
          /\ q.got = r.got /\ q.copy = r.copy /\ q.code = r.code /\ q.ret = r.ret
          /\ q.outOpen = r.outOpen /\ q.client = r.client /\ q.copyErr = r.copyErr
      BY <1>1 DEF SessionRecords
    <2> HIDE DEF q
    <2> QED BY <1>1, <1>2, <2>1, InputInv DEF q
  <1>3. CASE Set(s, [r EXCEPT !.inCopy = "end"])
    <2> DEFINE q == [r EXCEPT !.inCopy = "end"]
    <2>1. /\ q \in SessionRecords
          /\ q.kind = r.kind /\ q.pc = r.pc /\ q.proc = r.proc /\ q.wrote = r.wrote
          /\ q.got = r.got /\ q.copy = r.copy /\ q.code = r.code /\ q.ret = r.ret
          /\ q.outOpen = r.outOpen /\ q.client = r.client /\ q.copyErr = r.copyErr
      BY <1>1 DEF SessionRecords
    <2> HIDE DEF q
    <2> QED BY <1>1, <1>3, <2>1, InputInv DEF q
  <1>4. ASSUME NEW e \in {r.copyErr, r.copyErr \/ ~r.client}, NEW f \in BOOLEAN,
               Set(s, [r EXCEPT !.inCopy = "end", !.copyErr = e, !.fed = f])
        PROVE  ExecInv'
    <2> DEFINE q == [r EXCEPT !.inCopy = "end", !.copyErr = e, !.fed = f]
    <2>1. e \in BOOLEAN /\ (e => r.copyErr \/ ~r.client)
      BY <1>1, Zenon
    <2>2. /\ q \in SessionRecords
          /\ q.kind = r.kind /\ q.pc = r.pc /\ q.proc = r.proc /\ q.wrote = r.wrote
          /\ q.got = r.got /\ q.copy = r.copy /\ q.code = r.code /\ q.ret = r.ret
          /\ q.outOpen = r.outOpen /\ q.client = r.client /\ q.copyErr = e
      BY <1>1, <2>1 DEF SessionRecords
    <2> HIDE DEF q
    <2> QED BY <1>1, <1>4, <2>1, <2>2, InputInv DEF q
  <1>5. CASE \E e \in {r.copyErr, r.copyErr \/ ~r.client} :
               Set(s, [r EXCEPT !.inCopy = "end", !.copyErr = e, !.fed = @ \/ ~Tty(s)])
    <2>1. PICK e \in {r.copyErr, r.copyErr \/ ~r.client} :
            Set(s, [r EXCEPT !.inCopy = "end", !.copyErr = e, !.fed = @ \/ ~Tty(s)])
      BY <1>5
    <2>2. (r.fed \/ ~Tty(s)) \in BOOLEAN
      OBVIOUS
    <2> QED BY <1>4, <2>1, <2>2
  <1> QED BY <1>2, <1>3, <1>5 DEF CopyIn

(* The terminal is resized.                                                *)
LEMMA SetSizeInv ==
  ASSUME ExecInv, NEW s \in Sessions, SetSize(s)
  PROVE  ExecInv'
  <1> DEFINE r == ses[s]
  <1>1. r \in SessionRecords
    BY DEF ExecInv
  <1>2. r.proc = "none" => r.inCopy = "none" /\ r.resizer = "none" /\ ~r.copyErr
    BY DEF ExecInv, SInv, Fresh
  <1>3. CASE Set(s, [r EXCEPT !.resize = "quiet", !.size = "asked"])
    <2> DEFINE q == [r EXCEPT !.resize = "quiet", !.size = "asked"]
    <2>0. \A z \in {"nil", "quiet", "size", "closed"}, n \in {"unset", "asked", "zero"} :
            [r EXCEPT !.resize = z, !.size = n] \in SessionRecords
      BY <1>1 DEF SessionRecords
    <2>1. q \in SessionRecords
      BY <2>0
    <2>2. /\ q.kind = r.kind /\ q.pc = r.pc /\ q.proc = r.proc /\ q.wrote = r.wrote
          /\ q.got = r.got /\ q.copy = r.copy /\ q.code = r.code /\ q.ret = r.ret
          /\ q.outOpen = r.outOpen /\ q.copyErr = r.copyErr
          /\ q.inCopy = r.inCopy /\ q.resizer = r.resizer
          /\ q.client => r.client
      BY <1>1 DEF SessionRecords
    <2> HIDE DEF q
    <2> QED BY <1>1, <1>2, <1>3, <2>1, <2>2, InputInv DEF q
  <1>4. CASE Set(s, [r EXCEPT !.size = "zero"])
    <2> DEFINE q == [r EXCEPT !.size = "zero"]
    <2>1. q \in SessionRecords
      BY <1>1 DEF SessionRecords
    <2>2. /\ q.kind = r.kind /\ q.pc = r.pc /\ q.proc = r.proc /\ q.wrote = r.wrote
          /\ q.got = r.got /\ q.copy = r.copy /\ q.code = r.code /\ q.ret = r.ret
          /\ q.outOpen = r.outOpen /\ q.copyErr = r.copyErr
          /\ q.inCopy = r.inCopy /\ q.resizer = r.resizer
          /\ q.client => r.client
      BY <1>1 DEF SessionRecords
    <2> HIDE DEF q
    <2> QED BY <1>1, <1>2, <1>4, <2>1, <2>2, InputInv DEF q
  <1> QED BY <1>3, <1>4 DEF SetSize

(* The client sends, resizes, closes its input or leaves.                  *)
LEMMA ClientInv ==
  ASSUME ExecInv, NEW s \in Sessions, Client(s)
  PROVE  ExecInv'
  <1> DEFINE r == ses[s]
  <1>1. r \in SessionRecords
    BY DEF ExecInv
  <1>2. r.proc = "none" => r.inCopy = "none" /\ r.resizer = "none" /\ ~r.copyErr
    BY DEF ExecInv, SInv, Fresh
  <1>3. ASSUME NEW i \in {"chunk", "eof"},
               Set(s, [r EXCEPT !.in = i])
        PROVE  ExecInv'
    <2> DEFINE q == [r EXCEPT !.in = i]
    <2>1. q \in SessionRecords
      BY <1>1 DEF SessionRecords
    <2>2. /\ q.kind = r.kind /\ q.pc = r.pc /\ q.proc = r.proc /\ q.wrote = r.wrote
          /\ q.got = r.got /\ q.copy = r.copy /\ q.code = r.code /\ q.ret = r.ret
          /\ q.outOpen = r.outOpen /\ q.copyErr = r.copyErr
          /\ q.inCopy = r.inCopy /\ q.resizer = r.resizer
          /\ q.client => r.client
      BY <1>1 DEF SessionRecords
    <2> HIDE DEF q
    <2> QED BY <1>1, <1>2, <1>3, <2>1, <2>2, InputInv DEF q
  <1>4. ASSUME NEW z \in {"size", "closed"},
               Set(s, [r EXCEPT !.resize = z])
        PROVE  ExecInv'
    <2> DEFINE q == [r EXCEPT !.resize = z]
    <2>1. q \in SessionRecords
      BY <1>1 DEF SessionRecords
    <2>2. /\ q.kind = r.kind /\ q.pc = r.pc /\ q.proc = r.proc /\ q.wrote = r.wrote
          /\ q.got = r.got /\ q.copy = r.copy /\ q.code = r.code /\ q.ret = r.ret
          /\ q.outOpen = r.outOpen /\ q.copyErr = r.copyErr
          /\ q.inCopy = r.inCopy /\ q.resizer = r.resizer
          /\ q.client => r.client
      BY <1>1 DEF SessionRecords
    <2> HIDE DEF q
    <2> QED BY <1>1, <1>2, <1>4, <2>1, <2>2, InputInv DEF q
  <1>5. ASSUME NEW i \in {"none", "quiet", "chunk", "eof"},
               NEW z \in {"nil", "quiet", "size", "closed"},
               Set(s, [r EXCEPT !.client = FALSE, !.in = i, !.resize = z])
        PROVE  ExecInv'
    <2> DEFINE q == [r EXCEPT !.client = FALSE, !.in = i, !.resize = z]
    <2>1. q \in SessionRecords
      BY <1>1 DEF SessionRecords
    <2>2. /\ q.kind = r.kind /\ q.pc = r.pc /\ q.proc = r.proc /\ q.wrote = r.wrote
          /\ q.got = r.got /\ q.copy = r.copy /\ q.code = r.code /\ q.ret = r.ret
          /\ q.outOpen = r.outOpen /\ q.copyErr = r.copyErr
          /\ q.inCopy = r.inCopy /\ q.resizer = r.resizer
          /\ q.client => r.client
      BY <1>1 DEF SessionRecords
    <2> HIDE DEF q
    <2> QED BY <1>1, <1>2, <1>5, <2>1, <2>2, InputInv DEF q
  <1>6. ASSUME Set(s, [r EXCEPT !.client = FALSE,
                                !.in = IF @ = "none" THEN @ ELSE "eof",
                                !.resize = IF @ = "nil" THEN @ ELSE "closed"])
        PROVE  ExecInv'
    <2>1. /\ (IF r.in = "none" THEN r.in ELSE "eof") \in {"none", "quiet", "chunk", "eof"}
          /\ (IF r.resize = "nil" THEN r.resize ELSE "closed")
               \in {"nil", "quiet", "size", "closed"}
      OBVIOUS
    <2> QED BY <1>5, <1>6, <2>1
  <1> QED BY <1>3, <1>4, <1>6 DEF Client

(* Wait returns with what the process left, once os/exec's copies ended.   *)
LEMMA WaitReturnsInv ==
  ASSUME ExecInv, NEW s \in Sessions, WaitReturns(s)
  PROVE  ExecInv'
  <1> DEFINE r == ses[s]
             e == WaitError(s)
             d == r.kind = "tty"
             p == IF r.kind = "tty" THEN "closeOut" ELSE "returned"
             q == [r EXCEPT !.ret = e, !.done = d, !.pc = p]
  <1>1. /\ SInv(r) /\ Set(s, q) /\ r.pc = "wait" /\ r.proc = "exited"
        /\ r.kind # "tty" => \A st \in Streams : r.copy[st] # "run"
    BY DEF ExecInv, WaitReturns, newRktExitError, closeDone, CopiesAwaited, Tty
  <1>2. r \in SessionRecords /\ r.code \in Codes
    BY <1>1 DEF SInv, SessionRecords
  <1>3. /\ e \in Codes \cup {"none", "error"}
        /\ e = r.code \/ (e = "error" /\ r.code = "0" /\ r.copyErr /\ r.kind # "tty")
    BY <1>2 DEF WaitError, Codes, Tty
  <1>4. r.kind # "tty" /\ r.copyErr => ~r.client
    BY <1>1 DEF SInv, CopiersDeliver
  <1>5. d \in BOOLEAN /\ p \in {"closeOut", "returned"}
        /\ (r.kind = "tty" => p = "closeOut")
        /\ (r.kind # "tty" => p = "returned")
    OBVIOUS
  <1> HIDE DEF r, e, d, p
  <1>6. q \in SessionRecords
    <2>1. \A x \in Codes \cup {"none", "error"}, b \in BOOLEAN, y \in {"closeOut", "returned"} :
            [r EXCEPT !.ret = x, !.done = b, !.pc = y] \in SessionRecords
      BY <1>2 DEF SessionRecords
    <2> QED BY <1>3, <1>5, <2>1
  <1>7. /\ q.pc = p /\ q.ret = e /\ q.proc = r.proc /\ q.kind = r.kind
        /\ q.wrote = r.wrote /\ q.got = r.got /\ q.copy = r.copy /\ q.code = r.code
        /\ q.outOpen = r.outOpen /\ q.copyErr = r.copyErr /\ q.client = r.client
    BY <1>2 DEF SessionRecords
  <1> HIDE DEF q
  <1>8. PipesBounded(q) /\ Fresh(q) /\ Stages(q) /\ OutClosed(q)
    BY <1>1, <1>5, <1>7 DEF SInv, PipesBounded, InPipe, Fresh, Stages, OutClosed
  <1>9. StatusSettled(q)
    BY <1>3, <1>4, <1>7 DEF StatusSettled
  <1>10. CopiersDeliver(q)
    BY <1>1, <1>7 DEF SInv, CopiersDeliver
  <1> QED BY <1>1, <1>6, <1>8, <1>9, <1>10, SetInv DEF SInv

(* The connection is closed, and with it the streams.                      *)
LEMMA ConnClosesInv ==
  ASSUME ExecInv, NEW s \in Sessions, ConnCloses(s)
  PROVE  ExecInv'
  <1> DEFINE r == ses[s]
             i == IF r.in = "none" THEN r.in ELSE "eof"
             z == IF r.resize = "nil" THEN r.resize ELSE "closed"
             q == [r EXCEPT !.pc = "closed", !.in = i, !.resize = z]
  <1>1. SInv(r) /\ Set(s, q) /\ r.pc = "returned"
    BY DEF ExecInv, ConnCloses
  <1>2. r \in SessionRecords
    BY <1>1 DEF SInv
  <1>3. i \in {"none", "quiet", "chunk", "eof"} /\ z \in {"nil", "quiet", "size", "closed"}
    OBVIOUS
  <1> HIDE DEF r, i, z
  <1>4. q \in SessionRecords
    <2> DEFINE q1 == [r EXCEPT !.pc = "closed"]
               q2 == [q1 EXCEPT !.in = i]
    <2>1. q1 \in SessionRecords
      BY <1>2 DEF SessionRecords
    <2>2. q = [q2 EXCEPT !.resize = z]
      BY <1>2 DEF SessionRecords
    <2> HIDE DEF q, q1
    <2>3. q2 \in SessionRecords
      <3>1. \A x \in {"none", "quiet", "chunk", "eof"} : [q1 EXCEPT !.in = x] \in SessionRecords
        BY <2>1 DEF SessionRecords
      <3> QED BY <1>3, <3>1
    <2> HIDE DEF q2
    <2>4. \A y \in {"nil", "quiet", "size", "closed"} :
            [q2 EXCEPT !.resize = y] \in SessionRecords
      BY <2>3 DEF SessionRecords
    <2> QED BY <1>3, <2>2, <2>4
  <1>5. /\ q.pc = "closed" /\ q.ret = r.ret /\ q.proc = r.proc /\ q.kind = r.kind
        /\ q.wrote = r.wrote /\ q.got = r.got /\ q.copy = r.copy /\ q.code = r.code
        /\ q.outOpen = r.outOpen /\ q.copyErr = r.copyErr /\ q.client = r.client
        /\ q.inCopy = r.inCopy /\ q.resizer = r.resizer
    BY <1>2 DEF SessionRecords
  <1> HIDE DEF q
  <1>6. PipesBounded(q) /\ Fresh(q) /\ Stages(q) /\ OutClosed(q)
    BY <1>1, <1>5 DEF SInv, PipesBounded, InPipe, Fresh, Stages, OutClosed
  <1>7. StatusSettled(q) /\ CopiersDeliver(q)
    BY <1>1, <1>5 DEF SInv, StatusSettled, CopiersDeliver
  <1> QED BY <1>1, <1>4, <1>6, <1>7, SetInv DEF SInv

----------------------------------------------------------------------------
(* The invariant.                                                          *)

(* No session yet.                                                         *)
LEMMA ExecInvInit == ExecInit => ExecInv
  <1>1. NoSession \in SessionRecords
    BY ExecAssumption DEF NoSession, SessionRecords, Kinds, Codes
  <1>2. PipesBounded(NoSession)
    BY ExecAssumption DEF NoSession, PipesBounded, InPipe
  <1>3. /\ Fresh(NoSession) /\ Stages(NoSession) /\ CopiersDeliver(NoSession)
        /\ StatusSettled(NoSession) /\ OutClosed(NoSession)
    BY DEF NoSession, Fresh, Stages, CopiersDeliver, StatusSettled, OutClosed
  <1>4. SInv(NoSession)
    BY <1>1, <1>2, <1>3 DEF SInv
  <1> QED BY <1>1, <1>4 DEF ExecInit, ExecInv

(* Every step keeps the invariant, one case per actor's step.              *)
LEMMA ExecInvNext == ExecInv /\ [ExecNext]_ses => ExecInv'
  <1> SUFFICES ASSUME ExecInv, ExecNext PROVE ExecInv'
    BY DEF ExecInv
  <1>1. PICK s \in Sessions :
          \/ Request(s) \/ Process(s) \/ Handler(s)
          \/ \E st \in Streams : CopyOut(s, st)
          \/ CopyIn(s) \/ SetSize(s) \/ ResizerDone(s)
    BY DEF ExecNext
  <1>2. CASE Request(s)
    BY <1>2, ExecRequestInv, ProcDiesInv, ClientInv DEF Request, ProcKilled
  <1>3. CASE Process(s)
    BY <1>3, ProcWritesInv, ProcDiesInv, ProcExitsInv DEF Process, ProcBrokenPipe
  <1>4. CASE Handler(s)
    BY <1>4, StartFailsInv, StartInv, WaitReturnsInv, CloseOutInv, ClosePtyInv,
       ConnClosesInv DEF Handler, Begin
  <1>5. CASE \E st \in Streams : CopyOut(s, st)
    BY <1>5, CopyOutInv
  <1>6. CASE CopyIn(s) \/ SetSize(s) \/ ResizerDone(s)
    BY <1>6, CopyInInv, SetSizeInv, ResizerDoneInv
  <1> QED BY <1>1, <1>2, <1>3, <1>4, <1>5, <1>6

(* The invariant holds for ever.                                           *)
LEMMA ExecInvAlways == ExecSpec => []ExecInv
  BY ExecInvInit, ExecInvNext, PTL DEF ExecSpec

(* The sessions keep their types, no pipe holds more than it can, and      *)
(* there are goroutines only for a process that was started.               *)
THEOREM ExecTypes == ExecSpec => []ExecTypeOK
  <1>1. ASSUME ExecInv PROVE ExecTypeOK
    <2>1. ses \in [Sessions -> SessionRecords]
      BY <1>1 DEF ExecInv
    <2>2. \A s \in Sessions, st \in Streams : Buffered(s, st) \in 0..Cap
      BY <1>1 DEF ExecInv, SInv, PipesBounded, InPipe, Buffered
    <2>3. \A s \in Sessions : ses[s].proc = "none" => GoroutinesEnded(s)
      BY <1>1 DEF ExecInv, SInv, Fresh, GoroutinesEnded
    <2> QED BY <2>1, <2>2, <2>3 DEF ExecTypeOK
  <1> QED BY <1>1, ExecInvAlways, PTL

(* An exec without a terminal returns only when its client has all that    *)
(* the process wrote, whatever the size of the pipes and the output.       *)
THEOREM OutputDelivered == ExecSpec => []OutputComplete
  <1>1. ASSUME ExecInv PROVE OutputComplete
    <2> SUFFICES ASSUME NEW s \in Sessions, Returned(s), ~Tty(s), ses[s].client,
                        ses[s].proc = "exited"
                 PROVE  ses[s].got = ses[s].wrote
      BY DEF OutputComplete
    <2>1. /\ ses[s] \in SessionRecords /\ CopiersDeliver(ses[s])
      BY <1>1 DEF ExecInv, SInv
    <2>2. /\ ses[s].got \in [Streams -> 0..MaxOut] /\ ses[s].wrote \in [Streams -> 0..MaxOut]
          /\ ses[s].copy \in [Streams -> {"none", "run", "end", "failed"}]
      BY <2>1 DEF SessionRecords
    <2>3. \A st \in Streams : ses[s].copy[st] = "end"
      BY <2>1, <2>2 DEF CopiersDeliver, Returned, Tty
    <2>4. \A st \in Streams : ses[s].wrote[st] = ses[s].got[st]
      BY <2>1, <2>3 DEF CopiersDeliver, Tty
    <2> QED BY <2>2, <2>4
  <1> QED BY <1>1, ExecInvAlways, PTL

(* The status that is reported is the process's own, but for a success     *)
(* whose output no client was left to take.                                *)
THEOREM StatusReported == ExecSpec => []ExitStatusReported
  <1>1. ExecInv => ExitStatusReported
    BY DEF ExecInv, SInv, StatusSettled, ExitStatusReported, Returned
  <1> QED BY <1>1, ExecInvAlways, PTL

(* Nothing reaches the client between the return of Exec and the end of    *)
(* the connection.                                                         *)
THEOREM SilentReturn == ExecSpec => SilentAfterReturn
  <1> DEFINE Silent == \A s \in Sessions :
                         ses[s].pc = "returned" => ses'[s].got = ses[s].got
  <1>1. ASSUME ExecInv, ExecNext PROVE Silent
    <2> SUFFICES ASSUME NEW s \in Sessions, ses[s].pc = "returned"
                 PROVE  ses'[s].got = ses[s].got
      OBVIOUS
    <2>0. /\ SInv(ses[s]) /\ ses[s] \in SessionRecords
          /\ ses \in [Sessions -> SessionRecords]
          /\ ses[s].proc # "run"
      BY <1>1 DEF ExecInv, SInv, Stages
    <2>1. PICK t \in Sessions :
            \/ Request(t) \/ Process(t) \/ Handler(t)
            \/ \E st \in Streams : CopyOut(t, st)
            \/ CopyIn(t) \/ SetSize(t) \/ ResizerDone(t)
      BY <1>1 DEF ExecNext
    <2>2. ASSUME NEW r, Set(t, r), t = s => r.got = ses[s].got
          PROVE  ses'[s].got = ses[s].got
      BY <2>0, <2>2 DEF Set
    <2>3. CASE t # s
      <3>1. \E r : Set(t, r)
        BY <2>1 DEF Request, Exec, ProcKilled, Client, Process, ProcWrites, ProcBrokenPipe,
             ProcExits, Handler, Begin, StartFails, Start, WaitReturns, CloseOut, ClosePty,
             ConnCloses, CopyOut, CopyIn, SetSize, ResizerDone
      <3> QED BY <2>2, <2>3, <3>1
    <2>4. CASE t = s
      <3>1. ~(ses[s].outOpen /\ \E st \in Streams : ses[s].copy[st] = "run")
        BY <2>0 DEF SInv, Fresh, CopiersDeliver, OutClosed
      <3>2. CASE \E st \in Streams : CopyOut(s, st)
        <4>1. PICK st \in Streams : CopyOut(s, st)
          BY <3>2
        <4>2. ses[s].copy[st] = "run" /\ ~ses[s].outOpen
          BY <3>1, <4>1 DEF CopyOut
        <4>3. CASE Set(s, [ses[s] EXCEPT !.copy[st] = "failed", !.copyErr = TRUE])
          BY <2>0, <2>2, <2>4, <4>3 DEF SessionRecords
        <4>4. CASE Set(s, [ses[s] EXCEPT !.copy[st] = "end"])
          BY <2>0, <2>2, <2>4, <4>4 DEF SessionRecords
        <4> QED BY <4>1, <4>2, <4>3, <4>4 DEF CopyOut
      <3>3. CASE Request(s)
        <4>1. Client(s)
          BY <2>0, <3>3 DEF Request, Exec, ProcKilled
        <4>2. /\ \A i : [ses[s] EXCEPT !.in = i].got = ses[s].got
              /\ \A z : [ses[s] EXCEPT !.resize = z].got = ses[s].got
              /\ \A c, i, z : [ses[s] EXCEPT !.client = c, !.in = i, !.resize = z].got
                              = ses[s].got
          BY <2>0 DEF SessionRecords
        <4>3. \/ \E i : Set(s, [ses[s] EXCEPT !.in = i])
              \/ \E z : Set(s, [ses[s] EXCEPT !.resize = z])
              \/ \E c, i, z : Set(s, [ses[s] EXCEPT !.client = c, !.in = i, !.resize = z])
          BY <4>1 DEF Client
        <4>4. CASE \E i : Set(s, [ses[s] EXCEPT !.in = i])
          <5>1. PICK i : Set(s, [ses[s] EXCEPT !.in = i])
            BY <4>4
          <5>2. [ses[s] EXCEPT !.in = i].got = ses[s].got
            BY <4>2
          <5> QED BY <2>2, <2>4, <5>1, <5>2
        <4>5. CASE \E z : Set(s, [ses[s] EXCEPT !.resize = z])
          <5>1. PICK z : Set(s, [ses[s] EXCEPT !.resize = z])
            BY <4>5
          <5>2. [ses[s] EXCEPT !.resize = z].got = ses[s].got
            BY <4>2
          <5> QED BY <2>2, <2>4, <5>1, <5>2
        <4>6. CASE \E c, i, z : Set(s, [ses[s] EXCEPT !.client = c, !.in = i, !.resize = z])
          <5>1. PICK c, i, z : Set(s, [ses[s] EXCEPT !.client = c, !.in = i, !.resize = z])
            BY <4>6
          <5>2. [ses[s] EXCEPT !.client = c, !.in = i, !.resize = z].got = ses[s].got
            BY <4>2
          <5> QED BY <2>2, <2>4, <5>1, <5>2
        <4> QED BY <4>3, <4>4, <4>5, <4>6
      <3>4. CASE Handler(s)
        <4>1. ConnCloses(s)
          BY <3>4 DEF Handler, Begin, StartFails, Start, WaitReturns, CloseOut, ClosePty
        <4> QED BY <2>0, <4>1 DEF ConnCloses, Set, SessionRecords
      <3>5. CASE CopyIn(s) \/ SetSize(s) \/ ResizerDone(s)
        <4>1. \/ \E i, f : Set(s, [ses[s] EXCEPT !.in = i, !.fed = f])
              \/ \E i : Set(s, [ses[s] EXCEPT !.inCopy = i])
              \/ \E i, e, f : Set(s, [ses[s] EXCEPT !.inCopy = i, !.copyErr = e, !.fed = f])
              \/ \E z, n : Set(s, [ses[s] EXCEPT !.resize = z, !.size = n])
              \/ \E n : Set(s, [ses[s] EXCEPT !.size = n])
              \/ \E e : Set(s, [ses[s] EXCEPT !.resizer = e])
          BY <3>5 DEF CopyIn, SetSize, ResizerDone
        <4>2. CASE \E i, f : Set(s, [ses[s] EXCEPT !.in = i, !.fed = f])
          <5>1. PICK i, f : Set(s, [ses[s] EXCEPT !.in = i, !.fed = f])
            BY <4>2
          <5>2. [ses[s] EXCEPT !.in = i, !.fed = f].got = ses[s].got
            BY <2>0 DEF SessionRecords
          <5> QED BY <2>2, <2>4, <5>1, <5>2
        <4>3. CASE \E i : Set(s, [ses[s] EXCEPT !.inCopy = i])
          <5>1. PICK i : Set(s, [ses[s] EXCEPT !.inCopy = i])
            BY <4>3
          <5>2. [ses[s] EXCEPT !.inCopy = i].got = ses[s].got
            BY <2>0 DEF SessionRecords
          <5> QED BY <2>2, <2>4, <5>1, <5>2
        <4>4. CASE \E i, e, f : Set(s, [ses[s] EXCEPT !.inCopy = i, !.copyErr = e, !.fed = f])
          <5>1. PICK i, e, f : Set(s, [ses[s] EXCEPT !.inCopy = i, !.copyErr = e, !.fed = f])
            BY <4>4
          <5>2. [ses[s] EXCEPT !.inCopy = i, !.copyErr = e, !.fed = f].got = ses[s].got
            BY <2>0 DEF SessionRecords
          <5> QED BY <2>2, <2>4, <5>1, <5>2
        <4>5. CASE \E z, n : Set(s, [ses[s] EXCEPT !.resize = z, !.size = n])
          <5>1. PICK z, n : Set(s, [ses[s] EXCEPT !.resize = z, !.size = n])
            BY <4>5
          <5>2. [ses[s] EXCEPT !.resize = z, !.size = n].got = ses[s].got
            BY <2>0 DEF SessionRecords
          <5> QED BY <2>2, <2>4, <5>1, <5>2
        <4>6. CASE \E n : Set(s, [ses[s] EXCEPT !.size = n])
          <5>1. PICK n : Set(s, [ses[s] EXCEPT !.size = n])
            BY <4>6
          <5>2. [ses[s] EXCEPT !.size = n].got = ses[s].got
            BY <2>0 DEF SessionRecords
          <5> QED BY <2>2, <2>4, <5>1, <5>2
        <4>7. CASE \E e : Set(s, [ses[s] EXCEPT !.resizer = e])
          <5>1. PICK e : Set(s, [ses[s] EXCEPT !.resizer = e])
            BY <4>7
          <5>2. [ses[s] EXCEPT !.resizer = e].got = ses[s].got
            BY <2>0 DEF SessionRecords
          <5> QED BY <2>2, <2>4, <5>1, <5>2
        <4> QED BY <4>1, <4>2, <4>3, <4>4, <4>5, <4>6, <4>7
      <3>6. ~Process(s)
        BY <2>0 DEF Process, ProcWrites, ProcBrokenPipe, ProcExits
      <3> QED BY <2>1, <2>4, <3>2, <3>3, <3>4, <3>5, <3>6
    <2> QED BY <2>3, <2>4
  <1>2. ExecInv /\ [ExecNext]_ses => [Silent]_ses
    BY <1>1
  <1> QED BY <1>2, ExecInvAlways, PTL DEF ExecSpec, SilentAfterReturn

=============================================================================
