---------------------------- MODULE HelpersProofs ----------------------------
(***************************************************************************)
(* Proofs about the conversions around a rkt command (module Helpers), for *)
(* any requests, of any number of annotations, words, ports and networks.  *)
(* The loops of the code are recursive functions; that these are what      *)
(* their equations say, and what they compute, is shown with the least     *)
(* number for which it would not be so.                                    *)
(***************************************************************************)
EXTENDS Helpers, SequenceTheorems, NaturalsInduction, WellFoundedInduction, TLAPS

(* A command line is a sequence of what is on it.                          *)
IsTokens(c) == c \in Seq(Range(c))

----------------------------------------------------------------------------
(* Loops.                                                                  *)

(* A set of naturals has a least element.                                  *)
LEMMA LeastNumber ==
  ASSUME NEW T, T \subseteq Nat, T # {}
  PROVE  \E x \in T : \A y \in T : x <= y
  <1>1. PICK x \in T : \A y \in T : ~(<<y, x>> \in OpToRel(<, Nat))
    BY NatLessThanWellFounded, WFMin
  <1>2. \A a, b \in Nat : a < b => <<a, b>> \in OpToRel(<, Nat)
    BY Zenon DEF OpToRel
  <1>3. \A y \in T : ~(y < x)
    BY <1>1, <1>2
  <1> QED BY <1>3

(* Induction up to n, for a set of numbers.                                *)
LEMMA UpToN ==
  ASSUME NEW n \in Nat, NEW P, 0 \in P, \A i \in 1 .. n : i - 1 \in P => i \in P
  PROVE  \A i \in 0 .. n : i \in P
  <1> DEFINE T == {i \in 0 .. n : i \notin P}
  <1>1. SUFFICES ASSUME T # {} PROVE FALSE
    OBVIOUS
  <1>2. PICK x \in T : \A y \in T : x <= y
    <2>1. T \subseteq Nat
      OBVIOUS
    <2> HIDE DEF T
    <2> QED BY <1>1, <2>1, LeastNumber
  <1>3. x \in 1 .. n /\ x - 1 \in 0 .. n /\ ~(x <= x - 1)
    BY <1>2
  <1>4. x - 1 \in P
    BY <1>2, <1>3
  <1> QED BY <1>2, <1>3, <1>4

(* The steps of a loop over n things, and the states of S that it goes     *)
(* through from x0 on.                                                     *)
Steps(n, S) == [1 .. n -> [S -> S]]

GoesThrough(f, n, S, x0, g) ==
  f \in [0 .. n -> S] /\ f[0] = x0 /\ \A i \in 1 .. n : f[i] = g[i][f[i - 1]]

(* A loop goes through some states.                                        *)
LEMMA LoopStates ==
  ASSUME NEW n \in Nat, NEW S, NEW x0 \in S, NEW g \in Steps(n, S)
  PROVE  \E f : GoesThrough(f, n, S, x0, g)
  <1> DEFINE Run(k, f) == f[0] = x0 /\ \A i \in 1 .. k : f[i] = g[i][f[i - 1]]
             P == {k \in 0 .. n : \E f \in [0 .. k -> S] : Run(k, f)}
  <1>1. 0 \in P
    <2> DEFINE f == [i \in 0 .. 0 |-> x0]
    <2>1. f \in [0 .. 0 -> S] /\ f[0] = x0
      OBVIOUS
    <2> HIDE DEF f
    <2>2. Run(0, f)
      BY <2>1
    <2> HIDE DEF Run
    <2> QED BY <2>1, <2>2
  <1>2. ASSUME NEW k \in 1 .. n, k - 1 \in P PROVE k \in P
    <2>1. PICK f \in [0 .. (k - 1) -> S] : Run(k - 1, f)
      BY <1>2
    <2> DEFINE h == [i \in 0 .. k |-> IF i = k THEN g[k][f[k - 1]] ELSE f[i]]
    <2>2. g[k] \in [S -> S] /\ f[k - 1] \in S
      BY <2>1 DEF Steps
    <2>3. h \in [0 .. k -> S]
      BY <2>2
    <2>4. /\ h[0] = f[0] /\ h[k] = g[k][f[k - 1]] /\ h[k - 1] = f[k - 1]
          /\ \A i \in 1 .. (k - 1) : h[i] = f[i] /\ h[i - 1] = f[i - 1]
      OBVIOUS
    <2> HIDE DEF h
    <2>5. Run(k, h)
      BY <2>1, <2>4
    <2> HIDE DEF Run
    <2> QED BY <2>3, <2>5
  <1> HIDE DEF Run
  <1>3. \A k \in 0 .. n : k \in P
    <2> HIDE DEF P
    <2> QED BY <1>1, <1>2, UpToN
  <1>4. n \in P
    BY <1>3
  <1> QED BY <1>4 DEF Run, GoesThrough

----------------------------------------------------------------------------
(* Command lines.                                                          *)

(* The values of a flag depend only on which tokens there are.             *)
LEMMA ValuesOfRange ==
  ASSUME NEW c, NEW n
  PROVE  Values(c, n) = {t[2] : t \in {u \in Range(c) : u[1] = n}}
  BY DEF Values, Range

(* What is on two command lines, one after the other.                      *)
LEMMA ConcatValues ==
  ASSUME NEW a, NEW b, IsTokens(a), IsTokens(b)
  PROVE  /\ IsTokens(a \o b)
         /\ \A n : Values(a \o b, n) = Values(a, n) \cup Values(b, n)
  <1> DEFINE S == Range(a) \cup Range(b)
             c == a \o b
  <1>1. a \in Seq(S) /\ b \in Seq(S)
    BY SeqMonotonic DEF IsTokens
  <1>2. /\ Len(a) \in Nat /\ DOMAIN a = 1 .. Len(a)
        /\ Len(b) \in Nat /\ DOMAIN b = 1 .. Len(b)
    BY <1>1, LenProperties
  <1>3. /\ c \in Seq(S) /\ Len(c) = Len(a) + Len(b)
        /\ \A i \in 1 .. Len(a) + Len(b) : c[i] = IF i <= Len(a) THEN a[i] ELSE b[i - Len(a)]
    BY <1>1, ConcatProperties
  <1>4. DOMAIN c = 1 .. Len(a) + Len(b)
    BY <1>3, LenProperties
  <1> HIDE DEF c
  <1>5. Range(c) \subseteq S
    <2>1. \A i \in DOMAIN c : c[i] \in S
      BY <1>3, <1>4, ElementOfSeq
    <2> QED BY <2>1 DEF Range
  <1>6. Range(a) \subseteq Range(c)
    <2>1. \A i \in DOMAIN a : i \in DOMAIN c /\ c[i] = a[i]
      BY <1>2, <1>3, <1>4
    <2> QED BY <2>1 DEF Range
  <1>7. Range(b) \subseteq Range(c)
    <2>1. \A i \in DOMAIN b : i + Len(a) \in DOMAIN c /\ c[i + Len(a)] = b[i]
      <3> SUFFICES ASSUME NEW i \in DOMAIN b
                   PROVE  i + Len(a) \in DOMAIN c /\ c[i + Len(a)] = b[i]
        OBVIOUS
      <3>1. i + Len(a) \in DOMAIN c /\ ~(i + Len(a) <= Len(a)) /\ (i + Len(a)) - Len(a) = i
        BY <1>2, <1>4
      <3> QED BY <1>3, <1>4, <3>1
    <2> QED BY <2>1 DEF Range
  <1>8. Range(c) = S
    BY <1>5, <1>6, <1>7
  <1>9. IsTokens(c)
    BY <1>3, <1>8 DEF IsTokens
  <1>10. \A n : Values(c, n) = Values(a, n) \cup Values(b, n)
    BY <1>8, ValuesOfRange
  <1> QED BY <1>9, <1>10 DEF c

(* One flag.                                                               *)
LEMMA FlagValues ==
  ASSUME NEW n, NEW v
  PROVE  IsTokens(Flag(n, v)) /\ \A m : Values(Flag(n, v), m) = IF m = n THEN {v} ELSE {}
  <1>1. Range(Flag(n, v)) = { <<n, v>> }
    BY DEF Flag, Range
  <1>2. Flag(n, v) \in Seq({ <<n, v>> })
    BY DEF Flag
  <1>3. \A m : Values(Flag(n, v), m) = IF m = n THEN {v} ELSE {}
    <2> DEFINE c == Flag(n, v)
    <2>1. DOMAIN c = {1} /\ c[1][1] = n /\ c[1][2] = v
      BY DEF Flag
    <2> HIDE DEF c
    <2> SUFFICES ASSUME NEW m PROVE Values(c, m) = IF m = n THEN {v} ELSE {}
      BY DEF c
    <2>2. CASE m = n
      <3>1. {j \in DOMAIN c : c[j][1] = m} = {1}
        BY <2>1, <2>2
      <3> QED BY <2>1, <2>2, <3>1 DEF Values
    <2>3. CASE m # n
      <3>1. {j \in DOMAIN c : c[j][1] = m} = {}
        BY <2>1, <2>3
      <3> QED BY <2>3, <3>1 DEF Values
    <2> QED BY <2>2, <2>3
  <1> QED BY <1>1, <1>2, <1>3 DEF IsTokens

(* No flag.                                                                *)
LEMMA EmptyValues ==
  IsTokens(<<>>) /\ \A m : Values(<<>>, m) = {}
  BY EmptySeq DEF IsTokens, Values, Range

(* A flag for each of several values.                                      *)
LEMMA FlagsValues ==
  ASSUME NEW n, NEW S, NEW vs \in Seq(S)
  PROVE  /\ IsTokens(Flags(n, vs))
         /\ \A m : Values(Flags(n, vs), m) = IF m = n THEN Range(vs) ELSE {}
  <1>1. Len(vs) \in Nat /\ DOMAIN vs = 1 .. Len(vs)
    BY LenProperties
  <1>2. Range(Flags(n, vs)) = {<<n, v>> : v \in Range(vs)}
    BY DEF Flags, Range
  <1>3. Flags(n, vs) \in [1 .. Len(vs) -> Range(Flags(n, vs))]
    BY <1>1 DEF Flags, Range
  <1>4. IsTokens(Flags(n, vs))
    BY <1>1, <1>3, SeqDef DEF IsTokens
  <1>5. \A m : Values(Flags(n, vs), m) = IF m = n THEN Range(vs) ELSE {}
    <2> DEFINE c == Flags(n, vs)
    <2>1. DOMAIN c = DOMAIN vs /\ \A j \in DOMAIN vs : c[j][1] = n /\ c[j][2] = vs[j]
      BY DEF Flags
    <2> HIDE DEF c
    <2> SUFFICES ASSUME NEW m PROVE Values(c, m) = IF m = n THEN Range(vs) ELSE {}
      BY DEF c
    <2>2. CASE m = n
      <3>1. {j \in DOMAIN c : c[j][1] = m} = DOMAIN vs
        BY <2>1, <2>2
      <3>2. Values(c, m) = {c[i][2] : i \in DOMAIN vs}
        BY <3>1 DEF Values
      <3> QED BY <2>1, <2>2, <3>2 DEF Range
    <2>3. CASE m # n
      <3>1. {j \in DOMAIN c : c[j][1] = m} = {}
        BY <2>1, <2>3
      <3> QED BY <2>3, <3>1 DEF Values
    <2> QED BY <2>2, <2>3
  <1> QED BY <1>4, <1>5

----------------------------------------------------------------------------
(* The loop over the port mappings.                                        *)

(* The names and mappings of those of the first i that are mapped.         *)
PortsUpTo(ports, i) ==
  {generatePortArgs(ports[j]) : j \in {k \in 1 .. i : Mapped(ports[k])}}

(* There is a flag for each mapping that has both ports, and no other.     *)
LEMMA PortFlagsValues ==
  ASSUME NEW S, NEW r, r.ports \in Seq(S)
  PROVE  /\ IsTokens(PortFlags(r))
         /\ \A m : Values(PortFlags(r), m) =
              IF m = "port" /\ ~r.hostNet THEN PortsUpTo(r.ports, Len(r.ports)) ELSE {}
  <1> DEFINE p == r.ports
             n == Len(p)
             F(i) == Flag("port", generatePortArgs(p[i]))
             E(f) == [i \in 0 .. n |->
                        IF i = 0 THEN <<>>
                        ELSE IF Mapped(p[i]) THEN f[i - 1] \o F(i) ELSE f[i - 1]]
             fl == CHOOSE f : f = E(f)
  <1>1. PortFlags(r) = IF r.hostNet THEN <<>> ELSE fl[n]
    BY DEF PortFlags
  <1>2. n \in Nat
    BY LenProperties
  <1>3. \A i \in 1 .. n : /\ IsTokens(F(i))
                          /\ \A m : Values(F(i), m) =
                               IF m = "port" THEN {generatePortArgs(p[i])} ELSE {}
    BY FlagValues
  <1> DEFINE T == UNION {Range(F(i)) : i \in 1 .. n}
             g == [i \in 1 .. n |->
                     [x \in Seq(T) |-> IF Mapped(p[i]) THEN x \o F(i) ELSE x]]
  <1>4. \A i \in 1 .. n : F(i) \in Seq(T)
    <2> SUFFICES ASSUME NEW i \in 1 .. n PROVE F(i) \in Seq(T)
      OBVIOUS
    <2>1. F(i) \in Seq(Range(F(i)))
      BY <1>3 DEF IsTokens
    <2>2. Range(F(i)) \subseteq T
      OBVIOUS
    <2> HIDE DEF F, T
    <2> QED BY <2>1, <2>2, SeqMonotonic
  <1> HIDE DEF F, T, p, n
  <1>5. g \in [1 .. n -> [Seq(T) -> Seq(T)]] /\ <<>> \in Seq(T)
    <2>1. \A i \in 1 .. n : \A x \in Seq(T) : x \o F(i) \in Seq(T)
      BY <1>4, ConcatProperties
    <2>2. \A i \in 1 .. n :
            [x \in Seq(T) |-> IF Mapped(p[i]) THEN x \o F(i) ELSE x] \in [Seq(T) -> Seq(T)]
      BY <2>1
    <2> QED BY <2>2, EmptySeq
  <1>6. \E f : f = E(f)
    <2>1. PICK f \in [0 .. n -> Seq(T)] :
                 f[0] = <<>> /\ \A i \in 1 .. n : f[i] = g[i][f[i - 1]]
      <3>1. g \in Steps(n, Seq(T))
        BY <1>5 DEF Steps
      <3> HIDE DEF g
      <3>2. \E f : GoesThrough(f, n, Seq(T), <<>>, g)
        BY <1>2, <1>5, <3>1, LoopStates
      <3> QED BY <3>2 DEF GoesThrough
    <2>2. \A i \in 1 .. n : f[i] = IF Mapped(p[i]) THEN f[i - 1] \o F(i) ELSE f[i - 1]
      <3>1. \A i \in 1 .. n : f[i - 1] \in Seq(T)
        BY <1>2, <2>1
      <3> QED BY <2>1, <3>1
    <2>3. \A i \in 0 .. n : i = 0 \/ i \in 1 .. n
      BY <1>2
    <2>4. f = E(f)
      BY <2>1, <2>2, <2>3
    <2> QED BY <2>4
  <1>7. fl = E(fl)
    BY <1>6
  <1> HIDE DEF fl
  <1>8. fl[0] = <<>> /\ \A i \in 1 .. n :
                          fl[i] = IF Mapped(p[i]) THEN fl[i - 1] \o F(i) ELSE fl[i - 1]
    <2> DEFINE e == E(fl)
    <2>1. e[0] = <<>> /\ \A i \in 1 .. n :
                           e[i] = IF Mapped(p[i]) THEN fl[i - 1] \o F(i) ELSE fl[i - 1]
      BY <1>2
    <2>2. fl = e
      BY <1>7
    <2> HIDE DEF e
    <2> QED BY <2>1, <2>2
  <1> DEFINE Right(i) == /\ IsTokens(fl[i])
                         /\ \A m : Values(fl[i], m) =
                              IF m = "port" THEN PortsUpTo(p, i) ELSE {}
             P == {i \in 0 .. n : Right(i)}
  <1>9. 0 \in P
    <2>1. PortsUpTo(p, 0) = {}
      BY DEF PortsUpTo
    <2>2. IsTokens(fl[0]) /\ \A m : Values(fl[0], m) = {}
      BY <1>8, EmptyValues
    <2>3. Right(0)
      BY <2>1, <2>2
    <2> HIDE DEF Right
    <2> QED BY <1>2, <2>3
  <1>10. ASSUME NEW i \in 1 .. n, i - 1 \in P PROVE i \in P
    <2>1. Right(i - 1) /\ i \in 0 .. n
      BY <1>2, <1>10
    <2>2. CASE Mapped(p[i])
      <3>1. PortsUpTo(p, i) = PortsUpTo(p, i - 1) \cup {generatePortArgs(p[i])}
        <4>1. {k \in 1 .. i : Mapped(p[k])} = {k \in 1 .. (i - 1) : Mapped(p[k])} \cup {i}
          BY <1>2, <2>2
        <4> QED BY <4>1 DEF PortsUpTo
      <3>2. fl[i] = fl[i - 1] \o F(i)
        BY <1>8, <2>2
      <3>3. /\ IsTokens(fl[i])
            /\ \A m : Values(fl[i], m) = Values(fl[i - 1], m) \cup Values(F(i), m)
        BY <1>3, <2>1, <3>2, ConcatValues
      <3> QED BY <1>3, <2>1, <3>1, <3>3
    <2>3. CASE ~Mapped(p[i])
      <3>1. {k \in 1 .. i : Mapped(p[k])} = {k \in 1 .. (i - 1) : Mapped(p[k])}
        BY <1>2, <2>3
      <3>2. PortsUpTo(p, i) = PortsUpTo(p, i - 1)
        BY <3>1 DEF PortsUpTo
      <3> QED BY <1>8, <2>1, <2>3, <3>2
    <2> QED BY <2>2, <2>3
  <1>11. Right(n)
    <2> HIDE DEF Right
    <2>1. \A i \in 0 .. n : i \in P
      <3> HIDE DEF P
      <3> QED BY <1>2, <1>9, <1>10, UpToN
    <2> QED BY <1>2, <2>1
  <1> QED BY <1>1, <1>11, EmptyValues DEF p, n

----------------------------------------------------------------------------
(* The loop over the networks.                                             *)

KubeNet == "rkt.kubernetes.io"

(* What the loop has found: for good, or until now.                        *)
Finds(X) == [returned : BOOLEAN, ip : X]

(* One round of the loop, case by case.                                    *)
Round(acc, n, new) ==
  /\ acc.returned = TRUE => new = acc
  /\ acc.returned = FALSE /\ n.name = KubeNet => new.returned = TRUE /\ new.ip = To4(n.ip)
  /\ acc.returned = FALSE /\ n.name # KubeNet /\ (n.name = "default" \/ acc.ip = "") =>
       new.returned = FALSE /\ new.ip = To4(n.ip)
  /\ acc.returned = FALSE /\ n.name # KubeNet /\ n.name # "default" /\ acc.ip # "" =>
       new = acc

(* A round of the loop goes like that.                                     *)
LEMMA PreferCases ==
  ASSUME NEW X, NEW acc \in Finds(X), NEW n, To4(n.ip) \in X
  PROVE  Prefer(acc, n) \in Finds(X) /\ Round(acc, n, Prefer(acc, n))
  <1> DEFINE x == To4(n.ip)
  <1>0. x \in X
    OBVIOUS
  <1> HIDE DEF x
  <1>1. CASE acc.returned = TRUE
    BY <1>1 DEF Prefer, Round
  <1>2. CASE acc.returned = FALSE /\ n.name = KubeNet
    <2>1. Prefer(acc, n) = [returned |-> TRUE, ip |-> x]
      BY <1>2 DEF Prefer, KubeNet, x
    <2>2. [returned |-> TRUE, ip |-> x] \in Finds(X)
      BY <1>0 DEF Finds
    <2> QED BY <1>2, <2>1, <2>2 DEF x, Round
  <1>3. CASE acc.returned = FALSE /\ n.name # KubeNet /\ (n.name = "default" \/ acc.ip = "")
    <2>1. Prefer(acc, n) = [acc EXCEPT !.ip = x]
      BY <1>3 DEF Prefer, KubeNet, x
    <2> DEFINE y == [acc EXCEPT !.ip = x]
    <2>2. y \in Finds(X) /\ y.returned = acc.returned /\ y.ip = x
      BY <1>0 DEF Finds
    <2> HIDE DEF y
    <2> QED BY <1>3, <2>1, <2>2 DEF x, y, Round
  <1>4. CASE acc.returned = FALSE /\ n.name # KubeNet /\ n.name # "default" /\ acc.ip # ""
    BY <1>4 DEF Prefer, KubeNet, Round
  <1>5. acc.returned = TRUE \/ acc.returned = FALSE
    BY Zenon DEF Finds
  <1> QED BY <1>1, <1>2, <1>3, <1>4, <1>5

(* Network j is the one to take of the first i.                            *)
Preferred(nets, i, j) ==
  /\ j \in 1 .. i
  /\ \/ nets[j].name = KubeNet /\ \A k \in 1 .. (j - 1) : nets[k].name # KubeNet
     \/ /\ \A k \in 1 .. i : nets[k].name # KubeNet
        /\ nets[j].name = "default" /\ \A k \in (j + 1) .. i : nets[k].name # "default"
     \/ /\ \A k \in 1 .. i : nets[k].name # KubeNet /\ nets[k].name # "default"
        /\ j = 1

(* getIP gives the address of that network.                                *)
LEMMA getIPPrefers ==
  ASSUME NEW nets \in Seq(Networks)
  PROVE  IF Len(nets) = 0 THEN getIP(nets) = ""
         ELSE \E j : Preferred(nets, Len(nets), j) /\ getIP(nets) = To4(nets[j].ip)
  <1> DEFINE n == Len(nets)
             E(f) == [i \in 0 .. n |->
                        IF i = 0 THEN [returned |-> FALSE, ip |-> ""]
                        ELSE Prefer(f[i - 1], nets[i])]
             fd == CHOOSE f : f = E(f)
             X == {""} \cup {To4(nets[i].ip) : i \in 1 .. n}
             S == Finds(X)
             x0 == [returned |-> FALSE, ip |-> ""]
             g == [i \in 1 .. n |-> [x \in S |-> Prefer(x, nets[i])]]
  <1>1. getIP(nets) = fd[n].ip
    BY DEF getIP
  <1>2. n \in Nat /\ \A i \in 1 .. n : nets[i] \in Networks
    BY LenProperties, ElementOfSeq
  <1>3. \A i \in 1 .. n : To4(nets[i].ip) \in X /\ To4(nets[i].ip) # ""
    <2>1. \A i \in 1 .. n : nets[i].ip # ""
      BY <1>2 DEF Networks
    <2> QED BY <2>1 DEF To4
  <1>4. x0 \in S /\ x0.returned = FALSE /\ x0.ip = ""
    BY DEF Finds
  <1> HIDE DEF X, n
  <1>5. \A i \in 1 .. n : \A x \in S : Prefer(x, nets[i]) \in S
    BY <1>3, PreferCases
  <1> HIDE DEF S, x0
  <1>6. g \in Steps(n, S)
    BY <1>5 DEF Steps
  <1>7. \E f : f = E(f)
    <2>1. PICK f : GoesThrough(f, n, S, x0, g)
      <3> HIDE DEF g
      <3> QED BY <1>2, <1>4, <1>6, LoopStates
    <2>2. f \in [0 .. n -> S] /\ f[0] = x0
      BY <2>1 DEF GoesThrough
    <2>3. \A i \in 1 .. n : f[i] = Prefer(f[i - 1], nets[i])
      <3>1. \A i \in 1 .. n : f[i - 1] \in S
        BY <1>2, <2>2
      <3> QED BY <2>1, <3>1 DEF GoesThrough
    <2>4. \A i \in 0 .. n : i = 0 \/ i \in 1 .. n
      BY <1>2
    <2>5. f = E(f)
      BY <2>2, <2>3, <2>4 DEF x0
    <2> QED BY <2>5
  <1>8. fd = E(fd)
    BY <1>7
  <1> HIDE DEF fd
  <1>9. fd[0] = x0 /\ \A i \in 1 .. n : fd[i] = Prefer(fd[i - 1], nets[i])
    <2> DEFINE e == E(fd)
    <2>1. e[0] = x0 /\ \A i \in 1 .. n : e[i] = Prefer(fd[i - 1], nets[i])
      <3>1. 0 \in 0 .. n /\ \A i \in 1 .. n : i \in 0 .. n /\ i # 0
        BY <1>2
      <3>2. e[0] = x0
        BY <3>1 DEF x0
      <3> QED BY <3>1, <3>2
    <2>2. fd = e
      BY <1>8
    <2> HIDE DEF e
    <2> QED BY <2>1, <2>2
  <1> DEFINE Right(i) == /\ fd[i] \in S
                         /\ fd[i].returned = TRUE => \E k \in 1 .. i : nets[k].name = KubeNet
                         /\ fd[i].returned = FALSE => \A k \in 1 .. i : nets[k].name # KubeNet
                         /\ i = 0 => fd[i].ip = ""
                         /\ i # 0 => \E j : Preferred(nets, i, j) /\ fd[i].ip = To4(nets[j].ip)
             P == {i \in 0 .. n : Right(i)}
  <1>10. 0 \in P
    <2>0. \A k \in 1 .. 0 : FALSE
      OBVIOUS
    <2>1. Right(0)
      BY <1>4, <1>9, <2>0
    <2> HIDE DEF Right
    <2> QED BY <1>2, <2>1
  <1> HIDE DEF Right, P
  <1>11. ASSUME NEW i \in 1 .. n, i - 1 \in P PROVE i \in P
    <2>0. i \in 0 .. n /\ i # 0 /\ i - 1 \in Nat /\ i \in Nat /\ i <= n
      BY <1>2
    <2>1. /\ fd[i - 1] \in S
          /\ fd[i - 1].returned = TRUE => \E k \in 1 .. (i - 1) : nets[k].name = KubeNet
          /\ fd[i - 1].returned = FALSE => \A k \in 1 .. (i - 1) : nets[k].name # KubeNet
          /\ i - 1 = 0 => fd[i - 1].ip = ""
          /\ i - 1 # 0 => \E j : Preferred(nets, i - 1, j) /\ fd[i - 1].ip = To4(nets[j].ip)
      BY <1>11 DEF P, Right
    <2>a. SUFFICES Right(i)
      BY <2>0 DEF P
    <2> DEFINE acc == fd[i - 1]
               new == fd[i]
               net == nets[i]
    <2>2. new \in S /\ Round(acc, net, new)
      <3>1. new = Prefer(acc, net) /\ acc \in Finds(X) /\ To4(net.ip) \in X
        BY <1>3, <1>9, <2>1 DEF S
      <3> HIDE DEF acc, new, net
      <3> QED BY <3>1, PreferCases DEF S
    <2>b. acc.returned = TRUE \/ acc.returned = FALSE
      BY <2>1, Zenon DEF S, Finds
    <2>3. \A k \in 1 .. i : k \in 1 .. (i - 1) \/ k = i
      BY <2>0
    <2>4. i \in 1 .. i /\ \A k \in 1 .. (i - 1) : k \in 1 .. i
      BY <2>0
    <2>5. CASE acc.returned = TRUE
      <3>1. PICK k \in 1 .. (i - 1) : nets[k].name = KubeNet
        BY <2>1, <2>5
      <3>a. i - 1 # 0
        BY <2>0, <3>1
      <3>2. PICK j : Preferred(nets, i - 1, j) /\ acc.ip = To4(nets[j].ip)
        BY <2>1, <3>a
      <3>3. Preferred(nets, i, j)
        BY <2>4, <3>1, <3>2 DEF Preferred
      <3> QED BY <2>0, <2>1, <2>2, <2>4, <2>5, <3>1, <3>2, <3>3 DEF Right, Round
    <2>6. CASE acc.returned = FALSE /\ net.name = KubeNet
      <3>1. Preferred(nets, i, i)
        BY <2>1, <2>4, <2>6 DEF Preferred
      <3> QED BY <2>0, <2>1, <2>2, <2>4, <2>6, <3>1 DEF Right, Round
    <2>7. CASE acc.returned = FALSE /\ net.name # KubeNet
      <3>1. \A k \in 1 .. i : nets[k].name # KubeNet
        BY <2>1, <2>3, <2>7
      <3>2. CASE net.name = "default"
        <4>1. (i + 1) .. i = {}
          BY <2>0
        <4>2. Preferred(nets, i, i)
          BY <2>4, <3>1, <3>2, <4>1 DEF Preferred
        <4> QED BY <2>0, <2>1, <2>2, <2>7, <3>1, <3>2, <4>2 DEF Right, Round
      <3>3. CASE net.name # "default" /\ acc.ip = ""
        <4>1. i - 1 = 0
          <5>1. SUFFICES ASSUME i - 1 # 0 PROVE FALSE
            OBVIOUS
          <5>2. PICK j : Preferred(nets, i - 1, j) /\ acc.ip = To4(nets[j].ip)
            BY <2>1, <5>1
          <5>3. j \in 1 .. n
            BY <1>2, <2>0, <5>2 DEF Preferred
          <5> QED BY <1>3, <3>3, <5>2, <5>3
        <4>2. i = 1
          BY <2>0, <4>1
        <4>3. Preferred(nets, i, i)
          <5>1. \A k \in 1 .. i : k = i
            BY <4>2
          <5> QED BY <2>4, <2>7, <3>3, <4>2, <5>1 DEF Preferred
        <4> QED BY <2>0, <2>1, <2>2, <2>7, <3>1, <3>3, <4>3 DEF Right, Round
      <3>4. CASE net.name # "default" /\ acc.ip # ""
        <4>1. PICK j : Preferred(nets, i - 1, j) /\ acc.ip = To4(nets[j].ip)
          BY <2>1, <3>4
        <4>2. \A k \in (j + 1) .. i : k \in (j + 1) .. (i - 1) \/ k = i
          BY <2>0, <4>1 DEF Preferred
        <4>3. Preferred(nets, i, j)
          BY <2>3, <2>4, <3>1, <3>4, <4>1, <4>2 DEF Preferred
        <4> QED BY <2>0, <2>1, <2>2, <2>7, <3>1, <3>4, <4>1, <4>3 DEF Right, Round
      <3> QED BY <3>2, <3>3, <3>4
    <2> QED BY <2>b, <2>5, <2>6, <2>7
  <1>12. Right(n)
    <2>1. \A i \in 0 .. n : i \in P
      BY <1>2, <1>10, <1>11, UpToN
    <2> QED BY <1>2, <2>1 DEF P
  <1> QED BY <1>1, <1>12 DEF n, Right

----------------------------------------------------------------------------
(* The parts of a command line.                                            *)

(* Tokens of these names only.                                             *)
Only(c, names) == IsTokens(c) /\ \A m : m \notin names => Values(c, m) = {}

GlobalNames == {"path", "sub", "debug", "dir", "local-config", "user-config",
                "system-config", "insecure-options"}

(* Names that neither part has, the whole has not.                         *)
LEMMA ConcatOnly ==
  ASSUME NEW a, NEW b, NEW names, Only(a, names), Only(b, names)
  PROVE  Only(a \o b, names)
  <1>1. IsTokens(a \o b) /\ \A n : Values(a \o b, n) = Values(a, n) \cup Values(b, n)
    BY ConcatValues DEF Only
  <1> QED BY <1>1 DEF Only

(* A flag has its own name only.                                           *)
LEMMA FlagOnly ==
  ASSUME NEW n, NEW v, NEW names, n \in names
  PROVE  Only(Flag(n, v), names) /\ Only(<<>>, names)
  <1>1. IsTokens(Flag(n, v)) /\ \A m : Values(Flag(n, v), m) = IF m = n THEN {v} ELSE {}
    BY FlagValues
  <1> QED BY <1>1, EmptyValues DEF Only

(* What comes before the arguments of a command.                           *)
CommandHead(sub) == (Flag("path", "rkt") \o Flag("sub", sub)) \o globalFlags

(* Nothing but global flags comes before the arguments.                    *)
LEMMA HeadOnly ==
  ASSUME NEW sub
  PROVE  Only(CommandHead(sub), GlobalNames)
  <1>1. ASSUME NEW n \in GlobalNames, NEW v PROVE Only(FlagOf(n, v), GlobalNames)
    BY FlagOnly DEF FlagOf
  <1>2. Only(globalFlags, GlobalNames)
    <2> DEFINE c1 == FlagOf("debug", "false") \o FlagOf("dir", "data")
               c2 == c1 \o FlagOf("local-config", "")
               c3 == c2 \o FlagOf("user-config", "")
               c4 == c3 \o FlagOf("system-config", "")
               c5 == c4 \o FlagOf("insecure-options", "image,ondisk")
    <2>1. Only(c1, GlobalNames)
      BY <1>1, ConcatOnly DEF GlobalNames
    <2>2. Only(c2, GlobalNames)
      <3> HIDE DEF c1
      <3> QED BY <1>1, <2>1, ConcatOnly DEF GlobalNames
    <2>3. Only(c3, GlobalNames)
      <3> HIDE DEF c2
      <3> QED BY <1>1, <2>2, ConcatOnly DEF GlobalNames
    <2>4. Only(c4, GlobalNames)
      <3> HIDE DEF c3
      <3> QED BY <1>1, <2>3, ConcatOnly DEF GlobalNames
    <2>5. Only(c5, GlobalNames)
      <3> HIDE DEF c4
      <3> QED BY <1>1, <2>4, ConcatOnly DEF GlobalNames
    <2>6. globalFlags = c5
      BY DEF globalFlags
    <2> HIDE DEF c5
    <2> QED BY <2>5, <2>6
  <1> DEFINE p == Flag("path", "rkt") \o Flag("sub", sub)
  <1>3. Only(p, GlobalNames)
    BY FlagOnly, ConcatOnly DEF GlobalNames
  <1> HIDE DEF p
  <1>4. Only(p \o globalFlags, GlobalNames)
    BY <1>2, <1>3, ConcatOnly
  <1> QED BY <1>4 DEF p, CommandHead

(* The global flags do not get in the way of the arguments.                *)
LEMMA CommandValues ==
  ASSUME NEW sub, NEW args, IsTokens(args)
  PROVE  /\ IsTokens(Command(sub, args))
         /\ \A m : m \notin GlobalNames => Values(Command(sub, args), m) = Values(args, m)
  <1> DEFINE q == CommandHead(sub)
  <1>1. Only(q, GlobalNames)
    BY HeadOnly
  <1>2. Command(sub, args) = q \o args
    BY DEF Command, CommandHead
  <1> HIDE DEF q
  <1>3. IsTokens(q \o args) /\ \A m : Values(q \o args, m) = Values(q, m) \cup Values(args, m)
    BY <1>1, ConcatValues DEF Only
  <1> QED BY <1>1, <1>2, <1>3 DEF Only

(* There is a CPU flag if the limit is positive.                           *)
LEMMA CpuTokens ==
  ASSUME NEW r
  PROVE  LET m == cpuQuotaToMilliCores(r.quota, r.period) IN
         /\ Only(CpuFlag(r), {"cpu"})
         /\ Values(CpuFlag(r), "cpu") = IF m > 0 THEN {m} ELSE {}
  <1> DEFINE m == cpuQuotaToMilliCores(r.quota, r.period)
  <1>1. CpuFlag(r) = IF m > 0 THEN Flag("cpu", m) ELSE <<>>
    BY DEF CpuFlag
  <1> HIDE DEF m
  <1>2. Only(CpuFlag(r), {"cpu"})
    BY <1>1, FlagOnly
  <1>3. Values(CpuFlag(r), "cpu") = IF m > 0 THEN {m} ELSE {}
    BY <1>1, FlagValues, EmptyValues
  <1> QED BY <1>2, <1>3 DEF m

SeccompNames == {"seccomp", ""}

(* The token of generateSeccompArg is for seccomp, or empty.               *)
LEMMA SeccompOnly ==
  ASSUME NEW r
  PROVE  Only(SeccompFlag(r), SeccompNames)
  <1>1. /\ Only(Flag("seccomp", "all"), SeccompNames) /\ Only(Flag("", ""), SeccompNames)
        /\ Only(<<>>, SeccompNames)
    <2>1. "seccomp" \in SeccompNames /\ "" \in SeccompNames
      BY DEF SeccompNames
    <2> QED BY <2>1, FlagOnly
  <1>2. Only(generateSeccompArg(r), SeccompNames)
    BY <1>1 DEF generateSeccompArg
  <1> QED BY <1>1, <1>2 DEF SeccompFlag

Unconfined == {"", "empty", "unconfined"}

(* When there is a flag for seccomp.                                       *)
LEMMA SeccompTokens ==
  ASSUME NEW r
  PROVE  /\ ~r.sec => Values(SeccompFlag(r), "seccomp") = {}
         /\ r.sec /\ r.privileged => Values(SeccompFlag(r), "seccomp") # {}
         /\ r.sec /\ ~r.privileged =>
              (Values(SeccompFlag(r), "seccomp") = {} <=> ProfileOf(r) \notin Unconfined)
  <1>2. /\ Values(Flag("seccomp", "all"), "seccomp") = {"all"}
        /\ Values(Flag("", ""), "seccomp") = {} /\ Values(<<>>, "seccomp") = {}
    BY FlagValues, EmptyValues
  <1>3. CASE ~r.sec
    BY <1>2, <1>3 DEF SeccompFlag
  <1>4. CASE r.sec /\ r.privileged
    BY <1>2, <1>4 DEF SeccompFlag
  <1>5. CASE r.sec /\ ~r.privileged
    <2>1. SeccompFlag(r) = generateSeccompArg(r)
      BY <1>5 DEF SeccompFlag
    <2>2. CASE ProfileOf(r) \in {"", "empty", "unconfined"}
      BY <1>2, <1>5, <2>1, <2>2 DEF generateSeccompArg, Unconfined
    <2>3. CASE ProfileOf(r) = "docker/default"
      BY <1>2, <1>5, <2>1, <2>3 DEF generateSeccompArg, Unconfined
    <2>4. CASE ProfileOf(r) \notin {"", "empty", "unconfined", "docker/default"}
      BY <1>2, <1>5, <2>1, <2>4 DEF generateSeccompArg, Unconfined
    <2> QED BY <2>2, <2>3, <2>4
  <1> QED BY <1>3, <1>4, <1>5

(* The capabilities are passed on unless there are none.                   *)
LEMMA CapsTokens ==
  ASSUME NEW r
  PROVE  /\ Only(CapsFlag(r), {"caps-retain"})
         /\ Values(CapsFlag(r), "caps-retain") = IF CapList(r) # {} THEN {CapList(r)} ELSE {}
  BY FlagOnly, FlagValues, EmptyValues DEF CapsFlag

(* The words of a command line after its first, as rkt is given them.      *)
WordTokens(w) ==
  [i \in DOMAIN w |-> IF w[i] = "---" THEN <<"---", "">> ELSE <<"arg", w[i]>>]

WordNames == {"exec", "--", "---", "arg"}

(* A word becomes an argument or ends them.                                *)
LEMMA WordsOnly ==
  ASSUME NEW S, NEW w \in Seq(S)
  PROVE  Only(WordTokens(w), {"---", "arg"}) /\ Only(WordTokens(w), WordNames)
  <1> DEFINE c == WordTokens(w)
  <1>1. Len(w) \in Nat /\ DOMAIN w = 1 .. Len(w)
    BY LenProperties
  <1>2. DOMAIN c = DOMAIN w /\ \A i \in DOMAIN w : c[i][1] = "---" \/ c[i][1] = "arg"
    BY DEF WordTokens
  <1>3. c \in [1 .. Len(w) -> Range(c)]
    BY <1>1 DEF WordTokens, Range
  <1> HIDE DEF c
  <1>4. IsTokens(c)
    BY <1>1, <1>3, SeqDef DEF IsTokens
  <1>5. ASSUME NEW m, m \notin {"---", "arg"} PROVE Values(c, m) = {}
    <2>1. {j \in DOMAIN c : c[j][1] = m} = {}
      BY <1>2, <1>5
    <2> QED BY <2>1 DEF Values
  <1>6. Only(c, {"---", "arg"}) /\ Only(c, WordNames)
    BY <1>4, <1>5 DEF Only, WordNames
  <1> QED BY <1>6 DEF c

(* The arguments are words.                                                *)
LEMMA AppArgsWords ==
  ASSUME NEW r, r.command \in Seq(STRING), r.args \in Seq(STRING)
  PROVE  AppArgs(r) \in Seq(STRING)
  <1>1. CASE r.command = <<>>
    <2>1. <<>> \in Seq(STRING) /\ AppArgs(r) = <<>> \o r.args
      BY <1>1, EmptySeq DEF AppArgs
    <2> QED BY <2>1, ConcatProperties
  <1>2. CASE r.command # <<>>
    <2>1. Tail(r.command) \in Seq(STRING)
      BY <1>2, HeadTailProperties
    <2>2. AppArgs(r) = Tail(r.command) \o r.args
      BY <1>2 DEF AppArgs
    <2> QED BY <2>1, <2>2, ConcatProperties
  <1> QED BY <1>1, <1>2

(* The two parts of ExecTokens.                                            *)
ExecFlag(r) == IF r.command = <<>> THEN <<>> ELSE Flag("exec", Head(r.command))

Delimited(w) ==
  IF w = <<>> THEN <<>> ELSE Flag("--", "") \o WordTokens(w) \o Flag("---", "")

(* The first word goes to --exec, the rest between the delimiters.         *)
LEMMA ExecTokensParts ==
  ASSUME NEW r, r.command \in Seq(STRING), r.args \in Seq(STRING)
  PROVE  /\ ExecTokens(r) = ExecFlag(r) \o Delimited(AppArgs(r))
         /\ Only(ExecFlag(r), {"exec"})
         /\ Only(Delimited(AppArgs(r)), {"--", "---", "arg"})
         /\ Only(ExecTokens(r), WordNames)
         /\ Values(ExecTokens(r), "exec") =
              IF r.command = <<>> THEN {} ELSE {Head(r.command)}
  <1> DEFINE w == AppArgs(r)
             N == {"--", "---", "arg"}
  <1>1. w \in Seq(STRING)
    BY AppArgsWords
  <1>2. ExecTokens(r) = ExecFlag(r) \o Delimited(w)
    BY DEF ExecTokens, ExecFlag, Delimited, WordTokens
  <1> HIDE DEF w
  <1>3. Only(ExecFlag(r), {"exec"}) /\ Only(ExecFlag(r), WordNames)
    <2> DEFINE M == {"exec"}
    <2>1. "exec" \in M /\ "exec" \in WordNames
      BY DEF WordNames
    <2> HIDE DEF M
    <2>2. Only(ExecFlag(r), M)
      BY <2>1, FlagOnly DEF ExecFlag
    <2>3. Only(ExecFlag(r), WordNames)
      BY <2>1, FlagOnly DEF ExecFlag
    <2> QED BY <2>2, <2>3 DEF M
  <1>4. Only(Delimited(w), N) /\ Only(Delimited(w), WordNames)
    <2>1. /\ "--" \in N /\ "---" \in N
          /\ N \subseteq WordNames
          /\ {"---", "arg"} \subseteq N
      BY DEF WordNames
    <2>2. Only(WordTokens(w), N)
      BY <1>1, <2>1, WordsOnly DEF Only
    <2> HIDE DEF N
    <2>3. Only(Flag("--", ""), N) /\ Only(Flag("---", ""), N) /\ Only(<<>>, N)
      BY <2>1, FlagOnly
    <2>4. Only(Delimited(w), N)
      <3>1. Only(Flag("--", "") \o WordTokens(w), N)
        BY <2>2, <2>3, ConcatOnly
      <3>2. Only((Flag("--", "") \o WordTokens(w)) \o Flag("---", ""), N)
        BY <2>3, <3>1, ConcatOnly
      <3> QED BY <2>3, <3>2 DEF Delimited
    <2> QED BY <2>1, <2>4 DEF Only
  <1>5. /\ IsTokens(ExecTokens(r))
        /\ \A m : Values(ExecTokens(r), m) = Values(ExecFlag(r), m) \cup Values(Delimited(w), m)
    BY <1>2, <1>3, <1>4, ConcatValues DEF Only
  <1>6. Values(Delimited(w), "exec") = {}
    BY <1>4 DEF Only
  <1>7. Values(ExecFlag(r), "exec") = IF r.command = <<>> THEN {} ELSE {Head(r.command)}
    BY FlagValues, EmptyValues DEF ExecFlag
  <1>8. Only(ExecTokens(r), WordNames)
    BY <1>3, <1>4, <1>5 DEF Only
  <1>9. Values(ExecTokens(r), "exec") = IF r.command = <<>> THEN {} ELSE {Head(r.command)}
    BY <1>5, <1>6, <1>7
  <1> QED BY <1>2, <1>3, <1>4, <1>8, <1>9 DEF w

----------------------------------------------------------------------------
(* The command of an app.                                                  *)

(* The flags of generateAppAddCommand, before the words.                   *)
AppFlags(r) ==
  Flags("user-annotation", r.annos) \o Flag("user-annotation", <<"image-name", r.image>>)
    \o CpuFlag(r) \o SeccompFlag(r) \o CapsFlag(r)

AppNames == {"user-annotation", "cpu", "seccomp", "", "caps-retain"}

(* The parts of a request.                                                 *)
LEMMA AppFields ==
  ASSUME NEW r \in ContainerRequests
  PROVE  /\ r.kind = "app" /\ r.annos \in Seq(STRING \X STRING)
         /\ r.quota \in Int /\ r.period \in Nat
         /\ r.sec \in BOOLEAN /\ r.privileged \in BOOLEAN /\ r.hasCaps \in BOOLEAN
         /\ r.uid \in BOOLEAN /\ r.username \in BOOLEAN
         /\ r.command \in Seq(STRING) /\ r.args \in Seq(STRING)
         /\ \A a \in Range(r.annos) : a[1] \notin Reserved
  <1>1. r \in AppRequests /\ \A i \in DOMAIN r.annos : r.annos[i][1] \notin Reserved
    BY HelpersAssumption
  <1>2. \A a \in Range(r.annos) : a[1] \notin Reserved
    BY <1>1 DEF Range
  <1>3. /\ r.kind = "app" /\ r.annos \in Seq(STRING \X STRING)
        /\ r.quota \in Int /\ r.period \in Nat
        /\ r.command \in Seq(STRING) /\ r.args \in Seq(STRING)
    BY <1>1 DEF AppRequests, Annotations
  <1>4. /\ r.sec \in BOOLEAN /\ r.privileged \in BOOLEAN /\ r.hasCaps \in BOOLEAN
        /\ r.uid \in BOOLEAN /\ r.username \in BOOLEAN
    BY <1>1, Zenon DEF AppRequests
  <1> QED BY <1>2, <1>3, <1>4

(* What each flag of an app says.                                          *)
LEMMA AppFlagValues ==
  ASSUME NEW r \in ContainerRequests
  PROVE  /\ Only(AppFlags(r), AppNames)
         /\ Values(AppFlags(r), "user-annotation") = Range(r.annos) \cup {<<"image-name", r.image>>}
         /\ Values(AppFlags(r), "cpu") = Values(CpuFlag(r), "cpu")
         /\ Values(AppFlags(r), "seccomp") = Values(SeccompFlag(r), "seccomp")
         /\ Values(AppFlags(r), "caps-retain") = Values(CapsFlag(r), "caps-retain")
  <1> DEFINE a1 == Flags("user-annotation", r.annos)
             a2 == Flag("user-annotation", <<"image-name", r.image>>)
             c2 == a1 \o a2
             c3 == c2 \o CpuFlag(r)
             c4 == c3 \o SeccompFlag(r)
             c5 == c4 \o CapsFlag(r)
  <1>1. /\ IsTokens(a1) /\ IsTokens(a2)
        /\ \A m : Values(a1, m) = IF m = "user-annotation" THEN Range(r.annos) ELSE {}
        /\ \A m : Values(a2, m) = IF m = "user-annotation" THEN {<<"image-name", r.image>>} ELSE {}
    <2>1. r.annos \in Seq(STRING \X STRING)
      BY AppFields
    <2>2. /\ IsTokens(a1)
          /\ \A m : Values(a1, m) = IF m = "user-annotation" THEN Range(r.annos) ELSE {}
      BY <2>1, FlagsValues
    <2>3. /\ IsTokens(a2)
          /\ \A m : Values(a2, m) =
               IF m = "user-annotation" THEN {<<"image-name", r.image>>} ELSE {}
      BY FlagValues
    <2> QED BY <2>2, <2>3
  <1>b. Only(CpuFlag(r), {"cpu"}) /\ Only(CapsFlag(r), {"caps-retain"})
    BY CpuTokens, CapsTokens
  <1>c. Only(SeccompFlag(r), SeccompNames)
    <2>1. r.sec \in BOOLEAN /\ r.privileged \in BOOLEAN
      BY AppFields, Zenon
    <2> QED BY <2>1, SeccompOnly
  <1>d. IsTokens(CpuFlag(r)) /\ IsTokens(SeccompFlag(r)) /\ IsTokens(CapsFlag(r))
    BY <1>b, <1>c DEF Only, SeccompNames
  <1>2. /\ \A m : m # "cpu" => Values(CpuFlag(r), m) = {}
        /\ \A m : m \notin {"seccomp", ""} => Values(SeccompFlag(r), m) = {}
        /\ \A m : m # "caps-retain" => Values(CapsFlag(r), m) = {}
    BY <1>b, <1>c DEF Only, SeccompNames
  <1> HIDE DEF a1, a2
  <1>3. IsTokens(c2) /\ \A m : Values(c2, m) = Values(a1, m) \cup Values(a2, m)
    BY <1>1, ConcatValues
  <1> HIDE DEF c2
  <1>4. IsTokens(c3) /\ \A m : Values(c3, m) = Values(c2, m) \cup Values(CpuFlag(r), m)
    BY <1>d, <1>3, ConcatValues
  <1> HIDE DEF c3
  <1>5. IsTokens(c4) /\ \A m : Values(c4, m) = Values(c3, m) \cup Values(SeccompFlag(r), m)
    BY <1>d, <1>4, ConcatValues
  <1> HIDE DEF c4
  <1>6. IsTokens(c5) /\ \A m : Values(c5, m) = Values(c4, m) \cup Values(CapsFlag(r), m)
    BY <1>d, <1>5, ConcatValues
  <1> HIDE DEF c5
  <1>7. AppFlags(r) = c5
    BY DEF AppFlags, a1, a2, c2, c3, c4, c5
  <1>8. \A m : Values(c5, m) = ((((Values(a1, m) \cup Values(a2, m)) \cup Values(CpuFlag(r), m))
                                \cup Values(SeccompFlag(r), m)) \cup Values(CapsFlag(r), m))
    BY <1>3, <1>4, <1>5, <1>6
  <1>9. Only(c5, AppNames)
    BY <1>1, <1>2, <1>6, <1>8 DEF Only, AppNames
  <1>10. Values(c5, "user-annotation") = Range(r.annos) \cup {<<"image-name", r.image>>}
    BY <1>1, <1>2, <1>8
  <1>11. /\ Values(c5, "cpu") = Values(CpuFlag(r), "cpu")
         /\ Values(c5, "seccomp") = Values(SeccompFlag(r), "seccomp")
         /\ Values(c5, "caps-retain") = Values(CapsFlag(r), "caps-retain")
    BY <1>1, <1>2, <1>8
  <1> QED BY <1>7, <1>9, <1>10, <1>11

(* What rkt is told about an app.                                          *)
LEMMA AppCommandValues ==
  ASSUME NEW r \in ContainerRequests,
         NEW c, c = Command("app", AppFlags(r) \o ExecTokens(r))
  PROVE  /\ Values(c, "user-annotation") = Range(r.annos) \cup {<<"image-name", r.image>>}
         /\ Values(c, "cpu") = Values(CpuFlag(r), "cpu")
         /\ Values(c, "seccomp") = Values(SeccompFlag(r), "seccomp")
         /\ Values(c, "caps-retain") = Values(CapsFlag(r), "caps-retain")
         /\ Values(c, "exec") = IF r.command = <<>> THEN {} ELSE {Head(r.command)}
  <1>1. r.command \in Seq(STRING) /\ r.args \in Seq(STRING)
    BY AppFields
  <1>2. /\ Only(ExecTokens(r), WordNames)
        /\ Values(ExecTokens(r), "exec") =
             IF r.command = <<>> THEN {} ELSE {Head(r.command)}
    BY <1>1, ExecTokensParts
  <1>3. Only(AppFlags(r), AppNames)
    BY AppFlagValues
  <1> DEFINE a == AppFlags(r) \o ExecTokens(r)
  <1>4. /\ IsTokens(a)
        /\ \A m : Values(a, m) = Values(AppFlags(r), m) \cup Values(ExecTokens(r), m)
    BY <1>2, <1>3, ConcatValues DEF Only
  <1> HIDE DEF a
  <1>5. \A m : m \notin GlobalNames => Values(c, m) = Values(a, m)
    BY <1>4, CommandValues DEF a
  <1>6. /\ Values(c, "user-annotation") = Values(AppFlags(r), "user-annotation")
        /\ Values(c, "cpu") = Values(AppFlags(r), "cpu")
        /\ Values(c, "seccomp") = Values(AppFlags(r), "seccomp")
        /\ Values(c, "caps-retain") = Values(AppFlags(r), "caps-retain")
    BY <1>2, <1>4, <1>5 DEF Only, WordNames, GlobalNames
  <1>7. Values(c, "exec") = Values(ExecTokens(r), "exec")
    BY <1>3, <1>4, <1>5 DEF Only, AppNames, GlobalNames
  <1> QED BY <1>2, <1>6, <1>7, AppFlagValues

----------------------------------------------------------------------------
(* The command of a sandbox.                                               *)

MetaAnnos(r) == << <<"pod-uid", r.meta>>, <<"pod-name", r.meta>>,
                   <<"pod-namespace", r.meta>>, <<"pod-attempt", r.meta>> >>

(* The parts of a request for a sandbox.                                   *)
LEMMA PodFields ==
  ASSUME NEW r \in SandboxRequests
  PROVE  /\ r.kind = "pod" /\ r.annos \in Seq(STRING \X STRING) /\ r.ports \in Seq(PortMappings)
         /\ r.hostNet \in BOOLEAN
         /\ \A a \in Range(r.annos) : a[1] \notin Reserved
  <1>1. r \in PodRequests /\ \A i \in DOMAIN r.annos : r.annos[i][1] \notin Reserved
    BY HelpersAssumption
  <1>2. \A a \in Range(r.annos) : a[1] \notin Reserved
    BY <1>1 DEF Range
  <1>3. r.kind = "pod" /\ r.annos \in Seq(STRING \X STRING) /\ r.ports \in Seq(PortMappings)
    BY <1>1 DEF PodRequests, Annotations
  <1>4. r.hostNet \in BOOLEAN
    BY <1>1, Zenon DEF PodRequests
  <1> QED BY <1>2, <1>3, <1>4

NetNames == {"net"}

(* A pod is on the network of the host only if it asks for it.             *)
LEMMA NetTokens ==
  ASSUME NEW r, r.hostNet \in BOOLEAN
  PROVE  /\ Only(NetFlag(r), NetNames)
         /\ r.hostNet => "host" \in Values(NetFlag(r), "net")
         /\ ~r.hostNet => "host" \notin Values(NetFlag(r), "net")
  <1>1. \A v : Only(Flag("net", v), NetNames) /\ Values(Flag("net", v), "net") = {v}
    <2>1. "net" \in NetNames
      BY DEF NetNames
    <2> QED BY <2>1, FlagOnly, FlagValues
  <1>2. Only(<<>>, NetNames) /\ Values(<<>>, "net") = {}
    BY EmptyValues DEF Only
  <1>3. CASE r.hostNet
    BY <1>1, <1>3 DEF NetFlag
  <1>4. CASE ~r.hostNet /\ NetworkPlugin # ""
    <2>1. NetworkPlugin # "host"
      BY HelpersAssumption
    <2>2. NetFlag(r) = Flag("net", NetworkPlugin)
      BY <1>4 DEF NetFlag
    <2> QED BY <1>1, <1>4, <2>1, <2>2
  <1>5. CASE ~r.hostNet /\ NetworkPlugin = ""
    BY <1>2, <1>5 DEF NetFlag
  <1> QED BY <1>3, <1>4, <1>5

(* What rkt is told about a sandbox.                                       *)
LEMMA PodCommandValues ==
  ASSUME NEW r \in SandboxRequests,
         NEW c, c = Command("app", generateAppSandboxCommand(r))
  PROVE  /\ Values(c, "user-annotation") = Range(r.annos) \cup Range(MetaAnnos(r))
         /\ Values(c, "port") = Values(PortFlags(r), "port")
         /\ Values(c, "net") = Values(NetFlag(r), "net")
  <1> DEFINE a1 == Flags("user-annotation", r.annos)
             a2 == Flags("user-annotation", MetaAnnos(r))
             c2 == PortFlags(r) \o NetFlag(r)
             c3 == c2 \o a1
             c4 == c3 \o a2
  <1>1. IsTokens(PortFlags(r)) /\ \A m : m # "port" => Values(PortFlags(r), m) = {}
    <2>1. r.ports \in Seq(PortMappings)
      BY PodFields
    <2>2. /\ IsTokens(PortFlags(r))
          /\ \A m : Values(PortFlags(r), m) =
               IF m = "port" /\ ~r.hostNet THEN PortsUpTo(r.ports, Len(r.ports)) ELSE {}
      BY <2>1, PortFlagsValues
    <2> QED BY <2>2
  <1>2. IsTokens(NetFlag(r)) /\ \A m : m # "net" => Values(NetFlag(r), m) = {}
    <2>1. r.hostNet \in BOOLEAN
      BY PodFields, Zenon
    <2>2. Only(NetFlag(r), NetNames)
      BY <2>1, NetTokens
    <2> QED BY <2>2 DEF Only, NetNames
  <1>3. /\ IsTokens(a1)
        /\ \A m : Values(a1, m) = IF m = "user-annotation" THEN Range(r.annos) ELSE {}
    <2>1. r.annos \in Seq(STRING \X STRING)
      BY PodFields
    <2> QED BY <2>1, FlagsValues
  <1>4. /\ IsTokens(a2)
        /\ \A m : Values(a2, m) = IF m = "user-annotation" THEN Range(MetaAnnos(r)) ELSE {}
    <2>1. MetaAnnos(r) \in Seq(Range(MetaAnnos(r)))
      BY DEF MetaAnnos, Range
    <2> QED BY <2>1, FlagsValues
  <1>5. generateAppSandboxCommand(r) = c4
    BY DEF generateAppSandboxCommand, MetaAnnos
  <1> HIDE DEF a1, a2
  <1>6. /\ IsTokens(c2)
        /\ \A m : Values(c2, m) = Values(PortFlags(r), m) \cup Values(NetFlag(r), m)
    BY <1>1, <1>2, ConcatValues
  <1> HIDE DEF c2
  <1>7. IsTokens(c3) /\ \A m : Values(c3, m) = Values(c2, m) \cup Values(a1, m)
    BY <1>3, <1>6, ConcatValues
  <1> HIDE DEF c3
  <1>8. IsTokens(c4) /\ \A m : Values(c4, m) = Values(c3, m) \cup Values(a2, m)
    BY <1>4, <1>7, ConcatValues
  <1> HIDE DEF c4
  <1>9. \A m : m \notin GlobalNames => Values(c, m) = Values(c4, m)
    BY <1>5, <1>8, CommandValues
  <1>10. \A m : m \notin GlobalNames =>
           Values(c, m) = ((Values(PortFlags(r), m) \cup Values(NetFlag(r), m))
                           \cup Values(a1, m)) \cup Values(a2, m)
    BY <1>6, <1>7, <1>8, <1>9
  <1>11. "user-annotation" \notin GlobalNames /\ "port" \notin GlobalNames /\ "net" \notin GlobalNames
    BY DEF GlobalNames
  <1> QED BY <1>1, <1>2, <1>3, <1>4, <1>10, <1>11

----------------------------------------------------------------------------
(* The invariant.                                                          *)

Refused(r) == SeccompRefused(r) \/ CapsRefused(r) \/ UserRefused(r)

(* A container: the command is of its request, which was not refused; what *)
(* rkt keeps is of the command; the status is of what rkt keeps.           *)
AppState ==
  /\ req \in ContainerRequests
  /\ cmd = <<>> \/ (~Refused(req) /\ cmd = Command("app", AppFlags(req) \o ExecTokens(req)))
  /\ kept = None \/ (cmd # <<>> /\ kept = RktApp(cmd))
  /\ status = None \/ (kept # None /\ status = toContainerStatus(kept))

PodState ==
  /\ req \in SandboxRequests
  /\ cmd = Command("app", generateAppSandboxCommand(req))
  /\ kept = None \/ \E nets \in NetLists : kept = RktPod(cmd, nets)
  /\ status = None \/ (kept # None /\ status = toPodSandboxStatus(kept))

HelpersInv == HelpersInit \/ AppState \/ PodState

(* Every step keeps the invariant.                                         *)
LEMMA HelpersInvNext == HelpersInv /\ [HelpersNext]_helperVars => HelpersInv'
  <1> SUFFICES ASSUME HelpersInv, [HelpersNext]_helperVars PROVE HelpersInv'
    OBVIOUS
  <1>0. /\ None.kind = "none"
        /\ \A c : RktApp(c).kind = "app"
        /\ \A c, nets : RktPod(c, nets).kind = "pod"
    BY DEF None, RktApp, RktPod
  <1>1. ASSUME NEW r \in ContainerRequests, CreateContainer(r) PROVE HelpersInv'
    <2>1. r.kind = "app"
      BY AppFields
    <2>2. kept = None /\ status = None
      BY <1>0, <1>1, AppFields, PodFields
         DEF HelpersInv, HelpersInit, AppState, PodState, CreateContainer
    <2>3. ~Refused(r) => generateAppAddCommand(r) = AppFlags(r) \o ExecTokens(r)
      BY DEF Refused, generateAppAddCommand, AppFlags
    <2>4. Refused(r) => generateAppAddCommand(r) = <<>>
      BY DEF Refused, generateAppAddCommand
    <2> QED BY <1>1, <2>2, <2>3, <2>4 DEF CreateContainer, HelpersInv, AppState
  <1>2. ASSUME NEW r \in SandboxRequests, RunPodSandbox(r) PROVE HelpersInv'
    <2>1. kept = None /\ status = None
      BY <1>0, <1>2, AppFields, PodFields
         DEF HelpersInv, HelpersInit, AppState, PodState, RunPodSandbox
    <2> QED BY <1>2, <2>1 DEF RunPodSandbox, HelpersInv, PodState
  <1>3. CASE RunCommand
    <2>1. CASE HelpersInit
      BY <1>3, <2>1 DEF HelpersInit, RunCommand
    <2>2. CASE AppState
      <3>1. req.kind = "app"
        BY <2>2, AppFields DEF AppState
      <3>2. kept' = RktApp(cmd) /\ UNCHANGED <<req, cmd, status>> /\ cmd # <<>> /\ status = None
        BY <1>3, <2>2, <3>1 DEF RunCommand, AppState
      <3> QED BY <2>2, <3>2 DEF AppState, HelpersInv
    <2>3. CASE PodState
      <3>1. req.kind = "pod"
        BY <2>3, PodFields DEF PodState
      <3>2. /\ \E nets \in NetLists : kept' = RktPod(cmd, nets)
            /\ UNCHANGED <<req, cmd, status>> /\ status = None
        BY <1>3, <2>3, <3>1 DEF RunCommand, PodState
      <3> QED BY <2>3, <3>2 DEF PodState, HelpersInv
    <2> QED BY <2>1, <2>2, <2>3 DEF HelpersInv
  <1>4. CASE Status
    <2>1. CASE HelpersInit
      BY <1>4, <2>1 DEF HelpersInit, Status
    <2>2. CASE AppState
      <3>1. kept.kind = "app"
        BY <1>0, <1>4, <2>2 DEF AppState, Status
      <3> QED BY <1>4, <2>2, <3>1 DEF Status, AppState, HelpersInv
    <2>3. CASE PodState
      <3>1. kept.kind = "pod"
        BY <1>0, <1>4, <2>3 DEF PodState, Status
      <3> QED BY <1>4, <2>3, <3>1 DEF Status, PodState, HelpersInv
    <2> QED BY <2>1, <2>2, <2>3 DEF HelpersInv
  <1>5. CASE Forget
    BY <1>5 DEF Forget, HelpersInv, HelpersInit
  <1>6. CASE UNCHANGED helperVars
    BY <1>6 DEF helperVars, HelpersInv, HelpersInit, AppState, PodState
  <1> QED BY <1>1, <1>2, <1>3, <1>4, <1>5, <1>6 DEF HelpersNext

(* The invariant holds.                                                    *)
LEMMA HelpersInvAlways == HelpersSpec => []HelpersInv
  <1>1. HelpersInit => HelpersInv
    BY DEF HelpersInv
  <1> QED BY <1>1, HelpersInvNext, PTL DEF HelpersSpec

(* An app that rkt keeps was asked for, and by which command.              *)
LEMMA KeptApp ==
  ASSUME HelpersInv, kept.kind = "app"
  PROVE  /\ req \in ContainerRequests /\ ~Refused(req)
         /\ cmd = Command("app", AppFlags(req) \o ExecTokens(req))
         /\ kept = RktApp(cmd)
  <1>1. None.kind = "none" /\ \A c, nets : RktPod(c, nets).kind = "pod"
    BY DEF None, RktPod
  <1> QED BY <1>1 DEF HelpersInv, HelpersInit, AppState, PodState

(* A pod that rkt keeps was asked for, and by which command.               *)
LEMMA KeptPod ==
  ASSUME HelpersInv, kept.kind = "pod"
  PROVE  /\ req \in SandboxRequests
         /\ cmd = Command("app", generateAppSandboxCommand(req))
         /\ \E nets \in NetLists : kept = RktPod(cmd, nets)
  <1>1. None.kind = "none" /\ \A c : RktApp(c).kind = "app"
    BY DEF None, RktApp
  <1> QED BY <1>1 DEF HelpersInv, HelpersInit, AppState, PodState

(* A status is that of what rkt keeps.                                     *)
LEMMA StatusOfKept ==
  ASSUME HelpersInv, status.kind # "none"
  PROVE  \/ kept.kind = "app" /\ status = toContainerStatus(kept) /\ status.kind = "app"
         \/ kept.kind = "pod" /\ status = toPodSandboxStatus(kept) /\ status.kind = "pod"
  <1>1. /\ None.kind = "none" /\ \A c : RktApp(c).kind = "app"
        /\ \A c, nets : RktPod(c, nets).kind = "pod"
        /\ \A k : toContainerStatus(k).kind = "app"
        /\ \A k : toPodSandboxStatus(k).kind = "pod"
    BY DEF None, RktApp, RktPod, toContainerStatus, toPodSandboxStatus
  <1>2. status # None /\ ~HelpersInit
    BY <1>1 DEF HelpersInit
  <1>3. CASE AppState
    <2>1. kept # None /\ kept = RktApp(cmd) /\ status = toContainerStatus(kept)
      BY <1>2, <1>3 DEF AppState
    <2> QED BY <1>1, <2>1
  <1>4. CASE PodState
    <2>1. kept.kind = "pod" /\ status = toPodSandboxStatus(kept)
      BY <1>1, <1>2, <1>4 DEF PodState
    <2> QED BY <1>1, <2>1
  <1> QED BY <1>2, <1>3, <1>4 DEF HelpersInv

----------------------------------------------------------------------------
(* The theorems.                                                           *)

(* An app runs with exactly the capabilities its request asks for, if it   *)
(* asks for any: what tweakCapabilities computes reaches rkt.              *)
THEOREM CapabilitiesAsAsked == HelpersSpec => []CapsAsAsked
  <1>1. HelpersInv => CapsAsAsked
    <2>1. SUFFICES ASSUME HelpersInv, kept.kind = "app",
                          req.sec, ~req.privileged, req.hasCaps
                   PROVE  LET asked == {c \in AllCaps :
                                \/ c \in req.adds
                                \/ /\ c \in DefaultCaps \/ "all" \in req.adds
                                   /\ c \notin req.drops /\ "all" \notin req.drops}
                          IN  asked # {} => kept.caps = asked
      BY DEF CapsAsAsked
    <2>2. /\ req \in ContainerRequests /\ ~Refused(req) /\ kept = RktApp(cmd)
          /\ cmd = Command("app", AppFlags(req) \o ExecTokens(req))
      BY <2>1, KeptApp
    <2> DEFINE l == CapList(req)
               v == Values(cmd, "caps-retain")
    <2>3. v = IF l # {} THEN {l} ELSE {}
      BY <2>2, AppCommandValues, CapsTokens
    <2>4. kept.caps = IF v = {} THEN RktCaps ELSE UNION v
      BY <2>2 DEF RktApp
    <2>5. l = tweakCapabilities(DefaultCaps, req.adds, req.drops)
      BY <2>1 DEF CapList
    <2>6. req.adds \subseteq AllCaps \cup {"all"} /\ req.drops \subseteq AllCaps \cup {"all"}
      BY <2>1, <2>2 DEF Refused, CapsRefused, Known
    <2>7. DefaultCaps \subseteq AllCaps /\ "all" \notin AllCaps
      BY HelpersAssumption
    <2> DEFINE asked == {c \in AllCaps :
                           \/ c \in req.adds
                           \/ /\ c \in DefaultCaps \/ "all" \in req.adds
                              /\ c \notin req.drops /\ "all" \notin req.drops}
    <2> HIDE DEF v
    <2>8. l = asked
      <3> HIDE DEF l
      <3> QED BY <2>5, <2>6, <2>7 DEF tweakCapabilities
    <2> HIDE DEF l, asked
    <2>9. asked # {} => kept.caps = asked
      BY <2>3, <2>4, <2>8
    <2> QED BY <2>9 DEF asked
  <1> QED BY <1>1, HelpersInvAlways, PTL

(* What is in range keeps its value in an int64.                           *)
LEMMA WrappedInRange ==
  ASSUME NEW x \in -(MaxInt + 1) .. MaxInt
  PROVE  Wrapped(x) = x
  <1>1. MaxInt \in Nat
    BY HelpersAssumption
  <1> DEFINE b == 2 * (MaxInt + 1)
  <1>2. b \in Nat \ {0} /\ x \in Int
    BY <1>1
  <1>3. CASE x >= 0
    <2>1. x \in 0 .. (b - 1) /\ x <= MaxInt
      BY <1>1, <1>3
    <2> HIDE DEF b
    <2>2. x % b = x
      BY <1>2, <2>1
    <2> QED BY <1>1, <2>1, <2>2 DEF Wrapped, b
  <1>4. CASE x < 0
    <2>1. x \in (-b) .. (-1) /\ x + b > MaxInt /\ (x + b) - b = x
      BY <1>1, <1>4
    <2> HIDE DEF b
    <2>2. x % b = x + b
      BY <1>2, <2>1
    <2> QED BY <1>1, <2>1, <2>2 DEF Wrapped, b
  <1> QED BY <1>2, <1>3, <1>4

(* Go's quotient is a floor for what is not negative, and is not positive  *)
(* for the rest.                                                           *)
LEMMA QuotientBounds ==
  ASSUME NEW x \in Int, NEW d \in Nat \ {0}
  PROVE  /\ Quotient(x, d) \in Int
         /\ x >= 0 => /\ Quotient(x, d) >= 0
                      /\ Quotient(x, d) * d <= x /\ x < (Quotient(x, d) + 1) * d
         /\ x < 0 => Quotient(x, d) <= 0
  <1>1. CASE x >= 0
    <2>1. Quotient(x, d) = x \div d /\ x \in Nat
      BY <1>1 DEF Quotient
    <2>2. x \div d \in Nat /\ (x \div d) * d <= x /\ x < ((x \div d) + 1) * d
      BY <2>1
    <2> QED BY <1>1, <2>1, <2>2
  <1>2. CASE x < 0
    <2>1. Quotient(x, d) = -((-x) \div d) /\ -x \in Nat
      BY <1>2 DEF Quotient
    <2>2. (-x) \div d \in Nat
      BY <2>1
    <2> QED BY <1>2, <2>1, <2>2
  <1> QED BY <1>1, <1>2

(* A CPU limit reaches rkt as cpuQuotaToMilliCores should have it, rounded *)
(* down to millicores, unless the product overflows (CpuLimitKept).        *)
THEOREM CpuLimitReachesRkt == HelpersSpec => []CpuLimitKept
  <1>1. HelpersInv => CpuLimitKept
    <2>1. SUFFICES ASSUME HelpersInv, kept.kind = "app",
                          req.quota * Milli \in -(MaxInt + 1) .. MaxInt
                   PROVE  IF req.quota <= 0 \/ req.period = 0 THEN kept.cpu = 0
                          ELSE /\ kept.cpu * req.period <= req.quota * Milli
                               /\ req.quota * Milli < (kept.cpu + 1) * req.period
      BY DEF CpuLimitKept
    <2>2. /\ req \in ContainerRequests /\ kept = RktApp(cmd)
          /\ cmd = Command("app", AppFlags(req) \o ExecTokens(req))
      BY <2>1, KeptApp
    <2> DEFINE q == req.quota
               p == req.period
               m == cpuQuotaToMilliCores(q, p)
               v == Values(cmd, "cpu")
               x == q * Milli
    <2>3. q \in Int /\ p \in Nat /\ Milli \in Nat \ {0}
      BY <2>2, AppFields, HelpersAssumption
    <2>4. v = IF m > 0 THEN {m} ELSE {}
      BY <2>2, AppCommandValues, CpuTokens
    <2>5. kept.cpu = IF v = {} THEN 0 ELSE CHOOSE n \in v : TRUE
      BY <2>2 DEF RktApp
    <2> HIDE DEF v
    <2>6. kept.cpu = IF m > 0 THEN m ELSE 0
      <3> HIDE DEF m
      <3>1. CASE m > 0
        <4>1. v = {m}
          BY <2>4, <3>1
        <4>2. (CHOOSE n \in v : TRUE) = m
          BY <4>1
        <4> QED BY <2>5, <3>1, <4>1, <4>2
      <3>2. CASE ~(m > 0)
        BY <2>4, <2>5, <3>2
      <3> QED BY <3>1, <3>2
    <2>7. x \in Int /\ Wrapped(x) = x /\ (q <= 0 => x <= 0) /\ (q > 0 => x > 0)
      BY <2>1, <2>3, WrappedInRange
    <2>8. CASE q = 0 \/ p = 0
      <3>1. m = 0
        BY <2>8 DEF cpuQuotaToMilliCores
      <3>2. kept.cpu = 0
        BY <2>6, <3>1
      <3> QED BY <2>3, <2>8, <3>2
    <2>9. CASE q # 0 /\ p # 0
      <3>1. m = Quotient(x, p)
        BY <2>7, <2>9 DEF cpuQuotaToMilliCores
      <3> HIDE DEF m, x
      <3>2. p \in Nat \ {0}
        BY <2>3, <2>9
      <3>3. CASE q > 0
        <4>1. m \in Int /\ m >= 0 /\ m * p <= x /\ x < (m + 1) * p
          <5> HIDE DEF q, p
          <5>1. x \in Int /\ x >= 0
            BY <2>3, <2>7, <3>3
          <5>2. /\ Quotient(x, p) \in Int /\ Quotient(x, p) >= 0
                /\ Quotient(x, p) * p <= x /\ x < (Quotient(x, p) + 1) * p
            BY <3>2, <5>1, QuotientBounds
          <5> QED BY <3>1, <5>2
        <4>2. kept.cpu = m
          BY <2>6, <4>1
        <4> QED BY <2>3, <3>2, <3>3, <4>1, <4>2 DEF x
      <3>4. CASE q < 0
        <4>1. x < 0
          BY <2>3, <3>4 DEF x
        <4>2. m \in Int /\ m <= 0
          BY <2>7, <3>1, <3>2, <4>1, QuotientBounds
        <4>3. kept.cpu = 0
          BY <2>6, <4>2
        <4> QED BY <2>3, <3>4, <4>3
      <3> QED BY <2>3, <2>9, <3>3, <3>4
    <2> QED BY <2>8, <2>9
  <1> QED BY <1>1, HelpersInvAlways, PTL

(* The profile that counts is the first of the three that is given.        *)
LEMMA FirstGiven ==
  ASSUME NEW r
  PROVE  LET said == <<r.profile, r.ctrAnno, r.podAnno>>
             Counts(i) == said[i] # "" /\ \A j \in 1 .. (i - 1) : said[j] = ""
         IN  ProfileOf(r) = "docker/default" <=>
               \E i \in 1 .. 3 : Counts(i) /\ said[i] = "docker/default"
  <1> DEFINE said == <<r.profile, r.ctrAnno, r.podAnno>>
             Counts(i) == said[i] # "" /\ \A j \in 1 .. (i - 1) : said[j] = ""
  <1>1. said[1] = r.profile /\ said[2] = r.ctrAnno /\ said[3] = r.podAnno
    OBVIOUS
  <1> HIDE DEF said
  <1>2. 1 .. 3 = {1, 2, 3} /\ 1 .. (1 - 1) = {} /\ 1 .. (2 - 1) = {1} /\ 1 .. (3 - 1) = {1, 2}
    OBVIOUS
  <1>3. /\ Counts(1) <=> said[1] # ""
        /\ Counts(2) <=> said[2] # "" /\ said[1] = ""
        /\ Counts(3) <=> said[3] # "" /\ said[1] = "" /\ said[2] = ""
    BY <1>2
  <1> HIDE DEF Counts
  <1>4. (\E i \in 1 .. 3 : Counts(i) /\ said[i] = "docker/default") <=>
          \/ Counts(1) /\ said[1] = "docker/default"
          \/ Counts(2) /\ said[2] = "docker/default"
          \/ Counts(3) /\ said[3] = "docker/default"
    BY <1>2
  <1>5. ProfileOf(r) = "docker/default" <=>
          \E i \in 1 .. 3 : Counts(i) /\ said[i] = "docker/default"
    <2>1. CASE r.profile # ""
      BY <1>1, <1>3, <1>4, <2>1 DEF ProfileOf
    <2>2. CASE r.profile = "" /\ r.ctrAnno # ""
      BY <1>1, <1>3, <1>4, <2>2 DEF ProfileOf
    <2>3. CASE r.profile = "" /\ r.ctrAnno = ""
      BY <1>1, <1>3, <1>4, <2>3 DEF ProfileOf
    <2> QED BY <2>1, <2>2, <2>3
  <1> QED BY <1>5 DEF said, Counts

(* A container is confined as the first profile given for it says, field,  *)
(* container's annotation or pod's: generateSeccompArg and SeccompAsAsked. *)
THEOREM ConfinedAsAsked == HelpersSpec => []SeccompAsAsked
  <1>1. HelpersInv => SeccompAsAsked
    <2>1. SUFFICES ASSUME HelpersInv, kept.kind = "app"
                   PROVE  kept.confined <=>
                            \/ ~req.sec
                            \/ ~req.privileged /\ ProfileOf(req) = "docker/default"
      BY FirstGiven DEF SeccompAsAsked
    <2>2. /\ req \in ContainerRequests /\ ~Refused(req) /\ kept = RktApp(cmd)
          /\ cmd = Command("app", AppFlags(req) \o ExecTokens(req))
      BY <2>1, KeptApp
    <2>3. Values(cmd, "seccomp") = Values(SeccompFlag(req), "seccomp")
      BY <2>2, AppCommandValues
    <2>4. kept.confined <=> Values(SeccompFlag(req), "seccomp") = {}
      BY <2>2, <2>3 DEF RktApp
    <2>5. CASE ~req.sec
      BY <2>4, <2>5, SeccompTokens
    <2>6. CASE req.sec /\ req.privileged
      BY <2>4, <2>6, SeccompTokens
    <2>7. CASE req.sec /\ ~req.privileged
      <3>1. kept.confined <=> ProfileOf(req) \notin Unconfined
        BY <2>4, <2>7, SeccompTokens
      <3>2. ProfileOf(req) \in Unconfined \cup {"docker/default"}
        BY <2>2, <2>7 DEF Refused, SeccompRefused, generateSeccompArg, Unconfined
      <3>3. "docker/default" \notin Unconfined
        BY DEF Unconfined
      <3> QED BY <2>7, <3>1, <3>2, <3>3
    <2> QED BY <2>5, <2>6, <2>7
  <1> QED BY <1>1, HelpersInvAlways, PTL

(* One annotation has one value.                                           *)
LEMMA OneValue ==
  ASSUME NEW k, NEW v, NEW A, A = {<<k, v>>}
  PROVE  {a[2] : a \in A} = {v}
  <1>1. <<k, v>>[2] = v
    OBVIOUS
  <1> QED BY <1>1

(* toContainerStatus and toPodSandboxStatus give back the annotations, the *)
(* image and the metadata of the request (StatusRoundTrip).                *)
THEOREM StatusGivesBack == HelpersSpec => []StatusRoundTrip
  <1>1. HelpersInv => StatusRoundTrip
    <2>1. SUFFICES ASSUME HelpersInv, status.kind # "none" PROVE StatusRoundTrip
      BY DEF StatusRoundTrip
    <2>2. Range(req.annos) = {req.annos[i] : i \in DOMAIN req.annos}
      BY DEF Range
    <2>3. CASE kept.kind = "app" /\ status = toContainerStatus(kept) /\ status.kind = "app"
      <3>1. /\ req \in ContainerRequests /\ kept = RktApp(cmd)
            /\ cmd = Command("app", AppFlags(req) \o ExecTokens(req))
        BY <2>1, <2>3, KeptApp
      <3>2. kept.annos = Range(req.annos) \cup {<<"image-name", req.image>>}
        BY <3>1, AppCommandValues DEF RktApp
      <3>3. \A a \in Range(req.annos) : a[1] \notin Reserved
        BY <3>1, AppFields
      <3>4. /\ status.annos = {a \in kept.annos : a[1] \notin Reserved}
            /\ status.image = {a[2] : a \in {y \in kept.annos : y[1] = "image-name"}}
        BY <2>3 DEF toContainerStatus, getKubernetesAnnotations, ValueOf
      <3>5. "image-name" \in Reserved
        BY DEF Reserved
      <3>6. status.annos = Range(req.annos)
        BY <3>2, <3>3, <3>4, <3>5
      <3>7. {y \in kept.annos : y[1] = "image-name"} = {<<"image-name", req.image>>}
        BY <3>2, <3>3, <3>5
      <3>8. status.image = {req.image}
        <4> DEFINE B == {y \in kept.annos : y[1] = "image-name"}
        <4>1. B = {<<"image-name", req.image>>} /\ status.image = {a[2] : a \in B}
          BY <3>4, <3>7
        <4> HIDE DEF B
        <4> QED BY <4>1, OneValue
      <3> QED BY <2>2, <2>3, <3>6, <3>8 DEF StatusRoundTrip
    <2>4. CASE kept.kind = "pod" /\ status = toPodSandboxStatus(kept) /\ status.kind = "pod"
      <3>1. /\ req \in SandboxRequests
            /\ cmd = Command("app", generateAppSandboxCommand(req))
            /\ \E nets \in NetLists : kept = RktPod(cmd, nets)
        BY <2>1, <2>4, KeptPod
      <3> DEFINE M == {"pod-uid", "pod-name", "pod-namespace", "pod-attempt"}
                 A == {<<k, req.meta>> : k \in M}
      <3>2. Range(MetaAnnos(req)) = A
        BY DEF MetaAnnos, Range
      <3>3. kept.annos = Range(req.annos) \cup A
        BY <3>1, <3>2, PodCommandValues DEF RktPod
      <3>4. \A a \in Range(req.annos) : a[1] \notin Reserved
        BY <3>1, PodFields
      <3>5. /\ status.annos = {a \in kept.annos : a[1] \notin Reserved}
            /\ DOMAIN status.meta = M
            /\ \A k \in M : status.meta[k] = {a[2] : a \in {y \in kept.annos : y[1] = k}}
        BY <2>4 DEF toPodSandboxStatus, getKubernetesAnnotations, ValueOf, Reserved
      <3>6. M \subseteq Reserved
        BY DEF Reserved
      <3> HIDE DEF M
      <3>7. status.annos = Range(req.annos)
        BY <3>3, <3>4, <3>5, <3>6
      <3>8. ASSUME NEW k \in M PROVE status.meta[k] = {req.meta}
        <4>1. {y \in kept.annos : y[1] = k} = {<<k, req.meta>>}
          BY <3>3, <3>4, <3>6
        <4> DEFINE B == {y \in kept.annos : y[1] = k}
        <4>2. B = {<<k, req.meta>>} /\ status.meta[k] = {a[2] : a \in B}
          BY <3>5, <4>1
        <4> HIDE DEF B
        <4> QED BY <4>2, OneValue
      <3> QED BY <2>2, <2>4, <3>5, <3>7, <3>8 DEF StatusRoundTrip
    <2> QED BY <2>1, <2>3, <2>4, StatusOfKept
  <1> QED BY <1>1, HelpersInvAlways, PTL

(* The address apart, a mapping stays what it is.                          *)
LEMMA SameButAddress ==
  ASSUME NEW p \in PortMappings, NEW q \in PortMappings,
         p.proto = q.proto, p.cport = q.cport, p.hport = q.hport
  PROVE  [OnHost(p) EXCEPT !.hostIP = ""] = [OnHost(q) EXCEPT !.hostIP = ""]
  <1> DEFINE At(x, h) == [proto |-> x.proto, cport |-> x.cport, hport |-> x.hport, hostIP |-> h]
             Sorts(S) == [proto : STRING, cport : Nat, hport : Nat, hostIP : S]
  <1>1. ASSUME NEW S, NEW x \in Sorts(S), NEW h PROVE [x EXCEPT !.hostIP = h] = At(x, h)
    OBVIOUS
  <1>2. ASSUME NEW x \in PortMappings PROVE [OnHost(x) EXCEPT !.hostIP = ""] = At(x, "")
    <2> DEFINE h == IF x.hostIP = "" THEN "0.0.0.0" ELSE x.hostIP
    <2>1. OnHost(x) = [x EXCEPT !.hostIP = h]
      BY DEF OnHost
    <2> HIDE DEF h
    <2>2. x \in Sorts(STRING)
      BY DEF PortMappings
    <2>3. OnHost(x) = At(x, h)
      BY <1>1, <2>1, <2>2
    <2>4. At(x, h) \in Sorts({h})
      BY <2>2
    <2>5. OnHost(x).proto = x.proto /\ OnHost(x).cport = x.cport /\ OnHost(x).hport = x.hport
      BY <2>3
    <2>6. [OnHost(x) EXCEPT !.hostIP = ""] = At(OnHost(x), "")
      <3> DEFINE y == OnHost(x)
                 H == {h}
      <3>1. y \in Sorts(H)
        BY <2>3, <2>4
      <3> HIDE DEF y, H
      <3>2. ASSUME NEW g PROVE [y EXCEPT !.hostIP = g] = At(y, g)
        BY <3>1
      <3>3. [y EXCEPT !.hostIP = ""] = At(y, "")
        <4> HIDE DEF At
        <4> QED BY <3>2
      <3> QED BY <3>3 DEF y
    <2> QED BY <2>5, <2>6
  <1>3. At(p, "") = At(q, "")
    OBVIOUS
  <1> QED BY <1>2, <1>3

(* Every port mapping that has both ports is forwarded, unless the pod is  *)
(* on the network of the host, and two mappings have different names if    *)
(* they differ in protocol or a port.  Of two that differ only in the host *)
(* IP nothing is claimed: they share a name.                               *)
THEOREM PortsReachRkt == HelpersSpec => []PortsForwarded
  <1>1. HelpersInv => PortsForwarded
    <2>1. SUFFICES ASSUME HelpersInv, kept.kind = "pod"
                   PROVE  /\ "host" \in kept.net <=> req.hostNet
                          /\ {a[2] : a \in kept.ports} =
                               {OnHost(p) : p \in {q \in ToSet(req.ports) :
                                                     ~req.hostNet /\ q.hport # 0 /\ q.cport # 0}}
                          /\ \A a, b \in kept.ports :
                               a[1] = b[1] => [a[2] EXCEPT !.hostIP = ""] = [b[2] EXCEPT !.hostIP = ""]
      BY DEF PortsForwarded
    <2>2. PICK nets \in NetLists :
            /\ req \in SandboxRequests
            /\ cmd = Command("app", generateAppSandboxCommand(req))
            /\ kept = RktPod(cmd, nets)
      BY <2>1, KeptPod
    <2>3. kept.net = Values(NetFlag(req), "net") /\ kept.ports = Values(PortFlags(req), "port")
      BY <2>2, PodCommandValues DEF RktPod
    <2>4. req.ports \in Seq(PortMappings) /\ req.hostNet \in BOOLEAN
      BY <2>2, PodFields
    <2>5. "host" \in kept.net <=> req.hostNet
      BY <2>3, <2>4, NetTokens
    <2> DEFINE Sent == {q \in ToSet(req.ports) : ~req.hostNet /\ Mapped(q)}
    <2>6. kept.ports = {generatePortArgs(p) : p \in Sent}
      <3>1. Values(PortFlags(req), "port") =
              IF ~req.hostNet THEN PortsUpTo(req.ports, Len(req.ports)) ELSE {}
        BY <2>4, PortFlagsValues
      <3>2. DOMAIN req.ports = 1 .. Len(req.ports)
        BY <2>4, LenProperties
      <3>3. PortsUpTo(req.ports, Len(req.ports)) =
              {generatePortArgs(p) : p \in {q \in ToSet(req.ports) : Mapped(q)}}
        BY <3>2 DEF PortsUpTo, ToSet
      <3> QED BY <2>3, <3>1, <3>3
    <2>7. \A p \in Sent : generatePortArgs(p)[1] = <<p.proto, p.cport, p.hport>>
                          /\ generatePortArgs(p)[2] = OnHost(p)
      BY DEF generatePortArgs
    <2>8. Sent \subseteq PortMappings
      <3>1. \A q \in ToSet(req.ports) : q \in PortMappings
        BY <2>4, LenProperties, ElementOfSeq DEF ToSet
      <3> QED BY <3>1
    <2>9. {a[2] : a \in kept.ports} = {OnHost(p) : p \in Sent}
      <3> HIDE DEF Sent
      <3>1. \A a \in kept.ports : \E p \in Sent : a[2] = OnHost(p)
        BY <2>6, <2>7
      <3>2. \A p \in Sent : \E a \in kept.ports : a[2] = OnHost(p)
        BY <2>6, <2>7
      <3> QED BY <3>1, <3>2
    <2>10. ASSUME NEW a \in kept.ports, NEW b \in kept.ports, a[1] = b[1]
           PROVE  [a[2] EXCEPT !.hostIP = ""] = [b[2] EXCEPT !.hostIP = ""]
      <3>1. PICK p \in Sent : a = generatePortArgs(p)
        BY <2>6
      <3>2. PICK q \in Sent : b = generatePortArgs(q)
        BY <2>6
      <3>3. p.proto = q.proto /\ p.cport = q.cport /\ p.hport = q.hport
        BY <2>7, <2>10, <3>1, <3>2
      <3>4. a[2] = OnHost(p) /\ b[2] = OnHost(q) /\ p \in PortMappings /\ q \in PortMappings
        BY <2>7, <2>8, <3>1, <3>2
      <3>5. [OnHost(p) EXCEPT !.hostIP = ""] = [OnHost(q) EXCEPT !.hostIP = ""]
        BY <3>3, <3>4, SameButAddress
      <3> QED BY <3>4, <3>5
    <2>11. Sent = {q \in ToSet(req.ports) : ~req.hostNet /\ q.hport # 0 /\ q.cport # 0}
      BY DEF Mapped
    <2> QED BY <2>5, <2>9, <2>10, <2>11
  <1> QED BY <1>1, HelpersInvAlways, PTL

(* The least and the greatest of a set of numbers.                         *)
LEMMA MinMaxIs ==
  ASSUME NEW T, T \subseteq Int, NEW x \in T
  PROVE  /\ (\A y \in T : x <= y) => Min(T) = x
         /\ (\A y \in T : y <= x) => Max(T) = x
  <1>1. ASSUME \A y \in T : x <= y PROVE Min(T) = x
    <2>1. Min(T) \in T /\ \A y \in T : Min(T) <= y
      BY <1>1 DEF Min
    <2>2. Min(T) <= x /\ x <= Min(T) /\ Min(T) \in Int
      BY <1>1, <2>1
    <2> QED BY <2>2
  <1>2. ASSUME \A y \in T : y <= x PROVE Max(T) = x
    <2>1. \A y \in T : x >= y
      BY <1>2
    <2>2. Max(T) \in T /\ \A y \in T : Max(T) >= y
      BY <2>1 DEF Max
    <2>3. Max(T) >= x /\ Max(T) <= x /\ Max(T) \in Int
      BY <1>2, <2>2
    <2> QED BY <2>3
  <1> QED BY <1>1, <1>2

(* getIP picks, of any list of networks, the one that PreferredIP says.    *)
THEOREM AddressPreferred == HelpersSpec => []PreferredIP
  <1>1. HelpersInv => PreferredIP
    <2>1. SUFFICES ASSUME HelpersInv, status.kind = "pod" PROVE PreferredIP
      BY DEF PreferredIP
    <2>2. kept.kind = "pod" /\ status = toPodSandboxStatus(kept)
      <3>1. status.kind # "none" /\ status.kind # "app"
        BY <2>1
      <3> QED BY <2>1, <3>1, StatusOfKept
    <2> DEFINE nets == kept.nets
               n == Len(nets)
               Named(m) == {i \in DOMAIN nets : nets[i].name = m}
    <2>3. nets \in Seq(Networks) /\ status.ip = getIP(nets)
      <3>1. \E l \in NetLists : kept = RktPod(cmd, l)
        BY <2>1, <2>2, KeptPod
      <3>2. nets \in NetLists
        BY <3>1 DEF RktPod
      <3>3. status.ip = getIP(nets)
        BY <2>2 DEF toPodSandboxStatus
      <3> QED BY <3>2, <3>3, HelpersAssumption
    <2>4. n \in Nat /\ DOMAIN nets = 1 .. n /\ (nets = <<>> <=> n = 0)
      BY <2>3, LenProperties, EmptySeq
    <2>5. CASE nets = <<>>
      BY <2>3, <2>4, <2>5, getIPPrefers DEF PreferredIP
    <2>6. CASE nets # <<>>
      <3>1. PICK j : Preferred(nets, n, j) /\ status.ip = To4(nets[j].ip)
        BY <2>3, <2>4, <2>6, getIPPrefers
      <3> DEFINE best == CASE Named(KubeNet) # {} -> Min(Named(KubeNet))
                           [] Named(KubeNet) = {} /\ Named("default") # {} -> Max(Named("default"))
                           [] OTHER -> 1
      <3>2. PreferredIP <=> status.ip = To4(nets[best].ip)
        BY <2>1, <2>6 DEF PreferredIP, KubeNet
      <3> HIDE DEF n, nets
      <3>3. j \in 1 .. n /\ j \in Int
        BY <2>4, <3>1 DEF Preferred
      <3>4. Named(KubeNet) \subseteq Int /\ Named("default") \subseteq Int
        BY <2>4
      <3>5. CASE nets[j].name = KubeNet /\ \A k \in 1 .. (j - 1) : nets[k].name # KubeNet
        <4>1. j \in Named(KubeNet) /\ \A k \in Named(KubeNet) : j <= k
          BY <2>4, <3>3, <3>5
        <4> HIDE DEF Named
        <4>2. Min(Named(KubeNet)) = j
          BY <3>4, <4>1, MinMaxIs
        <4> QED BY <3>1, <3>2, <4>1, <4>2
      <3>6. CASE /\ \A k \in 1 .. n : nets[k].name # KubeNet
                 /\ nets[j].name = "default"
                 /\ \A k \in (j + 1) .. n : nets[k].name # "default"
        <4>1. Named(KubeNet) = {}
          BY <2>4, <3>6
        <4>2. j \in Named("default") /\ \A k \in Named("default") : k <= j
          BY <2>4, <3>3, <3>6
        <4> HIDE DEF Named
        <4>3. Max(Named("default")) = j
          BY <3>4, <4>2, MinMaxIs
        <4> QED BY <3>1, <3>2, <4>1, <4>2, <4>3
      <3>7. CASE /\ \A k \in 1 .. n : nets[k].name # KubeNet /\ nets[k].name # "default"
                 /\ j = 1
        <4>1. Named(KubeNet) = {} /\ Named("default") = {}
          BY <2>4, <3>7
        <4> HIDE DEF Named
        <4> QED BY <3>1, <3>2, <3>7, <4>1
      <3> QED BY <3>1, <3>5, <3>6, <3>7 DEF Preferred
    <2> QED BY <2>5, <2>6
  <1> QED BY <1>1, HelpersInvAlways, PTL

----------------------------------------------------------------------------
(* The words of a command.                                                 *)

(* The place of the first token of a name.                                 *)
LEMMA FirstToken ==
  ASSUME NEW c, Len(c) \in Nat, NEW t, NEW j \in 1 .. Len(c), c[j][1] = t,
         \A i \in 1 .. (j - 1) : c[i][1] # t
  PROVE  SelectInSeq(c, LAMBDA x : x[1] = t) = j
  <1> DEFINE I == {i \in 1 .. Len(c) : c[i][1] = t}
  <1>1. SelectInSeq(c, LAMBDA x : x[1] = t) = IF I # {} THEN Min(I) ELSE 0
    BY DEF SelectInSeq
  <1>2. j \in I /\ I \subseteq Int /\ \A y \in I : j <= y
    OBVIOUS
  <1> HIDE DEF I
  <1>3. Min(I) = j
    BY <1>2, MinMaxIs
  <1> QED BY <1>1, <1>2, <1>3

(* Without values of a name there is no token of it.                       *)
LEMMA NoToken ==
  ASSUME NEW c, IsTokens(c), NEW t, Values(c, t) = {}
  PROVE  Len(c) \in Nat /\ \A i \in 1 .. Len(c) : c[i][1] # t
  <1>1. Len(c) \in Nat /\ DOMAIN c = 1 .. Len(c)
    BY LenProperties DEF IsTokens
  <1>2. \A i \in 1 .. Len(c) : c[i][1] # t
    <2> SUFFICES ASSUME NEW i \in 1 .. Len(c), c[i][1] = t PROVE FALSE
      OBVIOUS
    <2>1. c[i][2] \in Values(c, t)
      BY <1>1 DEF Values
    <2> QED BY <2>1
  <1> QED BY <1>1, <1>2

(* What is where in c: the a elements of s, then the b elements of u.      *)
Joined(c, s, u, a, b) ==
  /\ Len(c) = a + b /\ a \in Nat /\ b \in Nat
  /\ \A i \in 1 .. a : c[i] = s[i]
  /\ \A i \in 1 .. b : c[a + i] = u[i]

(* Concatenation joins.                                                    *)
LEMMA ConcatAt ==
  ASSUME NEW S, NEW s \in Seq(S), NEW u \in Seq(S)
  PROVE  s \o u \in Seq(S) /\ Joined(s \o u, s, u, Len(s), Len(u))
  <1> DEFINE a == Len(s)
             b == Len(u)
  <1>1. a \in Nat /\ b \in Nat
    BY LenProperties
  <1> DEFINE c == s \o u
  <1>2. /\ c \in Seq(S) /\ Len(c) = a + b
        /\ \A i \in 1 .. a + b : c[i] = IF i <= a THEN s[i] ELSE u[i - a]
    BY ConcatProperties
  <1> HIDE DEF c, a, b
  <1>3. \A i \in 1 .. a : i \in 1 .. a + b /\ i <= a
    BY <1>1
  <1>4. \A i \in 1 .. b : a + i \in 1 .. a + b /\ ~(a + i <= a) /\ (a + i) - a = i
    BY <1>1
  <1>5. \A i \in 1 .. a : c[i] = s[i]
    BY <1>2, <1>3
  <1>6. ASSUME NEW i \in 1 .. b PROVE c[a + i] = u[i]
    <2> DEFINE k == a + i
    <2>1. k \in 1 .. a + b /\ ~(k <= a) /\ k - a = i
      BY <1>4
    <2> HIDE DEF k
    <2>2. c[k] = u[k - a]
      BY <1>2, <2>1
    <2> QED BY <2>1, <2>2 DEF k
  <1>7. Joined(c, s, u, a, b)
    BY <1>1, <1>2, <1>5, <1>6 DEF Joined
  <1> QED BY <1>2, <1>7 DEF c, a, b

(* Where the words are on a command line: after the p tokens of pre, with  *)
(* a delimiter before and another after the m tokens of v.                 *)
Sizes(c, p, m) == p \in Nat /\ m \in Nat \ {0} /\ Len(c) = p + (m + 2)

Places(c, pre, v, p, m) ==
  /\ \A i \in 1 .. p : c[i] = pre[i]
  /\ c[p + 1][1] = "--"
  /\ \A i \in 1 .. m : c[p + (1 + i)] = v[i]
  /\ c[p + (m + 2)][1] = "---"

(* Delimited puts them there.                                              *)
LEMMA DelimitedPlaces ==
  ASSUME NEW pre, IsTokens(pre), NEW S, NEW w \in Seq(S), w # <<>>
  PROVE  LET c == pre \o Delimited(w) IN
         /\ Sizes(c, Len(pre), Len(w))
         /\ Places(c, pre, WordTokens(w), Len(pre), Len(w))
  <1> DEFINE f == Flag("--", "")
             v == WordTokens(w)
             l == Flag("---", "")
             fv == f \o v
             d == fv \o l
             c == pre \o d
             p == Len(pre)
             m == Len(w)
             T == ((Range(pre) \cup Range(f)) \cup Range(v)) \cup Range(l)
  <1>1. Delimited(w) = d
    BY DEF Delimited
  <1>2. IsTokens(f) /\ IsTokens(v) /\ IsTokens(l)
    BY FlagValues, WordsOnly DEF Only
  <1>3. Len(f) = 1 /\ Len(l) = 1
    BY DEF Flag
  <1>a. f[1][1] = "--" /\ l[1][1] = "---"
    BY DEF Flag
  <1>4. m \in Nat \ {0} /\ Len(v) = m
    <2>1. DOMAIN v = DOMAIN w
      BY DEF WordTokens
    <2> HIDE DEF v
    <2>2. v \in Seq(Range(v))
      BY <1>2 DEF IsTokens
    <2>3. DOMAIN v = 1 .. Len(v) /\ Len(v) \in Nat
      BY <2>2, LenProperties
    <2>4. DOMAIN w = 1 .. m /\ m \in Nat \ {0}
      BY LenProperties, EmptySeq
    <2> DEFINE k == Len(v)
    <2>5. 1 .. k = 1 .. m /\ k \in Nat
      BY <2>1, <2>3, <2>4
    <2> HIDE DEF k, m
    <2>6. k = m
      <3>1. m \in 1 .. k
        BY <2>4, <2>5
      <3>2. k \in 1 .. m \/ k = 0
        <4>1. k \in 1 .. k \/ k = 0
          BY <2>5
        <4> QED BY <2>5, <4>1
      <3> QED BY <2>4, <2>5, <3>1, <3>2
    <2> QED BY <2>4, <2>6 DEF k
  <1> HIDE DEF f, v, l, p, m
  <1>5. pre \in Seq(T) /\ f \in Seq(T) /\ v \in Seq(T) /\ l \in Seq(T)
    BY <1>2, SeqMonotonic DEF IsTokens
  <1> HIDE DEF T
  <1>6. /\ fv \in Seq(T) /\ Len(fv) = 1 + m
        /\ \A i \in 1 .. 1 : fv[i] = f[i]
        /\ \A i \in 1 .. m : fv[1 + i] = v[i]
    <2>1. fv \in Seq(T) /\ Joined(fv, f, v, 1, m)
      BY <1>3, <1>4, <1>5, ConcatAt
    <2> HIDE DEF fv
    <2> QED BY <2>1 DEF Joined
  <1> HIDE DEF fv
  <1>7. /\ d \in Seq(T) /\ Len(d) = (1 + m) + 1
        /\ \A i \in 1 .. (1 + m) : d[i] = fv[i]
        /\ \A i \in 1 .. 1 : d[(1 + m) + i] = l[i]
    <2>1. d \in Seq(T) /\ Joined(d, fv, l, 1 + m, 1)
      BY <1>3, <1>5, <1>6, ConcatAt
    <2> HIDE DEF d
    <2> QED BY <2>1 DEF Joined
  <1> HIDE DEF d
  <1>8. /\ Len(c) = p + ((1 + m) + 1) /\ p \in Nat
        /\ \A i \in 1 .. p : c[i] = pre[i]
        /\ \A i \in 1 .. ((1 + m) + 1) : c[p + i] = d[i]
    <2>1. Joined(c, pre, d, p, (1 + m) + 1)
      BY <1>5, <1>7, ConcatAt DEF p
    <2> HIDE DEF c
    <2> QED BY <2>1 DEF Joined
  <1> HIDE DEF c
  <1>9. /\ (1 + m) + 1 = m + 2 /\ 1 \in 1 .. 1 /\ 1 \in 1 .. (1 + m)
        /\ 1 \in 1 .. ((1 + m) + 1) /\ (1 + m) + 1 \in 1 .. ((1 + m) + 1)
        /\ \A i \in 1 .. m : 1 + i \in 1 .. (1 + m) /\ 1 + i \in 1 .. ((1 + m) + 1)
    BY <1>4
  <1>10. c[p + 1][1] = "--"
    BY <1>a, <1>6, <1>7, <1>8, <1>9
  <1>11. c[p + (m + 2)][1] = "---"
    BY <1>a, <1>7, <1>8, <1>9
  <1>12. \A i \in 1 .. m : c[p + (1 + i)] = v[i]
    BY <1>6, <1>7, <1>8, <1>9
  <1>13. Len(c) = p + (m + 2)
    BY <1>8, <1>9
  <1>14. Sizes(c, p, m)
    BY <1>4, <1>8, <1>13 DEF Sizes
  <1>15. Places(c, pre, v, p, m)
    BY <1>8, <1>10, <1>11, <1>12 DEF Places
  <1> QED BY <1>1, <1>14, <1>15 DEF v, p, m, c

(* What is where in a part of a sequence.                                  *)
LEMMA SubSeqAt ==
  ASSUME NEW c, NEW k \in Int, NEW e \in Int, k <= e
  PROVE  /\ Len(SubSeq(c, k, e)) = e - k + 1
         /\ \A i \in 1 .. e - k + 1 : SubSeq(c, k, e)[i] = c[k + i - 1]
  <1> DEFINE T == {c[i] : i \in k .. e}
  <1>1. \A i \in k .. e : c[i] \in T
    OBVIOUS
  <1> HIDE DEF T
  <1> QED BY <1>1, SubSeqProperties

(* rkt reads the words that the command line was made of, unless one of    *)
(* them is the delimiter.                                                  *)
LEMMA WordsParsed ==
  ASSUME NEW pre, IsTokens(pre), Values(pre, "--") = {},
         NEW S, NEW w \in Seq(S), "---" \notin Range(w),
         NEW c, c = pre \o Delimited(w)
  PROVE  ParsedArgs(c) = w
  <1>1. CASE w = <<>>
    <2>1. c = pre
      <3>1. pre \in Seq(Range(pre)) /\ c = pre \o <<>>
        BY <1>1 DEF IsTokens, Delimited
      <3> QED BY <3>1, ConcatEmptySeq
    <2>2. SelectInSeq(pre, LAMBDA x : x[1] = "--") = 0
      <3>1. \A i \in 1 .. Len(pre) : pre[i][1] # "--"
        BY NoToken
      <3>2. {i \in 1 .. Len(pre) : pre[i][1] = "--"} = {}
        BY <3>1
      <3> QED BY <3>2 DEF SelectInSeq
    <2> QED BY <1>1, <2>1, <2>2 DEF ParsedArgs
  <1>2. CASE w # <<>>
    <2> DEFINE p == Len(pre)
               m == Len(w)
               v == WordTokens(w)
               s == SubSeq(c, (p + 1) + 1, Len(c))
               a == SubSeq(s, 1, (m + 1) - 1)
    <2>0. Sizes(c, p, m) /\ Places(c, pre, v, p, m)
      BY <1>2, DelimitedPlaces
    <2> HIDE DEF p, m, v
    <2>1. p \in Nat /\ m \in Nat \ {0} /\ Len(c) = p + (m + 2)
      BY <2>0 DEF Sizes
    <2>a. /\ \A i \in 1 .. p : c[i] = pre[i]
          /\ c[p + 1][1] = "--"
          /\ \A i \in 1 .. m : c[p + (1 + i)] = v[i]
          /\ c[p + (m + 2)][1] = "---"
      BY <2>0 DEF Places
    <2>2. DOMAIN w = 1 .. m
      BY LenProperties DEF m
    <2>3. \A i \in 1 .. m : v[i][1] = "arg" /\ v[i][2] = w[i]
      <3>1. \A i \in 1 .. m : w[i] # "---"
        BY <2>2 DEF Range
      <3> QED BY <2>2, <3>1 DEF WordTokens, v
    <2>4. \A i \in 1 .. p : pre[i][1] # "--"
      BY NoToken DEF p
    <2>5. SelectInSeq(c, LAMBDA x : x[1] = "--") = p + 1
      <3>1. p + 1 \in 1 .. Len(c) /\ Len(c) \in Nat /\ (p + 1) - 1 = p
        BY <2>1
      <3>2. c[p + 1][1] = "--"
        BY <2>a
      <3>3. \A i \in 1 .. ((p + 1) - 1) : c[i][1] # "--"
        BY <2>a, <2>4, <3>1
      <3> DEFINE j == p + 1
      <3> HIDE DEF j
      <3>4. j \in 1 .. Len(c) /\ c[j][1] = "--" /\ \A i \in 1 .. (j - 1) : c[i][1] # "--"
        BY <3>1, <3>2, <3>3 DEF j
      <3>5. SelectInSeq(c, LAMBDA x : x[1] = "--") = j
        BY <3>1, <3>4, FirstToken
      <3> QED BY <3>5 DEF j
    <2>6. /\ Len(s) = m + 1 /\ \A i \in 1 .. m + 1 : s[i] = c[p + (1 + i)]
      <3> DEFINE k == (p + 1) + 1
                 e == Len(c)
      <3>2. k \in Int /\ e \in Int /\ k <= e /\ e - k + 1 = m + 1
        BY <2>1
      <3>3. \A i \in 1 .. m + 1 : k + i - 1 = p + (1 + i)
        BY <2>1
      <3> HIDE DEF k, e
      <3>4. /\ Len(SubSeq(c, k, e)) = e - k + 1
            /\ \A i \in 1 .. e - k + 1 : SubSeq(c, k, e)[i] = c[k + i - 1]
        BY <3>2, SubSeqAt
      <3>5. s = SubSeq(c, k, e)
        BY DEF k, e
      <3> HIDE DEF s
      <3> QED BY <3>2, <3>3, <3>4, <3>5
    <2> HIDE DEF s
    <2>7. \A i \in 1 .. m : s[i] = v[i]
      <3>1. \A i \in 1 .. m : i \in 1 .. m + 1
        BY <2>1
      <3> QED BY <2>a, <2>6, <3>1
    <2>8. SelectInSeq(s, LAMBDA x : x[1] = "---") = m + 1
      <3> DEFINE j == m + 1
      <3>1. j \in 1 .. Len(s) /\ Len(s) \in Nat /\ j - 1 = m /\ 1 + j = m + 2
        BY <2>1, <2>6
      <3>2. j \in 1 .. m + 1 /\ p + (1 + j) = p + (m + 2)
        BY <2>1
      <3>3. s[j][1] = "---"
        BY <2>a, <2>6, <3>2
      <3>4. \A i \in 1 .. (j - 1) : s[i][1] # "---"
        BY <2>3, <2>7, <3>1
      <3> HIDE DEF j
      <3>5. SelectInSeq(s, LAMBDA x : x[1] = "---") = j
        BY <3>1, <3>3, <3>4, FirstToken
      <3> QED BY <3>5 DEF j
    <2>9. DOMAIN a = 1 .. m /\ \A i \in 1 .. m : a[i] = s[i]
      <3> DEFINE T == {s[i] : i \in 1 .. ((m + 1) - 1)}
      <3>1. \A i \in 1 .. ((m + 1) - 1) : s[i] \in T
        OBVIOUS
      <3>2. (m + 1) - 1 = m /\ 1 <= m /\ m \in Int /\ 1 \in Int
        BY <2>1
      <3> HIDE DEF T
      <3>3. /\ a \in Seq(T) /\ Len(a) = IF 1 <= m THEN m - 1 + 1 ELSE 0
            /\ \A i \in 1 .. m - 1 + 1 : a[i] = s[1 + i - 1]
        BY <3>1, <3>2, SubSeqProperties
      <3> HIDE DEF a
      <3>4. DOMAIN a = 1 .. Len(a)
        BY <3>3, LenProperties
      <3>5. m - 1 + 1 = m /\ \A i \in 1 .. m : 1 + i - 1 = i
        BY <2>1
      <3> QED BY <3>2, <3>3, <3>4, <3>5
    <2>10. ParsedArgs(c) = [i \in DOMAIN a |-> a[i][2]]
      <3>1. p + 1 # 0
        BY <2>1
      <3> QED BY <2>5, <2>8, <3>1 DEF ParsedArgs, UpTo, s
    <2> HIDE DEF a
    <2>11. [i \in DOMAIN a |-> a[i][2]] = [i \in 1 .. m |-> w[i]]
      BY <2>3, <2>7, <2>9
    <2>12. w = [i \in 1 .. m |-> w[i]]
      BY <2>2, LenProperties DEF m
    <2> QED BY <2>10, <2>11, <2>12
  <1> QED BY <1>1, <1>2

(* Concatenation under a name, and that it is associative.                 *)
Then(a, b) == a \o b

LEMMA ThenAssociative ==
  ASSUME NEW S, NEW a \in Seq(S), NEW b \in Seq(S), NEW c \in Seq(S)
  PROVE  Then(a, b) \in Seq(S) /\ Then(Then(a, b), c) = Then(a, Then(b, c))
  <1>1. a \o b \in Seq(S)
    BY ConcatProperties
  <1>2. (a \o b) \o c = a \o (b \o c)
    BY ConcatAssociative
  <1> QED BY <1>1, <1>2 DEF Then

(* Concatenation is associative, for four sequences.                       *)
LEMMA FourParts ==
  ASSUME NEW S, NEW h \in Seq(S), NEW a \in Seq(S), NEW x \in Seq(S), NEW d \in Seq(S)
  PROVE  Then(h, Then(a, Then(x, d))) = Then(Then(Then(h, a), x), d)
  <1>1. Then(x, d) \in Seq(S) /\ Then(h, a) \in Seq(S)
    BY ThenAssociative
  <1>2. Then(Then(Then(h, a), x), d) = Then(Then(h, a), Then(x, d))
    BY <1>1, ThenAssociative
  <1>3. Then(Then(h, a), Then(x, d)) = Then(h, Then(a, Then(x, d)))
    BY <1>1, ThenAssociative
  <1> QED BY <1>2, <1>3

(* A command line ends in the words, and has no delimiter before them.     *)
LEMMA WordsLast ==
  ASSUME NEW r \in ContainerRequests,
         NEW c, c = Command("app", AppFlags(r) \o ExecTokens(r))
  PROVE  \E pre : /\ IsTokens(pre) /\ Values(pre, "--") = {}
                  /\ c = pre \o Delimited(AppArgs(r))
  <1> DEFINE h == CommandHead("app")
             a == AppFlags(r)
             x == ExecFlag(r)
             d == Delimited(AppArgs(r))
             g == h \o a
             pre == g \o x
  <1>1. r.command \in Seq(STRING) /\ r.args \in Seq(STRING)
    BY AppFields
  <1>2. ExecTokens(r) = x \o d /\ Only(x, {"exec"}) /\ Only(d, {"--", "---", "arg"})
    BY <1>1, ExecTokensParts
  <1>3. Only(a, AppNames)
    BY AppFlagValues
  <1>4. IsTokens(h) /\ Values(h, "--") = {}
    <2>1. Only(h, GlobalNames)
      BY HeadOnly
    <2>2. "--" \notin GlobalNames
      BY DEF GlobalNames
    <2> QED BY <2>1, <2>2 DEF Only
  <1>5. c = h \o (a \o (x \o d))
    BY <1>2 DEF Command, CommandHead
  <1> HIDE DEF h, a, x, d
  <1>6. IsTokens(a) /\ Values(a, "--") = {} /\ IsTokens(x) /\ Values(x, "--") = {} /\ IsTokens(d)
    BY <1>2, <1>3 DEF Only, AppNames
  <1>7. IsTokens(g) /\ Values(g, "--") = {}
    BY <1>4, <1>6, ConcatValues
  <1> DEFINE T == (Range(h) \cup Range(a)) \cup (Range(x) \cup Range(d))
  <1>8. h \in Seq(T) /\ a \in Seq(T) /\ x \in Seq(T) /\ d \in Seq(T)
    BY <1>4, <1>6, SeqMonotonic DEF IsTokens
  <1> HIDE DEF T
  <1>9. h \o (a \o (x \o d)) = ((h \o a) \o x) \o d
    <2>1. Then(h, Then(a, Then(x, d))) = Then(Then(Then(h, a), x), d)
      BY <1>8, FourParts
    <2> QED BY <2>1 DEF Then
  <1> HIDE DEF g
  <1>10. IsTokens(pre) /\ Values(pre, "--") = {}
    BY <1>6, <1>7, ConcatValues
  <1>11. c = pre \o d
    BY <1>5, <1>9 DEF g
  <1> HIDE DEF pre
  <1> QED BY <1>10, <1>11 DEF d

(* The words of a command survive the way through ExecTokens and rkt's     *)
(* parser, unless one of them is the delimiter (ArgsKept).                 *)
THEOREM WordsReachRkt == HelpersSpec => []ArgsKept
  <1>1. HelpersInv => ArgsKept
    <2>1. SUFFICES ASSUME HelpersInv, kept.kind = "app",
                          "---" \notin ToSet(req.command \o req.args)
                   PROVE  IF req.command = <<>> THEN kept.exec = {} /\ kept.args = req.args
                          ELSE \E e \in kept.exec : <<e>> \o kept.args = req.command \o req.args
      BY DEF ArgsKept
    <2>2. /\ req \in ContainerRequests /\ kept = RktApp(cmd)
          /\ cmd = Command("app", AppFlags(req) \o ExecTokens(req))
      BY <2>1, KeptApp
    <2> DEFINE w == AppArgs(req)
               r == req.command
               b == req.args
    <2>3. r \in Seq(STRING) /\ b \in Seq(STRING) /\ w \in Seq(STRING)
      BY <2>2, AppFields, AppArgsWords
    <2>4. kept.exec = IF r = <<>> THEN {} ELSE {Head(r)}
      BY <2>2, AppCommandValues DEF RktApp
    <2>5. r \o b \in Seq(STRING) /\ \A i \in 1 .. Len(r \o b) : (r \o b)[i] # "---"
      <3>1. r \o b \in Seq(STRING)
        BY <2>3, ConcatProperties
      <3>2. DOMAIN (r \o b) = 1 .. Len(r \o b)
        BY <3>1, LenProperties
      <3> QED BY <2>1, <3>1, <3>2 DEF ToSet
    <2>6. "---" \notin Range(w) => kept.args = w
      <3>1. PICK pre : IsTokens(pre) /\ Values(pre, "--") = {} /\ cmd = pre \o Delimited(w)
        BY <2>2, WordsLast
      <3>2. kept.args = ParsedArgs(cmd)
        BY <2>2 DEF RktApp
      <3> HIDE DEF w
      <3> QED BY <2>3, <3>1, <3>2, WordsParsed
    <2>7. CASE r = <<>>
      <3>1. w = <<>> \o b /\ r \o b = <<>> \o b
        BY <2>7 DEF AppArgs
      <3>2. <<>> \o b = b
        BY <2>3, ConcatEmptySeq
      <3>3. w = b /\ r \o b = b
        BY <3>1, <3>2
      <3> HIDE DEF w, r, b
      <3>4. DOMAIN b = 1 .. Len(b)
        BY <2>3, LenProperties
      <3>5. "---" \notin Range(w)
        BY <2>5, <3>3, <3>4 DEF Range
      <3>6. kept.args = b /\ kept.exec = {}
        BY <2>4, <2>6, <2>7, <3>3, <3>5
      <3> QED BY <2>7, <3>6 DEF r, b
    <2>8. CASE r # <<>>
      <3> DEFINE e == Head(r)
                 l == Tail(r)
      <3>1. w = l \o b
        BY <2>8 DEF AppArgs
      <3> HIDE DEF w, r, b
      <3>2. e \in STRING /\ l \in Seq(STRING) /\ <<e>> \in Seq(STRING)
        BY <2>3, <2>8, HeadTailProperties
      <3>3. r = <<e>> \o l
        <4>1. /\ Len(l) = Len(r) - 1 /\ \A i \in 1 .. Len(l) : l[i] = r[i + 1]
              /\ r[1] = e
          BY <2>3, <2>8, HeadTailProperties
        <4>2. /\ <<e>> \o l \in Seq(STRING) /\ Len(<<e>> \o l) = 1 + Len(l)
              /\ \A i \in 1 .. 1 + Len(l) :
                   (<<e>> \o l)[i] = IF i <= 1 THEN <<e>>[i] ELSE l[i - 1]
          BY <3>2, ConcatProperties
        <4> QED BY <2>3, <4>1, <4>2, SeqEqual
      <3> HIDE DEF e, l
      <3>4. r \o b = <<e>> \o w
        BY <2>3, <3>1, <3>2, <3>3, ConcatAssociative
      <3>5. "---" \notin Range(w)
        <4>1. Joined(<<e>> \o w, <<e>>, w, Len(<<e>>), Len(w))
          BY <2>3, <3>2, ConcatAt
        <4>2. Len(<<e>>) = 1
          OBVIOUS
        <4> DEFINE c == <<e>> \o w
        <4>3. Len(c) = 1 + Len(w) /\ Len(w) \in Nat /\ \A i \in 1 .. Len(w) : c[1 + i] = w[i]
          BY <4>1, <4>2 DEF Joined
        <4> HIDE DEF c
        <4>4. \A i \in 1 .. Len(c) : c[i] # "---"
          BY <2>5, <3>4 DEF c
        <4>5. \A i \in 1 .. Len(w) : 1 + i \in 1 .. Len(c)
          BY <4>3
        <4>6. DOMAIN w = 1 .. Len(w)
          BY <2>3, LenProperties
        <4> QED BY <4>3, <4>4, <4>5, <4>6 DEF Range
      <3>6. kept.args = w /\ e \in kept.exec
        BY <2>4, <2>6, <2>8, <3>5 DEF e
      <3>7. <<e>> \o kept.args = r \o b
        BY <3>4, <3>6
      <3> QED BY <2>8, <3>6, <3>7 DEF r, b
    <2> QED BY <2>7, <2>8
  <1> QED BY <1>1, HelpersInvAlways, PTL

=============================================================================
