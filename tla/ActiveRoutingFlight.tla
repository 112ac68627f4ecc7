------------------------ MODULE ActiveRoutingFlight -------------------------
(***************************************************************************)
(* What is under way is under way once, for every network, number of       *)
(* flows, reads, operand buffers and lines of an update.                   *)
(*                                                                         *)
(* OperandsInFlight is not inductive as it stands.  That a response fills  *)
(* the buffer it was read for needs the flow of the packet to be that of   *)
(* the buffer (OperandsOnce speaks of one flow at a time); that a buffer   *)
(* is released only when nothing is under way for it needs the operands of *)
(* a ready buffer to be there (BuffersGood); that a response is not taken  *)
(* by the wrong cube or by a host needs what the commands say of packets   *)
(* (RequestsGood, ResponsesGood).                                          *)
(*                                                                         *)
(* The first part says where packets are, and how a step moves them.  A    *)
(* place is a link, an input buffer, the vaults or the response queue; an  *)
(* item is a position of a sequence or an element of a set there.  The     *)
(* lemmas are about the items that belong to a set of requests, which may  *)
(* depend on the cube, and a set of responses: one place at most holds     *)
(* such an item, it holds one only, and a step leaves it where it is,      *)
(* moves it, makes it or consumes it.  Sets and not operators describe     *)
(* what is looked for, so that the same lemmas serve for ordinary reads    *)
(* and for the operands of updates.                                        *)
(***************************************************************************)
EXTENDS ActiveRoutingProofs

-----------------------------------------------------------------------------
(* Families of sets of items, indexed by places.                           *)

Few(S) == \A x, y \in S : x = y
One(S) == \E x : S = {x}

Unique(P, I) ==
  /\ \A a \in P : Few(I[a])
  /\ \A a, b \in P : I[a] # {} /\ I[b] # {} => a = b

Somewhere(P, I) == \E a \in P : I[a] # {}

Kept(S, T) == (S = {} <=> T = {}) /\ (Few(S) => Few(T))

LEMMA AllKept ==
  ASSUME NEW P, NEW I, NEW J, Unique(P, I), \A a \in P : Kept(I[a], J[a])
  PROVE  Unique(P, J) /\ (Somewhere(P, J) <=> Somewhere(P, I))
BY DEF Unique, Somewhere, Kept

(* An item goes from place a to place b.                                   *)
LEMMA Moved ==
  ASSUME NEW P, NEW I, NEW J, Unique(P, I), NEW a \in P, NEW b \in P,
         I[a] # {}, J[a] = {}, One(J[b]), \A c \in P \ {a, b} : Kept(I[c], J[c])
  PROVE  Unique(P, J) /\ Somewhere(P, J) /\ Somewhere(P, I)
BY DEF Unique, Somewhere, Kept, One, Few

LEMMA Created ==
  ASSUME NEW P, NEW I, NEW J, Unique(P, I), ~Somewhere(P, I), NEW b \in P,
         One(J[b]), \A c \in P \ {b} : Kept(I[c], J[c])
  PROVE  Unique(P, J) /\ Somewhere(P, J)
BY DEF Unique, Somewhere, Kept, One, Few

LEMMA Consumed ==
  ASSUME NEW P, NEW I, NEW J, Unique(P, I), NEW a \in P, I[a] # {},
         J[a] = {}, \A c \in P \ {a} : Kept(I[c], J[c])
  PROVE  Unique(P, J) /\ ~Somewhere(P, J) /\ Somewhere(P, I)
BY DEF Unique, Somewhere, Kept, Few

-----------------------------------------------------------------------------
(* Positions of a sequence whose elements belong to a set, and such         *)
(* elements of a set.                                                      *)

Pos(s, Q) == {i \in DOMAIN s : s[i] \in Q}

Part(S, R) == S \cap R

LEMMA AppendPos ==
  ASSUME NEW S, NEW s \in Seq(S), NEW e \in S, NEW Q
  PROVE  /\ e \notin Q => Pos(Append(s, e), Q) = Pos(s, Q)
         /\ e \in Q /\ Pos(s, Q) = {} => One(Pos(Append(s, e), Q))
<1>1. /\ DOMAIN s = 1..Len(s) /\ DOMAIN Append(s, e) = 1..(Len(s) + 1) /\ Len(s) \in Nat
      /\ \A i \in 1..Len(s) : Append(s, e)[i] = s[i]
      /\ Append(s, e)[Len(s) + 1] = e
  BY AppendProperties, LenProperties
<1>2. CASE e \notin Q
  BY <1>1, <1>2 DEF Pos
<1>3. ASSUME e \in Q, Pos(s, Q) = {} PROVE Pos(Append(s, e), Q) = {Len(s) + 1}
  BY <1>1, <1>3 DEF Pos
<1> QED BY <1>2, <1>3 DEF One

LEMMA TailPos ==
  ASSUME NEW S, NEW s \in Seq(S), s # <<>>, NEW Q
  PROVE  /\ Head(s) \notin Q => Kept(Pos(s, Q), Pos(Tail(s), Q))
         /\ Head(s) \in Q => Pos(s, Q) # {}
         /\ Head(s) \in Q /\ Few(Pos(s, Q)) => Pos(Tail(s), Q) = {}
<1> DEFINE t == Tail(s)
<1>1. /\ DOMAIN s = 1..Len(s) /\ Len(s) \in Nat /\ Len(s) >= 1
      /\ DOMAIN t = 1..(Len(s) - 1)
      /\ \A i \in 1..(Len(s) - 1) : t[i] = s[i + 1]
      /\ Head(s) = s[1]
  BY HeadTailProperties, LenProperties, EmptySeq
<1> HIDE DEF t
<1>2. \A i \in Pos(t, Q) : i + 1 \in Pos(s, Q) /\ i \in Nat /\ i >= 1
  BY <1>1 DEF Pos
<1>3. \A i \in Pos(s, Q) : i # 1 => i - 1 \in Pos(t, Q)
  BY <1>1 DEF Pos
<1>4. Head(s) \in Q <=> 1 \in Pos(s, Q)
  BY <1>1 DEF Pos
<1>5. Few(Pos(s, Q)) => Few(Pos(t, Q))
  BY <1>2 DEF Few
<1>6. ASSUME Head(s) \in Q, Few(Pos(s, Q)) PROVE Pos(t, Q) = {}
  BY <1>2, <1>4, <1>6 DEF Few
<1> QED BY <1>2, <1>3, <1>4, <1>5, <1>6 DEF Kept, t

LEMMA RemoveAtShape ==
  ASSUME NEW S, NEW s \in Seq(S), NEW i \in 1..Len(s)
  PROVE  /\ DOMAIN RemoveAt(s, i) = 1..(Len(s) - 1)
         /\ \A j \in 1..(Len(s) - 1) : RemoveAt(s, i)[j] = IF j < i THEN s[j] ELSE s[j + 1]
<1> DEFINE u == SubSeq(s, 1, i-1)  v == SubSeq(s, i+1, Len(s))
<1>1. /\ u \in Seq(S) /\ Len(u) = i - 1 /\ \A j \in 1..(i-1) : u[j] = s[j]
  BY SubSeqProperties
<1>2. /\ v \in Seq(S) /\ Len(v) = Len(s) - i /\ \A j \in 1..(Len(s) - i) : v[j] = s[i + j]
  BY SubSeqProperties
<1>3. RemoveAt(s, i) = u \o v
  BY DEF RemoveAt
<1> HIDE DEF u, v
<1>4. /\ u \o v \in Seq(S) /\ Len(u \o v) = Len(u) + Len(v)
      /\ \A j \in 1..(Len(u) + Len(v)) :
           (u \o v)[j] = IF j <= Len(u) THEN u[j] ELSE v[j - Len(u)]
  BY <1>1, <1>2, ConcatProperties
<1>5. DOMAIN (u \o v) = 1..(Len(s) - 1)
  BY <1>1, <1>2, <1>4, LenProperties
<1>6. ASSUME NEW j \in 1..(Len(s) - 1)
      PROVE  (u \o v)[j] = IF j < i THEN s[j] ELSE s[j + 1]
  <2>1. Len(s) \in Nat /\ Len(u) = i - 1 /\ Len(v) = Len(s) - i
    BY <1>1, <1>2, LenProperties
  <2>2. CASE j < i
    BY <1>1, <1>4, <2>1, <2>2
  <2>3. CASE ~(j < i)
    <3>1. j - (i - 1) \in 1..(Len(s) - i) /\ i + (j - (i - 1)) = j + 1
      BY <2>1, <2>3
    <3>2. (u \o v)[j] = v[j - (i - 1)]
      BY <1>4, <2>1, <2>3
    <3>3. v[j - (i - 1)] = s[i + (j - (i - 1))]
      BY <1>2, <3>1
    <3> QED BY <2>3, <3>1, <3>2, <3>3
  <2> QED BY <2>2, <2>3
<1> QED BY <1>3, <1>5, <1>6

LEMMA RemoveAtPos ==
  ASSUME NEW S, NEW s \in Seq(S), NEW i \in 1..Len(s), NEW Q
  PROVE  /\ s[i] \notin Q => Kept(Pos(s, Q), Pos(RemoveAt(s, i), Q))
         /\ s[i] \in Q => Pos(s, Q) # {}
         /\ s[i] \in Q /\ Few(Pos(s, Q)) => Pos(RemoveAt(s, i), Q) = {}
<1> DEFINE t == RemoveAt(s, i)
<1>1. /\ DOMAIN s = 1..Len(s) /\ Len(s) \in Nat
      /\ DOMAIN t = 1..(Len(s) - 1)
      /\ \A j \in 1..(Len(s) - 1) : t[j] = IF j < i THEN s[j] ELSE s[j + 1]
  BY RemoveAtShape, LenProperties
<1> HIDE DEF t
<1> DEFINE g(j) == IF j < i THEN j ELSE j + 1
<1>2. \A j \in Pos(t, Q) : g(j) \in Pos(s, Q) /\ g(j) # i /\ j \in Nat
  BY <1>1 DEF Pos
<1>3. \A j \in Pos(s, Q) : j # i => (IF j < i THEN j ELSE j - 1) \in Pos(t, Q)
  BY <1>1 DEF Pos
<1>4. s[i] \in Q <=> i \in Pos(s, Q)
  BY <1>1 DEF Pos
<1>5. Few(Pos(s, Q)) => Few(Pos(t, Q))
  BY <1>2 DEF Few
<1>6. ASSUME s[i] \in Q, Few(Pos(s, Q)) PROVE Pos(t, Q) = {}
  BY <1>2, <1>4, <1>6 DEF Few
<1> QED BY <1>2, <1>3, <1>4, <1>5, <1>6 DEF Kept, t

LEMMA ReplaceAtPos ==
  ASSUME NEW S, NEW s \in Seq(S), NEW i \in 1..Len(s), NEW e \in S, NEW Q
  PROVE  /\ s[i] \notin Q /\ e \notin Q => Pos(ReplaceAt(s, i, e), Q) = Pos(s, Q)
         /\ s[i] \in Q => Pos(s, Q) # {}
         /\ s[i] \in Q /\ e \notin Q /\ Few(Pos(s, Q)) => Pos(ReplaceAt(s, i, e), Q) = {}
         /\ e \in Q /\ Pos(s, Q) = {} => One(Pos(ReplaceAt(s, i, e), Q))
<1> DEFINE t == ReplaceAt(s, i, e)
<1>1. /\ DOMAIN s = 1..Len(s) /\ DOMAIN t = 1..Len(s)
      /\ \A j \in 1..Len(s) : t[j] = IF j = i THEN e ELSE s[j]
  BY ExceptSeq, LenProperties DEF ReplaceAt
<1> HIDE DEF t
<1>2. s[i] \notin Q /\ e \notin Q => Pos(t, Q) = Pos(s, Q)
  BY <1>1 DEF Pos
<1>3. s[i] \in Q => Pos(s, Q) # {}
  BY <1>1 DEF Pos
<1>4. s[i] \in Q /\ e \notin Q /\ Few(Pos(s, Q)) => Pos(t, Q) = {}
  BY <1>1 DEF Pos, Few
<1>5. e \in Q /\ Pos(s, Q) = {} => Pos(t, Q) = {i}
  BY <1>1 DEF Pos
<1> QED BY <1>2, <1>3, <1>4, <1>5 DEF One, t

-----------------------------------------------------------------------------
(* Two places of a family change.                                          *)

Gains(S, T) == S = {} => One(T)
Loses(S, T) == S # {} /\ (Few(S) => T = {})

LEMMA TwoPlaces ==
  ASSUME NEW P, NEW I, NEW J, Unique(P, I), NEW a \in P, NEW b \in P, a # b,
         \A y \in P \ {a, b} : Kept(I[y], J[y])
  PROVE  /\ Kept(I[a], J[a]) /\ Kept(I[b], J[b])
              => Unique(P, J) /\ (Somewhere(P, J) <=> Somewhere(P, I))
         /\ Loses(I[a], J[a]) /\ Gains(I[b], J[b])
              => Unique(P, J) /\ Somewhere(P, J) /\ Somewhere(P, I)
         /\ Loses(I[a], J[a]) /\ Kept(I[b], J[b])
              => Unique(P, J) /\ ~Somewhere(P, J) /\ Somewhere(P, I)
         /\ Kept(I[a], J[a]) /\ Gains(I[b], J[b]) /\ ~Somewhere(P, I)
              => Unique(P, J) /\ Somewhere(P, J)
         /\ Gains(I[a], J[a]) /\ Kept(I[b], J[b]) /\ ~Somewhere(P, I)
              => Unique(P, J) /\ Somewhere(P, J)
<1>1. Kept(I[a], J[a]) /\ Kept(I[b], J[b]) => \A y \in P : Kept(I[y], J[y])
  OBVIOUS
<1>2. Few(I[a]) /\ (I[a] # {} => I[b] = {})
  BY DEF Unique
<1>3. Loses(I[a], J[a]) => I[a] # {} /\ J[a] = {}
  BY <1>2 DEF Loses
<1>4. ~Somewhere(P, I) => I[a] = {} /\ I[b] = {}
  BY DEF Somewhere
<1>5. CASE Kept(I[a], J[a]) /\ Kept(I[b], J[b])
  BY <1>1, <1>3, <1>4, <1>5, AllKept DEF Kept, Gains, One
<1>6. ASSUME Loses(I[a], J[a]), Gains(I[b], J[b])
      PROVE  Unique(P, J) /\ Somewhere(P, J) /\ Somewhere(P, I)
  BY <1>2, <1>3, <1>6, Moved DEF Gains
<1>7. ASSUME Loses(I[a], J[a]), Kept(I[b], J[b])
      PROVE  Unique(P, J) /\ ~Somewhere(P, J) /\ Somewhere(P, I)
  BY <1>3, <1>7, Consumed
<1>8. ASSUME Kept(I[a], J[a]), Gains(I[b], J[b]), ~Somewhere(P, I)
      PROVE  Unique(P, J) /\ Somewhere(P, J)
  BY <1>4, <1>8, Created DEF Gains
<1>9. ASSUME Gains(I[a], J[a]), Kept(I[b], J[b]), ~Somewhere(P, I)
      PROVE  Unique(P, J) /\ Somewhere(P, J)
  BY <1>4, <1>9, Created DEF Gains
<1> QED BY <1>1, <1>6, <1>7, <1>8, <1>9, AllKept

-----------------------------------------------------------------------------
(***************************************************************************)
(* The places of the network.  Q[x] is the set of requests looked for in   *)
(* cube x, R the set of responses.                                         *)
(***************************************************************************)
HostPlace == <<"host", 0, 0>>

Places == ({"link", "down", "vault", "up"} \X Cubes \X Ports) \cup {HostPlace}

HeldIn(lk, dn, va, up, rq, Q, R) ==
  [y \in Places |->
     IF y[1] = "link" /\ y[3] \in Links THEN Pos(lk[y[2]][y[3]], Q[y[2]])
     ELSE IF y[1] = "down" /\ y[3] \in Links THEN Pos(dn[y[2]][y[3]], Q[y[2]])
     ELSE IF y[1] = "vault" /\ y[3] = VaultPort THEN Part(va[y[2]], R)
     ELSE IF y[1] = "up" THEN Part(up[y[2]][y[3]], R)
     ELSE IF y[1] = "host" THEN Part(rq, R)
     ELSE {}]

Held(Q, R) == HeldIn(link, downBuffers, vault, upBuffers, responseQ, Q, R)

LEMMA HeldAt ==
  ASSUME NEW lk, NEW dn, NEW va, NEW up, NEW rq, NEW Q, NEW R
  PROVE  LET H == HeldIn(lk, dn, va, up, rq, Q, R) IN
         /\ \A x \in Cubes, n \in Links :
              /\ <<"link", x, n>> \in Places /\ H[<<"link", x, n>>] = Pos(lk[x][n], Q[x])
              /\ <<"down", x, n>> \in Places /\ H[<<"down", x, n>>] = Pos(dn[x][n], Q[x])
         /\ \A x \in Cubes :
              <<"vault", x, VaultPort>> \in Places /\ H[<<"vault", x, VaultPort>>] = Part(va[x], R)
         /\ \A x \in Cubes, n \in Ports :
              <<"up", x, n>> \in Places /\ H[<<"up", x, n>>] = Part(up[x][n], R)
         /\ HostPlace \in Places /\ H[HostPlace] = Part(rq, R)
<1>1. Links \subseteq Ports /\ VaultPort \in Ports
  BY DEF Ports
<1>2. ASSUME NEW x \in Cubes, NEW n \in Ports, NEW k \in {"link", "down", "vault", "up"}
      PROVE  <<k, x, n>> \in Places /\ <<k, x, n>>[1] = k /\ <<k, x, n>>[2] = x /\ <<k, x, n>>[3] = n
  BY DEF Places
<1>3. HostPlace \in Places /\ HostPlace[1] = "host"
  BY DEF Places, HostPlace
<1> QED BY <1>1, <1>2, <1>3 DEF HeldIn

LEMMA HeldKept ==
  ASSUME NEW lk, NEW dn, NEW va, NEW up, NEW rq, NEW lk2, NEW dn2, NEW va2, NEW up2, NEW rq2,
         NEW Q, NEW R, NEW X,
         \A x \in Cubes, n \in Links :
           <<"link", x, n>> \notin X => Kept(Pos(lk[x][n], Q[x]), Pos(lk2[x][n], Q[x])),
         \A x \in Cubes, n \in Links :
           <<"down", x, n>> \notin X => Kept(Pos(dn[x][n], Q[x]), Pos(dn2[x][n], Q[x])),
         \A x \in Cubes : <<"vault", x, VaultPort>> \notin X => Kept(Part(va[x], R), Part(va2[x], R)),
         \A x \in Cubes, n \in Ports :
           <<"up", x, n>> \notin X => Kept(Part(up[x][n], R), Part(up2[x][n], R)),
         HostPlace \notin X => Kept(Part(rq, R), Part(rq2, R))
  PROVE  \A y \in Places \ X : Kept(HeldIn(lk, dn, va, up, rq, Q, R)[y],
                                    HeldIn(lk2, dn2, va2, up2, rq2, Q, R)[y])
<1> DEFINE H == HeldIn(lk, dn, va, up, rq, Q, R)
           G == HeldIn(lk2, dn2, va2, up2, rq2, Q, R)
<1>a. /\ \A x \in Cubes, n \in Links : /\ H[<<"link", x, n>>] = Pos(lk[x][n], Q[x])
                                      /\ H[<<"down", x, n>>] = Pos(dn[x][n], Q[x])
      /\ \A x \in Cubes : H[<<"vault", x, VaultPort>>] = Part(va[x], R)
      /\ \A x \in Cubes, n \in Ports : H[<<"up", x, n>>] = Part(up[x][n], R)
      /\ H[HostPlace] = Part(rq, R)
  BY HeldAt
<1>b. /\ \A x \in Cubes, n \in Links : /\ G[<<"link", x, n>>] = Pos(lk2[x][n], Q[x])
                                      /\ G[<<"down", x, n>>] = Pos(dn2[x][n], Q[x])
      /\ \A x \in Cubes : G[<<"vault", x, VaultPort>>] = Part(va2[x], R)
      /\ \A x \in Cubes, n \in Ports : G[<<"up", x, n>>] = Part(up2[x][n], R)
      /\ G[HostPlace] = Part(rq2, R)
  BY HeldAt
<1> SUFFICES ASSUME NEW y \in Places \ X PROVE  Kept(H[y], G[y])
  OBVIOUS
<1>c. ASSUME NEW k, NEW x, NEW n, y = <<k, x, n>>,
             (k \in {"link", "down"} /\ n \notin Links) \/ (k = "vault" /\ n # VaultPort)
      PROVE  H[y] = {} /\ G[y] = {}
  <2>1. y \in Places /\ y[1] = k /\ y[3] = n
    BY <1>c
  <2> QED BY <1>c, <2>1 DEF HeldIn
<1> HIDE DEF H, G
<1>1. Kept({}, {})
  BY DEF Kept
<1>2. CASE y = HostPlace
  BY <1>2, <1>a, <1>b
<1>3. ASSUME NEW k \in {"link", "down", "vault", "up"}, NEW x \in Cubes, NEW n \in Ports,
             y = <<k, x, n>>
      PROVE  Kept(H[y], G[y])
  <2>2. CASE k = "link" /\ n \in Links
    <3>1. <<"link", x, n>> \notin X /\ n \in Links
      BY <1>3, <2>2
    <3>2. Kept(Pos(lk[x][n], Q[x]), Pos(lk2[x][n], Q[x]))
      BY <3>1
    <3>3. H[y] = Pos(lk[x][n], Q[x]) /\ G[y] = Pos(lk2[x][n], Q[x])
      BY <1>3, <2>2, <1>a, <1>b
    <3> QED BY <3>2, <3>3
  <2>3. CASE k = "down" /\ n \in Links
    <3>1. <<"down", x, n>> \notin X /\ n \in Links
      BY <1>3, <2>3
    <3>2. Kept(Pos(dn[x][n], Q[x]), Pos(dn2[x][n], Q[x]))
      BY <3>1
    <3>3. H[y] = Pos(dn[x][n], Q[x]) /\ G[y] = Pos(dn2[x][n], Q[x])
      BY <1>3, <2>3, <1>a, <1>b
    <3> QED BY <3>2, <3>3
  <2>4. CASE k = "vault" /\ n = VaultPort
    BY <1>3, <2>4, <1>a, <1>b
  <2>5. CASE k = "up"
    BY <1>3, <2>5, <1>a, <1>b
  <2>6. CASE (k \in {"link", "down"} /\ n \notin Links) \/ (k = "vault" /\ n # VaultPort)
    BY <1>c, <1>1, <1>3, <2>6
  <2> QED BY <2>2, <2>3, <2>4, <2>5, <2>6
<1>4. y = HostPlace \/ \E k \in {"link", "down", "vault", "up"}, x \in Cubes, n \in Ports : y = <<k, x, n>>
  BY DEF Places
<1> QED BY <1>2, <1>3, <1>4

-----------------------------------------------------------------------------
(* What a step does to the one place of each kind that it touches.         *)

LEMMA LinkAppendHeld ==
  ASSUME TypeOK, NEW d \in Cubes, NEW q \in Links, NEW e \in Request, NEW Q,
         link' = [link EXCEPT ![d][q] = Append(@, e)]
  PROVE  /\ \A x \in Cubes, n \in Links : ~(x = d /\ n = q) => link'[x][n] = link[x][n]
         /\ e \notin Q[d] => Kept(Pos(link[d][q], Q[d]), Pos(link'[d][q], Q[d]))
         /\ e \in Q[d] => Gains(Pos(link[d][q], Q[d]), Pos(link'[d][q], Q[d]))
<1>1. link \in [Cubes -> [Links -> Seq(Request)]] /\ link[d][q] \in Seq(Request)
  BY DEF TypeOK
<1>2. link'[d][q] = Append(link[d][q], e)
  BY <1>1
<1>3. \A x \in Cubes, n \in Links : ~(x = d /\ n = q) => link'[x][n] = link[x][n]
  BY <1>1
<1>4. /\ e \notin Q[d] => Pos(link'[d][q], Q[d]) = Pos(link[d][q], Q[d])
      /\ e \in Q[d] /\ Pos(link[d][q], Q[d]) = {} => One(Pos(link'[d][q], Q[d]))
  <2> DEFINE s == link[d][q]
  <2>1. s \in Seq(Request) /\ link'[d][q] = Append(s, e)
    BY <1>1, <1>2
  <2> HIDE DEF s
  <2>2. /\ e \notin Q[d] => Pos(Append(s, e), Q[d]) = Pos(s, Q[d])
        /\ e \in Q[d] /\ Pos(s, Q[d]) = {} => One(Pos(Append(s, e), Q[d]))
    BY <2>1, AppendPos
  <2> QED BY <2>1, <2>2 DEF s
<1> QED BY <1>3, <1>4 DEF Kept, Gains

LEMMA LinkTailHeld ==
  ASSUME TypeOK, NEW d \in Cubes, NEW q \in Links, NEW Q, link[d][q] # <<>>,
         link' = [link EXCEPT ![d][q] = Tail(@)]
  PROVE  /\ \A x \in Cubes, n \in Links : ~(x = d /\ n = q) => link'[x][n] = link[x][n]
         /\ Head(link[d][q]) \notin Q[d] => Kept(Pos(link[d][q], Q[d]), Pos(link'[d][q], Q[d]))
         /\ Head(link[d][q]) \in Q[d] => Loses(Pos(link[d][q], Q[d]), Pos(link'[d][q], Q[d]))
<1>1. link \in [Cubes -> [Links -> Seq(Request)]] /\ link[d][q] \in Seq(Request)
  BY DEF TypeOK
<1>2. link'[d][q] = Tail(link[d][q])
  BY <1>1
<1>3. \A x \in Cubes, n \in Links : ~(x = d /\ n = q) => link'[x][n] = link[x][n]
  BY <1>1
<1>4. /\ Head(link[d][q]) \notin Q[d] => Kept(Pos(link[d][q], Q[d]), Pos(Tail(link[d][q]), Q[d]))
      /\ Head(link[d][q]) \in Q[d] => Loses(Pos(link[d][q], Q[d]), Pos(Tail(link[d][q]), Q[d]))
  <2>1. PICK s \in Seq(Request) : s = link[d][q] /\ s # <<>>
    BY <1>1
  <2> QED BY <2>1, TailPos DEF Loses
<1> QED BY <1>2, <1>3, <1>4

LEMMA DownAppendHeld ==
  ASSUME TypeOK, NEW d \in Cubes, NEW q \in Links, NEW e \in Request, NEW Q,
         downBuffers' = [downBuffers EXCEPT ![d][q] = Append(@, e)]
  PROVE  /\ \A x \in Cubes, n \in Links :
              ~(x = d /\ n = q) => downBuffers'[x][n] = downBuffers[x][n]
         /\ e \notin Q[d] => Kept(Pos(downBuffers[d][q], Q[d]), Pos(downBuffers'[d][q], Q[d]))
         /\ e \in Q[d] => Gains(Pos(downBuffers[d][q], Q[d]), Pos(downBuffers'[d][q], Q[d]))
<1>1. downBuffers \in [Cubes -> [Links -> Seq(Request)]] /\ downBuffers[d][q] \in Seq(Request)
  BY DEF TypeOK
<1>2. downBuffers'[d][q] = Append(downBuffers[d][q], e)
  BY <1>1
<1>3. \A x \in Cubes, n \in Links : ~(x = d /\ n = q) => downBuffers'[x][n] = downBuffers[x][n]
  BY <1>1
<1>4. /\ e \notin Q[d] => Pos(downBuffers'[d][q], Q[d]) = Pos(downBuffers[d][q], Q[d])
      /\ e \in Q[d] /\ Pos(downBuffers[d][q], Q[d]) = {} => One(Pos(downBuffers'[d][q], Q[d]))
  <2> DEFINE s == downBuffers[d][q]
  <2>1. s \in Seq(Request) /\ downBuffers'[d][q] = Append(s, e)
    BY <1>1, <1>2
  <2> HIDE DEF s
  <2>2. /\ e \notin Q[d] => Pos(Append(s, e), Q[d]) = Pos(s, Q[d])
        /\ e \in Q[d] /\ Pos(s, Q[d]) = {} => One(Pos(Append(s, e), Q[d]))
    BY <2>1, AppendPos
  <2> QED BY <2>1, <2>2 DEF s
<1> QED BY <1>3, <1>4 DEF Kept, Gains

(* A packet leaves the input buffer (K is empty) or K replaces it.         *)
Becomes(c, l, i, K) ==
  \/ K = {} /\ Take(c, l, i)
  \/ \E e \in Request : K = {e} /\ Keep(c, l, i, e)

LEMMA BecomesHeld ==
  ASSUME TypeOK, NEW c \in Cubes, NEW l \in Links, NEW i \in DOMAIN downBuffers[c][l],
         NEW Q, NEW K, Becomes(c, l, i, K)
  PROVE  LET p == downBuffers[c][l][i]
             S == Pos(downBuffers[c][l], Q[c])
             T == Pos(downBuffers'[c][l], Q[c])
         IN  /\ \A x \in Cubes, n \in Links :
                  ~(x = c /\ n = l) => downBuffers'[x][n] = downBuffers[x][n]
             /\ p \notin Q[c] /\ K \cap Q[c] = {} => Kept(S, T)
             /\ p \in Q[c] /\ K \cap Q[c] = {} => Loses(S, T)
             /\ p \notin Q[c] /\ K \cap Q[c] # {} => Gains(S, T)
<1> DEFINE s == downBuffers[c][l]
<1>1. downBuffers \in [Cubes -> [Links -> Seq(Request)]] /\ s \in Seq(Request) /\ i \in 1..Len(s)
  BY BufferedRequest DEF TypeOK
<1>2. CASE K = {} /\ Take(c, l, i)
  <2>1. /\ downBuffers'[c][l] = RemoveAt(s, i)
        /\ \A x \in Cubes, n \in Links : ~(x = c /\ n = l) => downBuffers'[x][n] = downBuffers[x][n]
    BY <1>1, <1>2 DEF Take
  <2> QED BY <1>1, <1>2, <2>1, RemoveAtPos DEF Loses
<1>3. ASSUME NEW e \in Request, K = {e}, Keep(c, l, i, e)
      PROVE  LET S == Pos(s, Q[c])
                 T == Pos(downBuffers'[c][l], Q[c])
             IN  /\ \A x \in Cubes, n \in Links :
                      ~(x = c /\ n = l) => downBuffers'[x][n] = downBuffers[x][n]
                 /\ s[i] \notin Q[c] /\ e \notin Q[c] => Kept(S, T)
                 /\ s[i] \in Q[c] /\ e \notin Q[c] => Loses(S, T)
                 /\ s[i] \notin Q[c] /\ e \in Q[c] => Gains(S, T)
  <2>1. /\ downBuffers'[c][l] = ReplaceAt(s, i, e)
        /\ \A x \in Cubes, n \in Links : ~(x = c /\ n = l) => downBuffers'[x][n] = downBuffers[x][n]
    BY <1>1, <1>3 DEF Keep
  <2> HIDE DEF s
  <2>2. /\ s[i] \notin Q[c] /\ e \notin Q[c] => Pos(ReplaceAt(s, i, e), Q[c]) = Pos(s, Q[c])
        /\ s[i] \in Q[c] => Pos(s, Q[c]) # {}
        /\ s[i] \in Q[c] /\ e \notin Q[c] /\ Few(Pos(s, Q[c])) => Pos(ReplaceAt(s, i, e), Q[c]) = {}
        /\ e \in Q[c] /\ Pos(s, Q[c]) = {} => One(Pos(ReplaceAt(s, i, e), Q[c]))
    BY <1>1, ReplaceAtPos
  <2> QED BY <2>1, <2>2 DEF Loses, Gains, Kept
<1>4. K = {} \/ \E e \in Request : K = {e} /\ Keep(c, l, i, e)
  BY DEF Becomes
<1> QED BY <1>2, <1>3, <1>4 DEF Becomes

(* What NextLine leaves of a packet that covers more lines.                *)
NextOf(p) == [p EXCEPT !.lines = @ - 1, !.half = 0, !.buf = NoBuf]

LEMMA NextFields ==
  ASSUME NEW p \in Request, p.lines # 1
  PROVE  /\ NextOf(p) \in Request /\ MaxLines # 1
         /\ NextOf(p).half = 0 /\ NextOf(p).flow = p.flow /\ NextOf(p).cmd = p.cmd
<1>1. p.lines - 1 \in 1..MaxLines /\ MaxLines # 1
  BY MaxLinesType DEF Request
<1>2. NextOf(p) \in Request
  BY <1>1, NextLineRequest DEF NextOf
<1>3. NextOf(p).half = 0 /\ NextOf(p).flow = p.flow /\ NextOf(p).cmd = p.cmd
  BY DEF NextOf, Request
<1> QED BY <1>1, <1>2, <1>3

LEMMA NextLineBecomes ==
  ASSUME TypeOK, NEW c \in Cubes, NEW l \in Links, NEW i \in DOMAIN downBuffers[c][l],
         NEW p \in Request, NextLine(c, l, i, p)
  PROVE  Becomes(c, l, i, IF p.lines = 1 THEN {} ELSE {NextOf(p)})
<1>1. CASE p.lines = 1
  BY <1>1 DEF NextLine, Becomes
<1>2. CASE p.lines # 1
  BY <1>2, NextFields DEF NextLine, NextOf, Becomes
<1> QED BY <1>1, <1>2

LEMMA VaultHeld ==
  ASSUME TypeOK, NEW c \in Cubes, NEW r, NEW R
  PROVE  /\ vault' = [vault EXCEPT ![c] = @ \cup {r}] =>
              /\ \A x \in Cubes : x # c => vault'[x] = vault[x]
              /\ r \notin R => Kept(Part(vault[c], R), Part(vault'[c], R))
              /\ r \in R => Gains(Part(vault[c], R), Part(vault'[c], R))
         /\ vault' = [vault EXCEPT ![c] = @ \ {r}] /\ r \in vault[c] =>
              /\ \A x \in Cubes : x # c => vault'[x] = vault[x]
              /\ r \notin R => Kept(Part(vault[c], R), Part(vault'[c], R))
              /\ r \in R => Loses(Part(vault[c], R), Part(vault'[c], R))
<1>1. vault \in [Cubes -> SUBSET Response]
  BY DEF TypeOK
<1> QED BY <1>1 DEF Kept, Gains, Loses, Few, One, Part

LEMMA SetHeld ==
  ASSUME NEW rq, NEW r, NEW R
  PROVE  /\ r \notin R => Kept(Part(rq, R), Part(rq \cup {r}, R))
         /\ r \in R => Gains(Part(rq, R), Part(rq \cup {r}, R))
         /\ r \notin R => Kept(Part(rq, R), Part(rq \ {r}, R))
         /\ r \in rq /\ r \in R => Loses(Part(rq, R), Part(rq \ {r}, R))
BY DEF Kept, Gains, Loses, Few, One, Part

Raised(ups, c, n, r) == [ups EXCEPT ![c][n] = @ \cup {r}]

LEMMA UpHeld ==
  ASSUME NEW ups \in [Cubes -> [Ports -> SUBSET Response]], NEW ups2,
         NEW c \in Cubes, NEW n \in Ports, NEW r, NEW R
  PROVE  /\ ups2 = Raised(ups, c, n, r) =>
              /\ \A x \in Cubes, y \in Ports : ~(x = c /\ y = n) => ups2[x][y] = ups[x][y]
              /\ r \notin R => Kept(Part(ups[c][n], R), Part(ups2[c][n], R))
              /\ r \in R => Gains(Part(ups[c][n], R), Part(ups2[c][n], R))
         /\ ups2 = [ups EXCEPT ![c][n] = @ \ {r}] /\ r \in ups[c][n] =>
              /\ \A x \in Cubes, y \in Ports : ~(x = c /\ y = n) => ups2[x][y] = ups[x][y]
              /\ r \notin R => Kept(Part(ups[c][n], R), Part(ups2[c][n], R))
              /\ r \in R => Loses(Part(ups[c][n], R), Part(ups2[c][n], R))
<1>1. ASSUME ups2 = Raised(ups, c, n, r)
      PROVE  /\ \A x \in Cubes, y \in Ports : ~(x = c /\ y = n) => ups2[x][y] = ups[x][y]
             /\ ups2[c][n] = ups[c][n] \cup {r}
  BY <1>1 DEF Raised
<1>2. ASSUME ups2 = [ups EXCEPT ![c][n] = @ \ {r}]
      PROVE  /\ \A x \in Cubes, y \in Ports : ~(x = c /\ y = n) => ups2[x][y] = ups[x][y]
             /\ ups2[c][n] = ups[c][n] \ {r}
  BY <1>2
<1> QED BY <1>1, <1>2, SetHeld

-----------------------------------------------------------------------------
(***************************************************************************)
(* What a step does to all the places.                                     *)
(***************************************************************************)
OneAtMost(Q, R) == Unique(Places, Held(Q, R))
There(Q, R)     == Somewhere(Places, Held(Q, R))

Stays(Q, R)   == OneAtMost(Q, R)' /\ (There(Q, R)' <=> There(Q, R))
Moves(Q, R)   == OneAtMost(Q, R)' /\ There(Q, R)' /\ There(Q, R)
Goes(Q, R)    == OneAtMost(Q, R)' /\ ~There(Q, R)' /\ There(Q, R)

LEMMA SameKept ==
  ASSUME NEW S
  PROVE  Kept(S, S)
BY DEF Kept

LEMMA TwoHeld ==
  ASSUME NEW Q, NEW R, OneAtMost(Q, R), NEW a \in Places, NEW b \in Places, a # b,
         \A y \in Places \ {a, b} : Kept(Held(Q, R)[y], Held(Q, R)'[y])
  PROVE  LET KA == Kept(Held(Q, R)[a], Held(Q, R)'[a])
             KB == Kept(Held(Q, R)[b], Held(Q, R)'[b])
             LA == Loses(Held(Q, R)[a], Held(Q, R)'[a])
             GA == Gains(Held(Q, R)[a], Held(Q, R)'[a])
             GB == Gains(Held(Q, R)[b], Held(Q, R)'[b])
         IN  /\ KA /\ KB => Stays(Q, R)
             /\ LA /\ GB => Moves(Q, R)
             /\ LA /\ KB => Goes(Q, R)
             /\ KA /\ GB /\ ~There(Q, R) => OneAtMost(Q, R)' /\ There(Q, R)'
             /\ GA /\ KB /\ ~There(Q, R) => OneAtMost(Q, R)' /\ There(Q, R)'
<1> DEFINE I == Held(Q, R)
           J == Held(Q, R)'
<1>1. /\ Unique(Places, I) /\ (There(Q, R) <=> Somewhere(Places, I))
      /\ OneAtMost(Q, R)' <=> Unique(Places, J)
      /\ There(Q, R)' <=> Somewhere(Places, J)
  BY DEF OneAtMost, There
<1> HIDE DEF I, J
<1>2. /\ Kept(I[a], J[a]) /\ Kept(I[b], J[b])
           => Unique(Places, J) /\ (Somewhere(Places, J) <=> Somewhere(Places, I))
      /\ Loses(I[a], J[a]) /\ Gains(I[b], J[b])
           => Unique(Places, J) /\ Somewhere(Places, J) /\ Somewhere(Places, I)
      /\ Loses(I[a], J[a]) /\ Kept(I[b], J[b])
           => Unique(Places, J) /\ ~Somewhere(Places, J) /\ Somewhere(Places, I)
      /\ Kept(I[a], J[a]) /\ Gains(I[b], J[b]) /\ ~Somewhere(Places, I)
           => Unique(Places, J) /\ Somewhere(Places, J)
      /\ Gains(I[a], J[a]) /\ Kept(I[b], J[b]) /\ ~Somewhere(Places, I)
           => Unique(Places, J) /\ Somewhere(Places, J)
  <2>1. \A y \in Places \ {a, b} : Kept(I[y], J[y])
    BY DEF I, J
  <2> QED BY <1>1, <2>1, TwoPlaces
<1> QED BY <1>1, <1>2 DEF I, J, Stays, Moves, Goes

LEMMA LinkPlace ==
  ASSUME NEW Q, NEW R, NEW x \in Cubes, NEW n \in Links
  PROVE  /\ <<"link", x, n>> \in Places
         /\ Held(Q, R)[<<"link", x, n>>] = Pos(link[x][n], Q[x])
         /\ Held(Q, R)'[<<"link", x, n>>] = Pos(link'[x][n], Q[x])
<1> DEFINE y == <<"link", x, n>>
<1>1. y \in Places /\ y[1] = "link" /\ y[2] = x /\ y[3] = n
  BY DEF Places, Ports
<1> HIDE DEF y
<1>2. /\ Held(Q, R)[y] = Pos(link[x][n], Q[x])
      /\ Held(Q, R)'[y] = Pos(link'[x][n], Q[x])
  BY <1>1 DEF Held, HeldIn
<1> QED BY <1>1, <1>2 DEF y

LEMMA DownPlace ==
  ASSUME NEW Q, NEW R, NEW x \in Cubes, NEW n \in Links
  PROVE  /\ <<"down", x, n>> \in Places
         /\ Held(Q, R)[<<"down", x, n>>] = Pos(downBuffers[x][n], Q[x])
         /\ Held(Q, R)'[<<"down", x, n>>] = Pos(downBuffers'[x][n], Q[x])
<1> DEFINE y == <<"down", x, n>>
<1>1. y \in Places /\ y[1] = "down" /\ y[2] = x /\ y[3] = n
  BY DEF Places, Ports
<1> HIDE DEF y
<1>2. /\ Held(Q, R)[y] = Pos(downBuffers[x][n], Q[x])
      /\ Held(Q, R)'[y] = Pos(downBuffers'[x][n], Q[x])
  BY <1>1 DEF Held, HeldIn
<1> QED BY <1>1, <1>2 DEF y

LEMMA VaultPlace ==
  ASSUME NEW Q, NEW R, NEW x \in Cubes
  PROVE  /\ <<"vault", x, VaultPort>> \in Places
         /\ Held(Q, R)[<<"vault", x, VaultPort>>] = Part(vault[x], R)
         /\ Held(Q, R)'[<<"vault", x, VaultPort>>] = Part(vault'[x], R)
<1> DEFINE y == <<"vault", x, VaultPort>>
<1>1. y \in Places /\ y[1] = "vault" /\ y[2] = x /\ y[3] = VaultPort
  BY DEF Places, Ports
<1> HIDE DEF y
<1>2. /\ Held(Q, R)[y] = Part(vault[x], R)
      /\ Held(Q, R)'[y] = Part(vault'[x], R)
  BY <1>1 DEF Held, HeldIn
<1> QED BY <1>1, <1>2 DEF y

LEMMA UpPlace ==
  ASSUME NEW Q, NEW R, NEW x \in Cubes, NEW n \in Ports
  PROVE  /\ <<"up", x, n>> \in Places
         /\ Held(Q, R)[<<"up", x, n>>] = Part(upBuffers[x][n], R)
         /\ Held(Q, R)'[<<"up", x, n>>] = Part(upBuffers'[x][n], R)
<1> DEFINE y == <<"up", x, n>>
<1>1. y \in Places /\ y[1] = "up" /\ y[2] = x /\ y[3] = n
  BY DEF Places, Ports
<1> HIDE DEF y
<1>2. /\ Held(Q, R)[y] = Part(upBuffers[x][n], R)
      /\ Held(Q, R)'[y] = Part(upBuffers'[x][n], R)
  BY <1>1 DEF Held, HeldIn
<1> QED BY <1>1, <1>2 DEF y

LEMMA HostValue ==
  ASSUME NEW Q, NEW R
  PROVE  /\ HostPlace \in Places
         /\ Held(Q, R)[HostPlace] = Part(responseQ, R)
         /\ Held(Q, R)'[HostPlace] = Part(responseQ', R)
<1>1. HostPlace \in Places /\ HostPlace[1] = "host"
  BY DEF Places, HostPlace
<1> QED BY <1>1 DEF Held, HeldIn

(* A packet goes from an input buffer to a link, or makes one there.       *)
LEMMA PassDown ==
  ASSUME TypeOK, NEW Q, NEW R, OneAtMost(Q, R),
         NEW c \in Cubes, NEW l \in Links, NEW i \in DOMAIN downBuffers[c][l],
         NEW K, Becomes(c, l, i, K),
         NEW d \in Cubes, NEW q \in Links, NEW e \in Request,
         link' = [link EXCEPT ![d][q] = Append(@, e)],
         UNCHANGED <<upBuffers, vault, responseQ>>
  PROVE  LET p == downBuffers[c][l][i]
         IN  /\ p \notin Q[c] /\ K \cap Q[c] = {} /\ e \notin Q[d] => Stays(Q, R)
             /\ p \in Q[c] /\ K \cap Q[c] = {} /\ e \in Q[d] => Moves(Q, R)
             /\ p \notin Q[c] /\ K \cap Q[c] = {} /\ e \in Q[d] /\ ~There(Q, R)
                  => OneAtMost(Q, R)' /\ There(Q, R)'
             /\ p \notin Q[c] /\ K \cap Q[c] # {} /\ e \notin Q[d] /\ ~There(Q, R)
                  => OneAtMost(Q, R)' /\ There(Q, R)'
<1> DEFINE a == <<"down", c, l>>  b == <<"link", d, q>>
           p == downBuffers[c][l][i]
<1>1. /\ \A x \in Cubes, n \in Links : ~(x = c /\ n = l) => downBuffers'[x][n] = downBuffers[x][n]
      /\ p \notin Q[c] /\ K \cap Q[c] = {} => Kept(Pos(downBuffers[c][l], Q[c]), Pos(downBuffers'[c][l], Q[c]))
      /\ p \in Q[c] /\ K \cap Q[c] = {} => Loses(Pos(downBuffers[c][l], Q[c]), Pos(downBuffers'[c][l], Q[c]))
      /\ p \notin Q[c] /\ K \cap Q[c] # {} => Gains(Pos(downBuffers[c][l], Q[c]), Pos(downBuffers'[c][l], Q[c]))
  BY BecomesHeld
<1>2. /\ \A x \in Cubes, n \in Links : ~(x = d /\ n = q) => link'[x][n] = link[x][n]
      /\ e \notin Q[d] => Kept(Pos(link[d][q], Q[d]), Pos(link'[d][q], Q[d]))
      /\ e \in Q[d] => Gains(Pos(link[d][q], Q[d]), Pos(link'[d][q], Q[d]))
  BY LinkAppendHeld
<1>3. /\ a \in Places /\ b \in Places /\ a # b
      /\ Held(Q, R)[a] = Pos(downBuffers[c][l], Q[c]) /\ Held(Q, R)'[a] = Pos(downBuffers'[c][l], Q[c])
      /\ Held(Q, R)[b] = Pos(link[d][q], Q[d]) /\ Held(Q, R)'[b] = Pos(link'[d][q], Q[d])
  <2>1. a # b
    OBVIOUS
  <2>2. /\ a \in Places
        /\ Held(Q, R)[a] = Pos(downBuffers[c][l], Q[c]) /\ Held(Q, R)'[a] = Pos(downBuffers'[c][l], Q[c])
    BY DownPlace
  <2>3. /\ b \in Places
        /\ Held(Q, R)[b] = Pos(link[d][q], Q[d]) /\ Held(Q, R)'[b] = Pos(link'[d][q], Q[d])
    BY LinkPlace
  <2> QED BY <2>1, <2>2, <2>3
<1>4. \A y \in Places \ {a, b} : Kept(Held(Q, R)[y], Held(Q, R)'[y])
  <2>1. \A x \in Cubes, n \in Links :
          <<"link", x, n>> \notin {a, b} => Kept(Pos(link[x][n], Q[x]), Pos(link'[x][n], Q[x]))
    BY <1>2, SameKept
  <2>2. \A x \in Cubes, n \in Links :
          <<"down", x, n>> \notin {a, b} => Kept(Pos(downBuffers[x][n], Q[x]), Pos(downBuffers'[x][n], Q[x]))
    BY <1>1, SameKept
  <2>3. /\ \A x \in Cubes : Kept(Part(vault[x], R), Part(vault'[x], R))
        /\ \A x \in Cubes, n \in Ports : Kept(Part(upBuffers[x][n], R), Part(upBuffers'[x][n], R))
        /\ Kept(Part(responseQ, R), Part(responseQ', R))
    BY SameKept
  <2> HIDE DEF a, b
  <2> QED BY <2>1, <2>2, <2>3, HeldKept DEF Held
<1> HIDE DEF a, b, p
<1>5. /\ Kept(Held(Q, R)[a], Held(Q, R)'[a]) /\ Kept(Held(Q, R)[b], Held(Q, R)'[b]) => Stays(Q, R)
      /\ Loses(Held(Q, R)[a], Held(Q, R)'[a]) /\ Gains(Held(Q, R)[b], Held(Q, R)'[b]) => Moves(Q, R)
      /\ Kept(Held(Q, R)[a], Held(Q, R)'[a]) /\ Gains(Held(Q, R)[b], Held(Q, R)'[b]) /\ ~There(Q, R)
           => OneAtMost(Q, R)' /\ There(Q, R)'
      /\ Gains(Held(Q, R)[a], Held(Q, R)'[a]) /\ Kept(Held(Q, R)[b], Held(Q, R)'[b]) /\ ~There(Q, R)
           => OneAtMost(Q, R)' /\ There(Q, R)'
  BY <1>3, <1>4, TwoHeld
<1> QED BY <1>1, <1>2, <1>3, <1>5 DEF p

(* The oldest packet of a link goes to the input buffer.                   *)
LEMMA PassIn ==
  ASSUME TypeOK, NEW Q, NEW R, OneAtMost(Q, R), NEW c \in Cubes, NEW l \in Links, Deliver(c, l)
  PROVE  /\ Head(link[c][l]) \notin Q[c] => Stays(Q, R)
         /\ Head(link[c][l]) \in Q[c] => Moves(Q, R)
<1> DEFINE a == <<"link", c, l>>
           b == <<"down", c, l>>
<1>0. Head(link[c][l]) \in Request /\ UNCHANGED <<upBuffers, vault, responseQ>>
  BY HeadTailType DEF Deliver, TypeOK
<1>1. /\ \A x \in Cubes, n \in Links : ~(x = c /\ n = l) => link'[x][n] = link[x][n]
      /\ Head(link[c][l]) \notin Q[c] => Kept(Pos(link[c][l], Q[c]), Pos(link'[c][l], Q[c]))
      /\ Head(link[c][l]) \in Q[c] => Loses(Pos(link[c][l], Q[c]), Pos(link'[c][l], Q[c]))
  BY LinkTailHeld DEF Deliver
<1>2. /\ \A x \in Cubes, n \in Links : ~(x = c /\ n = l) => downBuffers'[x][n] = downBuffers[x][n]
      /\ Head(link[c][l]) \notin Q[c] => Kept(Pos(downBuffers[c][l], Q[c]), Pos(downBuffers'[c][l], Q[c]))
      /\ Head(link[c][l]) \in Q[c] => Gains(Pos(downBuffers[c][l], Q[c]), Pos(downBuffers'[c][l], Q[c]))
  BY <1>0, DownAppendHeld DEF Deliver
<1>3. a # b
  OBVIOUS
<1>4. /\ a \in Places
      /\ Held(Q, R)[a] = Pos(link[c][l], Q[c]) /\ Held(Q, R)'[a] = Pos(link'[c][l], Q[c])
  BY LinkPlace
<1>5. /\ b \in Places
      /\ Held(Q, R)[b] = Pos(downBuffers[c][l], Q[c]) /\ Held(Q, R)'[b] = Pos(downBuffers'[c][l], Q[c])
  BY DownPlace
<1>6. \A y \in Places \ {a, b} : Kept(Held(Q, R)[y], Held(Q, R)'[y])
  <2>1. \A x \in Cubes, n \in Links :
          <<"link", x, n>> \notin {a, b} => Kept(Pos(link[x][n], Q[x]), Pos(link'[x][n], Q[x]))
    BY <1>1, SameKept
  <2>2. \A x \in Cubes, n \in Links :
          <<"down", x, n>> \notin {a, b} => Kept(Pos(downBuffers[x][n], Q[x]), Pos(downBuffers'[x][n], Q[x]))
    BY <1>2, SameKept
  <2>3. \A x \in Cubes :
          <<"vault", x, VaultPort>> \notin {a, b} => Kept(Part(vault[x], R), Part(vault'[x], R))
    BY <1>0, SameKept
  <2>4. \A x \in Cubes, n \in Ports :
          <<"up", x, n>> \notin {a, b} => Kept(Part(upBuffers[x][n], R), Part(upBuffers'[x][n], R))
    BY <1>0, SameKept
  <2>5. HostPlace \notin {a, b} => Kept(Part(responseQ, R), Part(responseQ', R))
    BY <1>0, SameKept
  <2> HIDE DEF a, b
  <2> QED BY <2>1, <2>2, <2>3, <2>4, <2>5, HeldKept DEF Held
<1> HIDE DEF a, b
<1>7. /\ Kept(Held(Q, R)[a], Held(Q, R)'[a]) /\ Kept(Held(Q, R)[b], Held(Q, R)'[b])
           => Stays(Q, R)
      /\ Loses(Held(Q, R)[a], Held(Q, R)'[a]) /\ Gains(Held(Q, R)[b], Held(Q, R)'[b])
           => Moves(Q, R)
  BY <1>3, <1>4, <1>5, <1>6, TwoHeld
<1> QED BY <1>1, <1>2, <1>4, <1>5, <1>7

(* A packet goes from an input buffer to the vaults, or makes a read there. *)
LEMMA PassVault ==
  ASSUME TypeOK, NEW Q, NEW R, OneAtMost(Q, R), 
         NEW c \in Cubes, NEW l \in Links, NEW i \in DOMAIN downBuffers[c][l],
         NEW K, Becomes(c, l, i, K), NEW r, VaultAccepts(c, r),
         UNCHANGED <<link, upBuffers, responseQ>>
  PROVE  LET p == downBuffers[c][l][i]
         IN  /\ p \notin Q[c] /\ K \cap Q[c] = {} /\ r \notin R => Stays(Q, R)
             /\ p \in Q[c] /\ K \cap Q[c] = {} /\ r \in R => Moves(Q, R)
             /\ p \notin Q[c] /\ K \cap Q[c] = {} /\ r \in R /\ ~There(Q, R)
                  => OneAtMost(Q, R)' /\ There(Q, R)'
             /\ p \notin Q[c] /\ K \cap Q[c] # {} /\ r \notin R /\ ~There(Q, R)
                  => OneAtMost(Q, R)' /\ There(Q, R)'
<1> DEFINE a == <<"down", c, l>>
           b == <<"vault", c, VaultPort>>
<1> DEFINE p == downBuffers[c][l][i]
<1>1. /\ \A x \in Cubes, n \in Links : ~(x = c /\ n = l) => downBuffers'[x][n] = downBuffers[x][n]
      /\ p \notin Q[c] /\ K \cap Q[c] = {} => Kept(Pos(downBuffers[c][l], Q[c]), Pos(downBuffers'[c][l], Q[c]))
      /\ p \in Q[c] /\ K \cap Q[c] = {} => Loses(Pos(downBuffers[c][l], Q[c]), Pos(downBuffers'[c][l], Q[c]))
      /\ p \notin Q[c] /\ K \cap Q[c] # {} => Gains(Pos(downBuffers[c][l], Q[c]), Pos(downBuffers'[c][l], Q[c]))
  BY BecomesHeld
<1>2. /\ \A x \in Cubes : x # c => vault'[x] = vault[x]
      /\ r \notin R => Kept(Part(vault[c], R), Part(vault'[c], R))
      /\ r \in R => Gains(Part(vault[c], R), Part(vault'[c], R))
  BY VaultHeld DEF VaultAccepts
<1>3. a # b
  OBVIOUS
<1>4. /\ a \in Places
      /\ Held(Q, R)[a] = Pos(downBuffers[c][l], Q[c]) /\ Held(Q, R)'[a] = Pos(downBuffers'[c][l], Q[c])
  BY DownPlace
<1>5. /\ b \in Places
      /\ Held(Q, R)[b] = Part(vault[c], R) /\ Held(Q, R)'[b] = Part(vault'[c], R)
  BY VaultPlace
<1>6. \A y \in Places \ {a, b} : Kept(Held(Q, R)[y], Held(Q, R)'[y])
  <2>1. \A x \in Cubes, n \in Links :
          <<"link", x, n>> \notin {a, b} => Kept(Pos(link[x][n], Q[x]), Pos(link'[x][n], Q[x]))
    BY SameKept
  <2>2. \A x \in Cubes, n \in Links :
          <<"down", x, n>> \notin {a, b} => Kept(Pos(downBuffers[x][n], Q[x]), Pos(downBuffers'[x][n], Q[x]))
    BY <1>1, SameKept
  <2>3. \A x \in Cubes :
          <<"vault", x, VaultPort>> \notin {a, b} => Kept(Part(vault[x], R), Part(vault'[x], R))
    BY <1>2, SameKept
  <2>4. \A x \in Cubes, n \in Ports :
          <<"up", x, n>> \notin {a, b} => Kept(Part(upBuffers[x][n], R), Part(upBuffers'[x][n], R))
    BY SameKept
  <2>5. HostPlace \notin {a, b} => Kept(Part(responseQ, R), Part(responseQ', R))
    BY SameKept
  <2> HIDE DEF a, b
  <2> QED BY <2>1, <2>2, <2>3, <2>4, <2>5, HeldKept DEF Held
<1> HIDE DEF a, b
<1>7. /\ Kept(Held(Q, R)[a], Held(Q, R)'[a]) /\ Kept(Held(Q, R)[b], Held(Q, R)'[b])
           => Stays(Q, R)
      /\ Loses(Held(Q, R)[a], Held(Q, R)'[a]) /\ Gains(Held(Q, R)[b], Held(Q, R)'[b])
           => Moves(Q, R)
      /\ Kept(Held(Q, R)[a], Held(Q, R)'[a]) /\ Gains(Held(Q, R)[b], Held(Q, R)'[b]) /\ ~There(Q, R)
           => OneAtMost(Q, R)' /\ There(Q, R)'
      /\ Gains(Held(Q, R)[a], Held(Q, R)'[a]) /\ Kept(Held(Q, R)[b], Held(Q, R)'[b]) /\ ~There(Q, R)
           => OneAtMost(Q, R)' /\ There(Q, R)'
  BY <1>3, <1>4, <1>5, <1>6, TwoHeld
<1> QED BY <1>1, <1>2, <1>4, <1>5, <1>7

(* A read leaves the vaults as a response.                                 *)
LEMMA PassOut ==
  ASSUME TypeOK, NEW Q, NEW R, OneAtMost(Q, R), 
         NEW c \in Cubes, NEW r \in vault[c],
         vault' = [vault EXCEPT ![c] = @ \ {r}],
         upBuffers' = Raised(upBuffers, c, VaultPort, r),
         UNCHANGED <<link, downBuffers, responseQ>>
  PROVE  /\ r \notin R => Stays(Q, R)
         /\ r \in R => Moves(Q, R)
<1> DEFINE a == <<"vault", c, VaultPort>>
           b == <<"up", c, VaultPort>>
<1>0. upBuffers \in [Cubes -> [Ports -> SUBSET Response]] /\ VaultPort \in Ports
  BY DEF TypeOK, Ports
<1>1. /\ \A x \in Cubes : x # c => vault'[x] = vault[x]
      /\ r \notin R => Kept(Part(vault[c], R), Part(vault'[c], R))
      /\ r \in R => Loses(Part(vault[c], R), Part(vault'[c], R))
  BY VaultHeld
<1>2. /\ \A x \in Cubes, n \in Ports : ~(x = c /\ n = VaultPort) => upBuffers'[x][n] = upBuffers[x][n]
      /\ r \notin R => Kept(Part(upBuffers[c][VaultPort], R), Part(upBuffers'[c][VaultPort], R))
      /\ r \in R => Gains(Part(upBuffers[c][VaultPort], R), Part(upBuffers'[c][VaultPort], R))
  BY <1>0, UpHeld
<1>3. a # b
  OBVIOUS
<1>4. /\ a \in Places
      /\ Held(Q, R)[a] = Part(vault[c], R) /\ Held(Q, R)'[a] = Part(vault'[c], R)
  BY VaultPlace
<1>5. /\ b \in Places
      /\ Held(Q, R)[b] = Part(upBuffers[c][VaultPort], R) /\ Held(Q, R)'[b] = Part(upBuffers'[c][VaultPort], R)
  <2>1. VaultPort \in Ports
    BY <1>0
  <2>2. /\ <<"up", c, VaultPort>> \in Places
        /\ Held(Q, R)[<<"up", c, VaultPort>>] = Part(upBuffers[c][VaultPort], R)
    BY <2>1, UpPlace
  <2>3. Held(Q, R)'[<<"up", c, VaultPort>>] = Part(upBuffers'[c][VaultPort], R)
    BY <2>1, UpPlace, ZenonT(60)
  <2> QED BY <2>2, <2>3
<1>6. \A y \in Places \ {a, b} : Kept(Held(Q, R)[y], Held(Q, R)'[y])
  <2>1. \A x \in Cubes, n \in Links :
          <<"link", x, n>> \notin {a, b} => Kept(Pos(link[x][n], Q[x]), Pos(link'[x][n], Q[x]))
    BY SameKept
  <2>2. \A x \in Cubes, n \in Links :
          <<"down", x, n>> \notin {a, b} => Kept(Pos(downBuffers[x][n], Q[x]), Pos(downBuffers'[x][n], Q[x]))
    BY SameKept
  <2>3. \A x \in Cubes :
          <<"vault", x, VaultPort>> \notin {a, b} => Kept(Part(vault[x], R), Part(vault'[x], R))
    BY <1>1, SameKept
  <2>4. \A x \in Cubes, n \in Ports :
          <<"up", x, n>> \notin {a, b} => Kept(Part(upBuffers[x][n], R), Part(upBuffers'[x][n], R))
    BY <1>2, SameKept
  <2>5. HostPlace \notin {a, b} => Kept(Part(responseQ, R), Part(responseQ', R))
    BY SameKept
  <2> HIDE DEF a, b
  <2> QED BY <2>1, <2>2, <2>3, <2>4, <2>5, HeldKept DEF Held
<1> HIDE DEF a, b
<1>7. /\ Kept(Held(Q, R)[a], Held(Q, R)'[a]) /\ Kept(Held(Q, R)[b], Held(Q, R)'[b])
           => Stays(Q, R)
      /\ Loses(Held(Q, R)[a], Held(Q, R)'[a]) /\ Gains(Held(Q, R)[b], Held(Q, R)'[b])
           => Moves(Q, R)
  BY <1>3, <1>4, <1>5, <1>6, TwoHeld
<1> QED BY <1>1, <1>2, <1>4, <1>5, <1>7

(* A response goes to the next cube.                                       *)
PassedUp(c, m, d, q, r) == upBuffers' = [Dropped(c, m, r) EXCEPT ![d][q] = @ \cup {r}]

LEMMA PassUp ==
  ASSUME TypeOK, NEW Q, NEW R, OneAtMost(Q, R), 
         NEW c \in Cubes, NEW m \in Ports, NEW r \in upBuffers[c][m],
         NEW d \in Cubes, NEW q \in Ports, d # c,
         PassedUp(c, m, d, q, r),
         UNCHANGED <<link, downBuffers, vault, responseQ>>
  PROVE  /\ r \notin R => Stays(Q, R)
         /\ r \in R => Moves(Q, R)
<1> DEFINE a == <<"up", c, m>>
           b == <<"up", d, q>>
<1>0. /\ \A x \in Cubes, n \in Ports : ~(x = c /\ n = m) /\ ~(x = d /\ n = q) => upBuffers'[x][n] = upBuffers[x][n]
      /\ upBuffers'[c][m] = upBuffers[c][m] \ {r}
      /\ upBuffers'[d][q] = upBuffers[d][q] \cup {r}
  BY DEF PassedUp, Dropped, TypeOK
<1>1. /\ \A x \in Cubes, n \in Ports : ~(x = c /\ n = m) /\ ~(x = d /\ n = q) => upBuffers'[x][n] = upBuffers[x][n]
      /\ r \notin R => Kept(Part(upBuffers[c][m], R), Part(upBuffers'[c][m], R))
      /\ r \in R => Loses(Part(upBuffers[c][m], R), Part(upBuffers'[c][m], R))
  BY <1>0, SetHeld
<1>2. /\ r \notin R => Kept(Part(upBuffers[d][q], R), Part(upBuffers'[d][q], R))
      /\ r \in R => Gains(Part(upBuffers[d][q], R), Part(upBuffers'[d][q], R))
  BY <1>0, SetHeld
<1>3. a # b
  OBVIOUS
<1>4. /\ a \in Places
      /\ Held(Q, R)[a] = Part(upBuffers[c][m], R) /\ Held(Q, R)'[a] = Part(upBuffers'[c][m], R)
  BY UpPlace
<1>5. /\ b \in Places
      /\ Held(Q, R)[b] = Part(upBuffers[d][q], R) /\ Held(Q, R)'[b] = Part(upBuffers'[d][q], R)
  BY UpPlace
<1>6. \A y \in Places \ {a, b} : Kept(Held(Q, R)[y], Held(Q, R)'[y])
  <2>1. \A x \in Cubes, n \in Links :
          <<"link", x, n>> \notin {a, b} => Kept(Pos(link[x][n], Q[x]), Pos(link'[x][n], Q[x]))
    BY SameKept
  <2>2. \A x \in Cubes, n \in Links :
          <<"down", x, n>> \notin {a, b} => Kept(Pos(downBuffers[x][n], Q[x]), Pos(downBuffers'[x][n], Q[x]))
    BY SameKept
  <2>3. \A x \in Cubes :
          <<"vault", x, VaultPort>> \notin {a, b} => Kept(Part(vault[x], R), Part(vault'[x], R))
    BY SameKept
  <2>4. \A x \in Cubes, n \in Ports :
          <<"up", x, n>> \notin {a, b} => Kept(Part(upBuffers[x][n], R), Part(upBuffers'[x][n], R))
    BY <1>1, <1>2, SameKept
  <2>5. HostPlace \notin {a, b} => Kept(Part(responseQ, R), Part(responseQ', R))
    BY SameKept
  <2> HIDE DEF a, b
  <2> QED BY <2>1, <2>2, <2>3, <2>4, <2>5, HeldKept DEF Held
<1> HIDE DEF a, b
<1>7. /\ Kept(Held(Q, R)[a], Held(Q, R)'[a]) /\ Kept(Held(Q, R)[b], Held(Q, R)'[b])
           => Stays(Q, R)
      /\ Loses(Held(Q, R)[a], Held(Q, R)'[a]) /\ Gains(Held(Q, R)[b], Held(Q, R)'[b])
           => Moves(Q, R)
  BY <1>3, <1>4, <1>5, <1>6, TwoHeld
<1> QED BY <1>1, <1>2, <1>4, <1>5, <1>7

(* A response reaches its host.                                            *)
LEMMA PassHost ==
  ASSUME TypeOK, NEW Q, NEW R, OneAtMost(Q, R), 
         NEW c \in Cubes, NEW m \in Ports, NEW r \in upBuffers[c][m],
         upBuffers' = Dropped(c, m, r), responseQ' = responseQ \cup {r},
         UNCHANGED <<link, downBuffers, vault>>
  PROVE  /\ r \notin R => Stays(Q, R)
         /\ r \in R => Moves(Q, R)
<1> DEFINE a == <<"up", c, m>>
           b == HostPlace
<1>0. upBuffers \in [Cubes -> [Ports -> SUBSET Response]]
  BY DEF TypeOK
<1>1. /\ \A x \in Cubes, n \in Ports : ~(x = c /\ n = m) => upBuffers'[x][n] = upBuffers[x][n]
      /\ r \notin R => Kept(Part(upBuffers[c][m], R), Part(upBuffers'[c][m], R))
      /\ r \in R => Loses(Part(upBuffers[c][m], R), Part(upBuffers'[c][m], R))
  BY <1>0, UpHeld DEF Dropped
<1>2. /\ r \notin R => Kept(Part(responseQ, R), Part(responseQ', R))
      /\ r \in R => Gains(Part(responseQ, R), Part(responseQ', R))
  BY SetHeld
<1>3. a # b
  BY DEF HostPlace
<1>4. /\ a \in Places
      /\ Held(Q, R)[a] = Part(upBuffers[c][m], R) /\ Held(Q, R)'[a] = Part(upBuffers'[c][m], R)
  BY UpPlace
<1>5. /\ b \in Places
      /\ Held(Q, R)[b] = Part(responseQ, R) /\ Held(Q, R)'[b] = Part(responseQ', R)
  BY HostValue
<1>6. \A y \in Places \ {a, b} : Kept(Held(Q, R)[y], Held(Q, R)'[y])
  <2>1. \A x \in Cubes, n \in Links :
          <<"link", x, n>> \notin {a, b} => Kept(Pos(link[x][n], Q[x]), Pos(link'[x][n], Q[x]))
    BY SameKept
  <2>2. \A x \in Cubes, n \in Links :
          <<"down", x, n>> \notin {a, b} => Kept(Pos(downBuffers[x][n], Q[x]), Pos(downBuffers'[x][n], Q[x]))
    BY SameKept
  <2>3. \A x \in Cubes :
          <<"vault", x, VaultPort>> \notin {a, b} => Kept(Part(vault[x], R), Part(vault'[x], R))
    BY SameKept
  <2>4. \A x \in Cubes, n \in Ports :
          <<"up", x, n>> \notin {a, b} => Kept(Part(upBuffers[x][n], R), Part(upBuffers'[x][n], R))
    BY <1>1, SameKept
  <2>5. HostPlace \notin {a, b} => Kept(Part(responseQ, R), Part(responseQ', R))
    BY <1>2, SameKept
  <2> HIDE DEF a, b
  <2> QED BY <2>1, <2>2, <2>3, <2>4, <2>5, HeldKept DEF Held
<1> HIDE DEF a, b
<1>7. /\ Kept(Held(Q, R)[a], Held(Q, R)'[a]) /\ Kept(Held(Q, R)[b], Held(Q, R)'[b])
           => Stays(Q, R)
      /\ Loses(Held(Q, R)[a], Held(Q, R)'[a]) /\ Gains(Held(Q, R)[b], Held(Q, R)'[b])
           => Moves(Q, R)
  BY <1>3, <1>4, <1>5, <1>6, TwoHeld
<1> QED BY <1>1, <1>2, <1>4, <1>5, <1>7

(* A response is consumed.                                                 *)
LEMMA DropUp ==
  ASSUME TypeOK, NEW Q, NEW R, OneAtMost(Q, R), 
         NEW c \in Cubes, NEW m \in Ports, NEW r \in upBuffers[c][m],
         upBuffers' = Dropped(c, m, r),
         UNCHANGED <<link, downBuffers, vault, responseQ>>
  PROVE  /\ r \notin R => Stays(Q, R)
         /\ r \in R => Goes(Q, R)
<1> DEFINE a == <<"up", c, m>>
           b == HostPlace
<1>0. upBuffers \in [Cubes -> [Ports -> SUBSET Response]]
  BY DEF TypeOK
<1>1. /\ \A x \in Cubes, n \in Ports : ~(x = c /\ n = m) => upBuffers'[x][n] = upBuffers[x][n]
      /\ r \notin R => Kept(Part(upBuffers[c][m], R), Part(upBuffers'[c][m], R))
      /\ r \in R => Loses(Part(upBuffers[c][m], R), Part(upBuffers'[c][m], R))
  BY <1>0, UpHeld DEF Dropped
<1>2. /\ Kept(Part(responseQ, R), Part(responseQ', R))
  BY SameKept
<1>3. a # b
  BY DEF HostPlace
<1>4. /\ a \in Places
      /\ Held(Q, R)[a] = Part(upBuffers[c][m], R) /\ Held(Q, R)'[a] = Part(upBuffers'[c][m], R)
  BY UpPlace
<1>5. /\ b \in Places
      /\ Held(Q, R)[b] = Part(responseQ, R) /\ Held(Q, R)'[b] = Part(responseQ', R)
  BY HostValue
<1>6. \A y \in Places \ {a, b} : Kept(Held(Q, R)[y], Held(Q, R)'[y])
  <2>1. \A x \in Cubes, n \in Links :
          <<"link", x, n>> \notin {a, b} => Kept(Pos(link[x][n], Q[x]), Pos(link'[x][n], Q[x]))
    BY SameKept
  <2>2. \A x \in Cubes, n \in Links :
          <<"down", x, n>> \notin {a, b} => Kept(Pos(downBuffers[x][n], Q[x]), Pos(downBuffers'[x][n], Q[x]))
    BY SameKept
  <2>3. \A x \in Cubes :
          <<"vault", x, VaultPort>> \notin {a, b} => Kept(Part(vault[x], R), Part(vault'[x], R))
    BY SameKept
  <2>4. \A x \in Cubes, n \in Ports :
          <<"up", x, n>> \notin {a, b} => Kept(Part(upBuffers[x][n], R), Part(upBuffers'[x][n], R))
    BY <1>1, SameKept
  <2>5. HostPlace \notin {a, b} => Kept(Part(responseQ, R), Part(responseQ', R))
    BY <1>2, SameKept
  <2> HIDE DEF a, b
  <2> QED BY <2>1, <2>2, <2>3, <2>4, <2>5, HeldKept DEF Held
<1> HIDE DEF a, b
<1>7. /\ Kept(Held(Q, R)[a], Held(Q, R)'[a]) /\ Kept(Held(Q, R)[b], Held(Q, R)'[b])
           => Stays(Q, R)
      /\ Loses(Held(Q, R)[a], Held(Q, R)'[a]) /\ Kept(Held(Q, R)[b], Held(Q, R)'[b])
           => Goes(Q, R)
  BY <1>3, <1>4, <1>5, <1>6, TwoHeld
<1> QED BY <1>1, <1>2, <1>4, <1>5, <1>7

(* A host takes a response.                                                *)
LEMMA DropHost ==
  ASSUME TypeOK, NEW Q, NEW R, OneAtMost(Q, R), NEW r \in responseQ,
         responseQ' = responseQ \ {r}, UNCHANGED <<link, downBuffers, vault, upBuffers>>
  PROVE  /\ r \notin R => Stays(Q, R)
         /\ r \in R => Goes(Q, R)
<1>0. PICK c \in Cubes : c = r.src
  BY DEF TypeOK, Response
<1> DEFINE a == HostPlace
           b == <<"vault", c, VaultPort>>
<1>1. /\ r \notin R => Kept(Part(responseQ, R), Part(responseQ', R))
      /\ r \in R => Loses(Part(responseQ, R), Part(responseQ', R))
  BY SetHeld
<1>2. /\ Kept(Part(vault[c], R), Part(vault'[c], R))
  BY SameKept
<1>3. a # b
  BY DEF HostPlace
<1>4. /\ a \in Places
      /\ Held(Q, R)[a] = Part(responseQ, R) /\ Held(Q, R)'[a] = Part(responseQ', R)
  BY HostValue
<1>5. /\ b \in Places
      /\ Held(Q, R)[b] = Part(vault[c], R) /\ Held(Q, R)'[b] = Part(vault'[c], R)
  BY VaultPlace
<1>6. \A y \in Places \ {a, b} : Kept(Held(Q, R)[y], Held(Q, R)'[y])
  <2>1. \A x \in Cubes, n \in Links :
          <<"link", x, n>> \notin {a, b} => Kept(Pos(link[x][n], Q[x]), Pos(link'[x][n], Q[x]))
    BY SameKept
  <2>2. \A x \in Cubes, n \in Links :
          <<"down", x, n>> \notin {a, b} => Kept(Pos(downBuffers[x][n], Q[x]), Pos(downBuffers'[x][n], Q[x]))
    BY SameKept
  <2>3. \A x \in Cubes :
          <<"vault", x, VaultPort>> \notin {a, b} => Kept(Part(vault[x], R), Part(vault'[x], R))
    BY <1>2, SameKept
  <2>4. \A x \in Cubes, n \in Ports :
          <<"up", x, n>> \notin {a, b} => Kept(Part(upBuffers[x][n], R), Part(upBuffers'[x][n], R))
    BY SameKept
  <2>5. HostPlace \notin {a, b} => Kept(Part(responseQ, R), Part(responseQ', R))
    BY <1>1, SameKept
  <2> HIDE DEF a, b
  <2> QED BY <2>1, <2>2, <2>3, <2>4, <2>5, HeldKept DEF Held
<1> HIDE DEF a, b
<1>7. /\ Kept(Held(Q, R)[a], Held(Q, R)'[a]) /\ Kept(Held(Q, R)[b], Held(Q, R)'[b])
           => Stays(Q, R)
      /\ Loses(Held(Q, R)[a], Held(Q, R)'[a]) /\ Kept(Held(Q, R)[b], Held(Q, R)'[b])
           => Goes(Q, R)
  BY <1>3, <1>4, <1>5, <1>6, TwoHeld
<1> QED BY <1>1, <1>2, <1>4, <1>5, <1>7

(* A host sends a packet.                                                  *)
LEMMA EnterLink ==
  ASSUME TypeOK, NEW Q, NEW R, OneAtMost(Q, R), 
         NEW d \in Cubes, NEW q \in Links, NEW e \in Request,
         link' = [link EXCEPT ![d][q] = Append(@, e)],
         UNCHANGED <<downBuffers, vault, upBuffers, responseQ>>
  PROVE  /\ e \notin Q[d] => Stays(Q, R)
         /\ e \in Q[d] /\ ~There(Q, R) => OneAtMost(Q, R)' /\ There(Q, R)'
<1> DEFINE a == HostPlace
           b == <<"link", d, q>>
<1>1. /\ Kept(Part(responseQ, R), Part(responseQ', R))
  BY SameKept
<1>2. /\ \A x \in Cubes, n \in Links : ~(x = d /\ n = q) => link'[x][n] = link[x][n]
      /\ e \notin Q[d] => Kept(Pos(link[d][q], Q[d]), Pos(link'[d][q], Q[d]))
      /\ e \in Q[d] => Gains(Pos(link[d][q], Q[d]), Pos(link'[d][q], Q[d]))
  BY LinkAppendHeld
<1>3. a # b
  BY DEF HostPlace
<1>4. /\ a \in Places
      /\ Held(Q, R)[a] = Part(responseQ, R) /\ Held(Q, R)'[a] = Part(responseQ', R)
  BY HostValue
<1>5. /\ b \in Places
      /\ Held(Q, R)[b] = Pos(link[d][q], Q[d]) /\ Held(Q, R)'[b] = Pos(link'[d][q], Q[d])
  BY LinkPlace
<1>6. \A y \in Places \ {a, b} : Kept(Held(Q, R)[y], Held(Q, R)'[y])
  <2>1. \A x \in Cubes, n \in Links :
          <<"link", x, n>> \notin {a, b} => Kept(Pos(link[x][n], Q[x]), Pos(link'[x][n], Q[x]))
    BY <1>2, SameKept
  <2>2. \A x \in Cubes, n \in Links :
          <<"down", x, n>> \notin {a, b} => Kept(Pos(downBuffers[x][n], Q[x]), Pos(downBuffers'[x][n], Q[x]))
    BY SameKept
  <2>3. \A x \in Cubes :
          <<"vault", x, VaultPort>> \notin {a, b} => Kept(Part(vault[x], R), Part(vault'[x], R))
    BY SameKept
  <2>4. \A x \in Cubes, n \in Ports :
          <<"up", x, n>> \notin {a, b} => Kept(Part(upBuffers[x][n], R), Part(upBuffers'[x][n], R))
    BY SameKept
  <2>5. HostPlace \notin {a, b} => Kept(Part(responseQ, R), Part(responseQ', R))
    BY <1>1, SameKept
  <2> HIDE DEF a, b
  <2> QED BY <2>1, <2>2, <2>3, <2>4, <2>5, HeldKept, ZenonT(60) DEF Held
<1> HIDE DEF a, b
<1>7. /\ Kept(Held(Q, R)[a], Held(Q, R)'[a]) /\ Kept(Held(Q, R)[b], Held(Q, R)'[b])
           => Stays(Q, R)
      /\ Kept(Held(Q, R)[a], Held(Q, R)'[a]) /\ Gains(Held(Q, R)[b], Held(Q, R)'[b]) /\ ~There(Q, R)
           => OneAtMost(Q, R)' /\ There(Q, R)'
  BY <1>3, <1>4, <1>5, <1>6, TwoHeld
<1> QED BY <1>1, <1>2, <1>4, <1>5, <1>7

(* No place gains or loses anything that is looked for.                    *)
LEMMA NoMove ==
  ASSUME NEW Q, NEW R, OneAtMost(Q, R),
         \A x \in Cubes, n \in Links : Kept(Pos(link[x][n], Q[x]), Pos(link'[x][n], Q[x])),
         \A x \in Cubes, n \in Links :
           Kept(Pos(downBuffers[x][n], Q[x]), Pos(downBuffers'[x][n], Q[x])),
         \A x \in Cubes : Kept(Part(vault[x], R), Part(vault'[x], R)),
         \A x \in Cubes, n \in Ports : Kept(Part(upBuffers[x][n], R), Part(upBuffers'[x][n], R)),
         Kept(Part(responseQ, R), Part(responseQ', R))
  PROVE  Stays(Q, R)
<1>1. \A y \in Places \ {} : Kept(Held(Q, R)[y], Held(Q, R)'[y])
  BY HeldKept DEF Held
<1> DEFINE I == Held(Q, R)
           J == Held(Q, R)'
<1>2. /\ Unique(Places, I) /\ (There(Q, R) <=> Somewhere(Places, I))
      /\ OneAtMost(Q, R)' <=> Unique(Places, J)
      /\ There(Q, R)' <=> Somewhere(Places, J)
  BY DEF OneAtMost, There
<1>3. \A y \in Places : Kept(I[y], J[y])
  BY <1>1
<1> HIDE DEF I, J
<1> QED BY <1>2, <1>3, AllKept DEF Stays

-----------------------------------------------------------------------------
(* Packets as the cubes make them.                                         *)

HalfOf(c, p, k, b) ==      \* the request MultSplit sends for operand k
  IF k = 1 THEN [p EXCEPT !.half = 1, !.buf = b, !.src = c, !.lines = 1]
  ELSE [p EXCEPT !.half = 2, !.buf = b, !.src = c, !.lines = 1, !.dest = p.dest2]

LineOf(c, p) ==            \* the request MultHalfForward sends
  IF p.lines = 1 THEN p
  ELSE [p EXCEPT !.lines = 1, !.src = c, !.dest = IF p.half = 1 THEN p.dest1 ELSE p.dest2]

LEMMA OtherFields ==
  ASSUME NEW c \in Cubes, NEW p \in Request, NEW k \in 1..2, NEW b \in Bufs
  PROVE  LET q == OtherHalf(c, p, k, b)
         IN  /\ q \in Request /\ q.half = k /\ q.buf = b /\ q.flow = p.flow /\ q.cmd = p.cmd
             /\ q.lines = p.lines /\ q.src = (IF p.lines = 1 THEN c ELSE p.src)
             /\ q.dest1 = p.dest1 /\ q.dest2 = p.dest2
             /\ q.dest = IF k = 1 THEN p.dest1 ELSE p.dest2
<1>1. OtherHalf(c, p, k, b) \in Request
  BY OtherHalfType
<1> QED BY <1>1 DEF OtherHalf, Request

LEMMA HalfFields ==
  ASSUME NEW c \in Cubes, NEW p \in Request, NEW k \in 1..2, NEW b \in Bufs
  PROVE  LET q == HalfOf(c, p, k, b)
         IN  /\ q \in Request /\ q.half = k /\ q.buf = b /\ q.flow = p.flow /\ q.cmd = p.cmd
             /\ q.lines = 1 /\ q.src = c /\ q.dest1 = p.dest1 /\ q.dest2 = p.dest2
             /\ q.dest = IF k = 1 THEN p.dest ELSE p.dest2
<1>1. 1 \in 1..MaxLines /\ p.dest2 \in Cubes /\ 1 \in 0..2 /\ 2 \in 0..2
  BY MaxLinesType DEF Request
<1>2. HalfOf(c, p, k, b) \in Request
  <2>1. [p EXCEPT !.half = 1, !.buf = b, !.src = c, !.lines = 1] \in Request
    BY <1>1, FirstHalfRequest
  <2>2. [p EXCEPT !.half = 2, !.buf = b, !.src = c, !.lines = 1, !.dest = p.dest2] \in Request
    BY <1>1, SecondHalfRequest
  <2> QED BY <2>1, <2>2 DEF HalfOf
<1>3. CASE k = 1
  BY <1>2, <1>3 DEF HalfOf, Request
<1>4. CASE k = 2
  BY <1>2, <1>4 DEF HalfOf, Request
<1> QED BY <1>3, <1>4

LEMMA LineFields ==
  ASSUME NEW c \in Cubes, NEW p \in Request
  PROVE  LET q == LineOf(c, p)
         IN  /\ q \in Request /\ q.half = p.half /\ q.buf = p.buf /\ q.flow = p.flow
             /\ q.cmd = p.cmd /\ q.lines = 1 /\ q.src = (IF p.lines = 1 THEN p.src ELSE c)
             /\ q.dest1 = p.dest1 /\ q.dest2 = p.dest2
             /\ p.lines = 1 => q.dest = p.dest
<1>1. CASE p.lines = 1
  BY <1>1 DEF LineOf
<1>2. CASE p.lines # 1
  <2>1. 1 \in 1..MaxLines /\ p.dest1 \in Cubes /\ p.dest2 \in Cubes
    BY MaxLinesType DEF Request
  <2>2. LineOf(c, p) \in Request
    BY <1>2, <2>1, LineRequest DEF LineOf
  <2> QED BY <1>2, <2>2 DEF LineOf, Request
<1> QED BY <1>1, <1>2

-----------------------------------------------------------------------------
(* What the command of a packet says of its other fields.                  *)

GoodRequest ==
  {q \in Request :
     /\ q.half # 0 => q.cmd = "MULT" /\ q.buf \in Bufs
     /\ q.cmd = "MULT" => FlowOp[q.flow] = "MAC"
     /\ q.cmd = "ADD" => FlowOp[q.flow] = "ADD"
     /\ MaxLines = 1 /\ q.cmd # "GET" => q.dest = IF q.half = 2 THEN q.dest2 ELSE q.dest1}

(* A response in cube x.                                                   *)
GoodResponse(x) ==
  {r \in Response :
     /\ r.cmd = "ADD" => r.dest = x /\ FlowOp[r.flow] = "ADD"
     /\ r.cmd = "MULT" => FlowOp[r.flow] = "MAC"
     /\ r.cmd \in {"ADD", "MULT"} <=> r.op # 0
     /\ r.op # 0 => r.buf \in Bufs}

RequestsGood ==
  /\ link \in [Cubes -> [Links -> Seq(GoodRequest)]]
  /\ downBuffers \in [Cubes -> [Links -> Seq(GoodRequest)]]

ResponsesGood ==
  /\ \A x \in Cubes : vault[x] \subseteq GoodResponse(x)
  /\ \A x \in Cubes, n \in Ports : upBuffers[x][n] \subseteq GoodResponse(x)
  /\ \A r \in responseQ : r.cmd \in {"GET", "RD"}

AtHome == MaxLines = 1 => OperandAtHome

PacketsGood == RequestsGood /\ ResponsesGood /\ AtHome

LEMMA NextGood ==
  ASSUME NEW p \in GoodRequest, p.lines # 1
  PROVE  NextOf(p) \in GoodRequest
BY NextFields DEF GoodRequest

LEMMA OtherGood ==
  ASSUME NEW c \in Cubes, NEW p \in GoodRequest, NEW k \in 1..2, NEW b \in Bufs,
         p.cmd = "MULT"
  PROVE  OtherHalf(c, p, k, b) \in GoodRequest
<1>1. p \in Request /\ FlowOp[p.flow] = "MAC"
  BY DEF GoodRequest
<1> QED BY <1>1, OtherFields DEF GoodRequest

LEMMA HalfGood ==
  ASSUME NEW c \in Cubes, NEW p \in GoodRequest, NEW k \in 1..2, NEW b \in Bufs,
         p.cmd = "MULT", p.half = 0
  PROVE  HalfOf(c, p, k, b) \in GoodRequest
<1>1. p \in Request /\ FlowOp[p.flow] = "MAC" /\ (MaxLines = 1 => p.dest = p.dest1)
  BY DEF GoodRequest
<1> QED BY <1>1, HalfFields DEF GoodRequest

LEMMA LineGood ==
  ASSUME NEW c \in Cubes, NEW p \in GoodRequest
  PROVE  LineOf(c, p) \in GoodRequest
<1>1. p \in Request /\ (MaxLines = 1 => p.lines = 1)
  BY DEF GoodRequest, Request
<1> QED BY <1>1, LineFields DEF GoodRequest

(* Steps keep the packets good.                                            *)
LEMMA BecomesGood ==
  ASSUME RequestsGood, NEW c \in Cubes, NEW l \in Links, NEW i \in DOMAIN downBuffers[c][l],
         NEW K, K \subseteq GoodRequest, Becomes(c, l, i, K)
  PROVE  downBuffers' \in [Cubes -> [Links -> Seq(GoodRequest)]]
<1>1. downBuffers[c][l] \in Seq(GoodRequest) /\ i \in 1..Len(downBuffers[c][l])
  BY DEF RequestsGood
<1>2. CASE Take(c, l, i)
  BY <1>1, <1>2, RemoveAtType DEF Take, RequestsGood
<1>3. ASSUME NEW e \in GoodRequest, Keep(c, l, i, e)
      PROVE  downBuffers' \in [Cubes -> [Links -> Seq(GoodRequest)]]
  <2>1. ReplaceAt(downBuffers[c][l], i, e) \in Seq(GoodRequest)
    BY <1>1, ReplaceAtType
  <2> QED BY <1>3, <2>1 DEF Keep, RequestsGood
<1> QED BY <1>2, <1>3 DEF Becomes

LEMMA LinkGood ==
  ASSUME RequestsGood, NEW d \in Cubes, NEW q \in Links, NEW e \in GoodRequest,
         link' = [link EXCEPT ![d][q] = Append(@, e)]
  PROVE  link' \in [Cubes -> [Links -> Seq(GoodRequest)]]
<1>1. Append(link[d][q], e) \in Seq(GoodRequest)
  BY AppendType DEF RequestsGood
<1> QED BY <1>1 DEF RequestsGood

-----------------------------------------------------------------------------
(* The steps of requests: what becomes of the packet, what goes to the     *)
(* vaults and what goes to a link.                                         *)

ToVault(c, l, i, K, r) ==
  Becomes(c, l, i, K) /\ VaultAccepts(c, r) /\ UNCHANGED <<link, upBuffers, responseQ>>

ToLink(c, l, i, K, n, e) ==
  Becomes(c, l, i, K) /\ SendDown(c, n, e) /\ UNCHANGED <<vault, upBuffers, responseQ>>

Rest(p) == IF p.lines = 1 THEN {} ELSE {NextOf(p)}

Owner(c, p) == IF p.lines = 1 THEN p.src ELSE c

LEMMA RestFields ==
  ASSUME NEW p \in GoodRequest
  PROVE  Rest(p) \subseteq GoodRequest /\ \A e \in Rest(p) : e.half = 0 /\ e.flow = p.flow
<1>1. p \in Request
  BY DEF GoodRequest
<1> QED BY <1>1, NextFields, NextGood DEF Rest

LEMMA AddLocalShape ==
  ASSUME TypeOK, NEW c \in Cubes, NEW l \in Links, NEW i \in DOMAIN downBuffers[c][l],
         NEW p \in Request, AddLocal(c, l, i, p)
  PROVE  \E b \in Bufs : /\ b \in freeOperandBufIDs[c] /\ Reserve(c, b, p.flow)
                         /\ ToVault(c, l, i, Rest(p), OperandRead(c, p, 1, b, c))
<1>1. PICK b \in freeOperandBufIDs[c] : /\ Reserve(c, b, p.flow)
                                        /\ VaultAccepts(c, OperandRead(c, p, 1, b, c))
  BY DEF AddLocal
<1>2. Becomes(c, l, i, Rest(p))
  BY NextLineBecomes DEF AddLocal, Rest
<1>3. UNCHANGED <<link, upBuffers, responseQ>>
  BY DEF AddLocal
<1>4. b \in Bufs
  BY DEF TypeOK
<1> QED BY <1>1, <1>2, <1>3, <1>4 DEF ToVault

LEMMA MultLocalShape ==
  ASSUME TypeOK, NEW c \in Cubes, NEW l \in Links, NEW i \in DOMAIN downBuffers[c][l],
         NEW p \in Request, MultLocal(c, l, i, p)
  PROVE  \E b \in Bufs, k \in 1..2 :
           /\ b \in freeOperandBufIDs[c] /\ Reserve(c, b, p.flow)
           /\ k = IF p.dest1 = c THEN 1 ELSE 2
           /\ ToVault(c, l, i, {OtherHalf(c, p, 3 - k, b)}, OperandRead(c, p, k, b, c))
<1> DEFINE k == IF p.dest1 = c THEN 1 ELSE 2
<1>1. PICK b \in freeOperandBufIDs[c] : /\ Reserve(c, b, p.flow)
                                        /\ VaultAccepts(c, OperandRead(c, p, k, b, c))
                                        /\ Keep(c, l, i, OtherHalf(c, p, 3 - k, b))
  BY DEF MultLocal
<1>2. b \in Bufs /\ k \in 1..2 /\ 3 - k \in 0..2
  BY DEF TypeOK
<1>3. k = IF p.dest1 = c THEN 1 ELSE 2
  OBVIOUS
<1> HIDE DEF k
<1>4. OtherHalf(c, p, 3 - k, b) \in Request
  BY <1>2, OtherHalfType
<1>5. Becomes(c, l, i, {OtherHalf(c, p, 3 - k, b)})
  BY <1>1, <1>4 DEF Becomes
<1>6. UNCHANGED <<link, upBuffers, responseQ>>
  BY DEF MultLocal
<1>7. ToVault(c, l, i, {OtherHalf(c, p, 3 - k, b)}, OperandRead(c, p, k, b, c))
  BY <1>1, <1>5, <1>6 DEF ToVault
<1> QED BY <1>1, <1>2, <1>3, <1>7

LEMMA MultHalfLocalShape ==
  ASSUME TypeOK, NEW c \in Cubes, NEW l \in Links, NEW i \in DOMAIN downBuffers[c][l],
         NEW p \in Request, MultHalfLocal(c, l, i, p)
  PROVE  ToVault(c, l, i, Rest(p), OperandRead(c, p, p.half, p.buf, Owner(c, p)))
<1>1. VaultAccepts(c, OperandRead(c, p, p.half, p.buf, Owner(c, p))) /\ NextLine(c, l, i, p)
  BY DEF MultHalfLocal, Owner
<1>2. Becomes(c, l, i, Rest(p))
  BY <1>1, NextLineBecomes DEF Rest
<1>3. UNCHANGED <<link, upBuffers, responseQ>>
  BY DEF MultHalfLocal
<1> QED BY <1>1, <1>2, <1>3 DEF ToVault

LEMMA ReadLocalShape ==
  ASSUME NEW c, NEW l, NEW i, NEW p, ReadLocal(c, l, i, p)
  PROVE  ToVault(c, l, i, {}, OperandRead(c, p, 0, NoBuf, p.src))
BY DEF ReadLocal, ToVault, Becomes

LEMMA ForwardShape ==
  ASSUME NEW c \in Cubes, NEW l, NEW i, NEW p \in Request,
         AddForward(c, l, i, p) \/ MultForward(c, l, i, p) \/ Forward(c, l, i, p)
  PROVE  \E n \in Links : n = NextLink[c][p.dest] /\ ToLink(c, l, i, {}, n, p)
<1>1. NextLink[c][p.dest] \in Links
  BY RouteType DEF Request
<1>2. Take(c, l, i) /\ SendDown(c, NextLink[c][p.dest], p) /\ UNCHANGED <<vault, upBuffers, responseQ>>
  BY DEF AddForward, MultForward, Forward
<1>3. ToLink(c, l, i, {}, NextLink[c][p.dest], p)
  BY <1>2 DEF ToLink, Becomes
<1> QED BY <1>1, <1>3

LEMMA MultSplitShape ==
  ASSUME TypeOK, NEW c \in Cubes, NEW l \in Links, NEW i \in DOMAIN downBuffers[c][l],
         NEW p \in Request, MultSplit(c, l, i, p)
  PROVE  \E b \in Bufs, k \in 1..2, n \in Links :
           /\ b \in freeOperandBufIDs[c] /\ Reserve(c, b, p.flow)
           /\ n = NextLink[c][IF k = 1 THEN p.dest1 ELSE p.dest2]
           /\ ToLink(c, l, i, {OtherHalf(c, p, 3 - k, b)}, n, HalfOf(c, p, k, b))
<1>1. PICK b \in freeOperandBufIDs[c] :
        /\ Reserve(c, b, p.flow)
        /\ \/ /\ SendDown(c, NextLink[c][p.dest1],
                   [p EXCEPT !.half = 1, !.buf = b, !.src = c, !.lines = 1])
              /\ Keep(c, l, i, OtherHalf(c, p, 2, b))
           \/ /\ SendDown(c, NextLink[c][p.dest2],
                   [p EXCEPT !.half = 2, !.buf = b, !.src = c, !.lines = 1, !.dest = p.dest2])
              /\ Keep(c, l, i, OtherHalf(c, p, 1, b))
  BY DEF MultSplit
<1>2. b \in Bufs /\ NextLink[c][p.dest1] \in Links /\ NextLink[c][p.dest2] \in Links
  BY RouteType DEF TypeOK, Request
<1>3. UNCHANGED <<vault, upBuffers, responseQ>>
  BY DEF MultSplit
<1>4. OtherHalf(c, p, 1, b) \in Request /\ OtherHalf(c, p, 2, b) \in Request
  BY <1>2, OtherFields
<1>5. \/ /\ SendDown(c, NextLink[c][p.dest1], HalfOf(c, p, 1, b))
         /\ Keep(c, l, i, OtherHalf(c, p, 2, b))
      \/ /\ SendDown(c, NextLink[c][p.dest2], HalfOf(c, p, 2, b))
         /\ Keep(c, l, i, OtherHalf(c, p, 1, b))
  BY <1>1 DEF HalfOf
<1>6. CASE /\ SendDown(c, NextLink[c][p.dest1], HalfOf(c, p, 1, b))
           /\ Keep(c, l, i, OtherHalf(c, p, 2, b))
  <2>1. ToLink(c, l, i, {OtherHalf(c, p, 2, b)}, NextLink[c][p.dest1], HalfOf(c, p, 1, b))
    BY <1>3, <1>4, <1>6 DEF ToLink, Becomes
  <2>2. 1 \in 1..2 /\ 3 - 1 = 2
    OBVIOUS
  <2>3. ToLink(c, l, i, {OtherHalf(c, p, 3 - 1, b)}, NextLink[c][p.dest1], HalfOf(c, p, 1, b))
    BY <2>1, <2>2
  <2>4. NextLink[c][p.dest1] = NextLink[c][IF 1 = 1 THEN p.dest1 ELSE p.dest2]
    OBVIOUS
  <2> QED BY <1>1, <1>2, <2>2, <2>3, <2>4
<1>7. CASE /\ SendDown(c, NextLink[c][p.dest2], HalfOf(c, p, 2, b))
           /\ Keep(c, l, i, OtherHalf(c, p, 1, b))
  <2>1. ToLink(c, l, i, {OtherHalf(c, p, 1, b)}, NextLink[c][p.dest2], HalfOf(c, p, 2, b))
    BY <1>3, <1>4, <1>7 DEF ToLink, Becomes
  <2>2. 2 \in 1..2 /\ 3 - 2 = 1
    OBVIOUS
  <2>3. ToLink(c, l, i, {OtherHalf(c, p, 3 - 2, b)}, NextLink[c][p.dest2], HalfOf(c, p, 2, b))
    BY <2>1, <2>2
  <2>4. NextLink[c][p.dest2] = NextLink[c][IF 2 = 1 THEN p.dest1 ELSE p.dest2]
    OBVIOUS
  <2> QED BY <1>1, <1>2, <2>2, <2>3, <2>4
<1> QED BY <1>5, <1>6, <1>7

LEMMA MultHalfForwardShape ==
  ASSUME TypeOK, NEW c \in Cubes, NEW l \in Links, NEW i \in DOMAIN downBuffers[c][l],
         NEW p \in Request, MultHalfForward(c, l, i, p)
  PROVE  \E n \in Links : n = NextLink[c][p.dest] /\ ToLink(c, l, i, Rest(p), n, LineOf(c, p))
<1>1. NextLink[c][p.dest] \in Links
  BY RouteType DEF Request
<1>2. /\ SendDown(c, NextLink[c][p.dest], LineOf(c, p)) /\ NextLine(c, l, i, p)
      /\ UNCHANGED <<vault, upBuffers, responseQ>>
  BY DEF MultHalfForward, LineOf
<1>3. Becomes(c, l, i, Rest(p))
  BY <1>2, NextLineBecomes DEF Rest
<1>4. ToLink(c, l, i, Rest(p), NextLink[c][p.dest], LineOf(c, p))
  BY <1>2, <1>3 DEF ToLink
<1> QED BY <1>1, <1>4

LEMMA GetMarkShape ==
  ASSUME NEW c, NEW l, NEW i, NEW p, GetMark(c, l, i, p)
  PROVE  Becomes(c, l, i, {}) /\ UNCHANGED <<link, vault, upBuffers, responseQ>>
BY DEF GetMark, Becomes

LEMMA GetReplicateShape ==
  ASSUME NEW c \in Cubes, NEW l, NEW i, NEW p \in Request, GetReplicate(c, l, i, p)
  PROVE  \E e \in Request :
           /\ downBuffers' = [downBuffers EXCEPT ![c][l] = Append(@, e)]
           /\ e.cmd = "GET" /\ e.flow = p.flow /\ e.half = p.half /\ e.buf = p.buf
           /\ UNCHANGED <<link, vault, upBuffers, responseQ>>
<1>1. PICK n \in Links : downBuffers' = [downBuffers EXCEPT ![c][l] =
             Append(@, [p EXCEPT !.src = c, !.dest = neighborCubeID[c][n]])]
  BY DEF GetReplicate, PendingChildren
<1> DEFINE e == [p EXCEPT !.src = c, !.dest = neighborCubeID[c][n]]
<1>2. e \in Request
  BY WireType, ChildRequest
<1>3. e.cmd = "GET" /\ e.flow = p.flow /\ e.half = p.half /\ e.buf = p.buf
  BY DEF GetReplicate, Request
<1>4. UNCHANGED <<link, vault, upBuffers, responseQ>>
  BY DEF GetReplicate
<1> QED BY <1>1, <1>2, <1>3, <1>4

-----------------------------------------------------------------------------
(* Packets stay good.                                                      *)

LEMMA ReadGood ==
  ASSUME NEW c \in Cubes, NEW p \in GoodRequest, NEW k \in 0..2, NEW b \in Bufs \cup {NoBuf},
         NEW to \in Cubes, k # 0 => b \in Bufs, p.cmd \in {"ADD", "MULT"} <=> k # 0,
         p.cmd = "ADD" => to = c
  PROVE  OperandRead(c, p, k, b, to) \in GoodResponse(c)
<1>1. OperandRead(c, p, k, b, to) \in Response
  BY OperandReadType DEF GoodRequest
<1> QED BY <1>1 DEF OperandRead, GoodResponse, GoodRequest

LEMMA ToVaultGood ==
  ASSUME TypeOK, PacketsGood, NEW c \in Cubes, NEW l \in Links, NEW i \in DOMAIN downBuffers[c][l],
         NEW K, K \subseteq GoodRequest, NEW r \in GoodResponse(c), MaxLines = 1 => r.home = c,
         ToVault(c, l, i, K, r)
  PROVE  PacketsGood'
<1>1. RequestsGood'
  BY BecomesGood DEF ToVault, PacketsGood, RequestsGood
<1>2. \A x \in Cubes : vault'[x] = IF x = c THEN vault[x] \cup {r} ELSE vault[x]
  BY DEF ToVault, VaultAccepts, TypeOK
<1>3. ResponsesGood'
  <2>1. \A x \in Cubes : vault'[x] \subseteq GoodResponse(x)
    <3>1. \A x \in Cubes : vault[x] \subseteq GoodResponse(x)
      BY DEF ResponsesGood, PacketsGood
    <3>2. {r} \subseteq GoodResponse(c)
      OBVIOUS
    <3> QED BY <1>2, <3>1, <3>2
  <2>2. upBuffers' = upBuffers /\ responseQ' = responseQ
    BY DEF ToVault
  <2> QED BY <2>1, <2>2 DEF ResponsesGood, PacketsGood
<1>4. AtHome'
  BY <1>2, ZenonT(60) DEF AtHome, OperandAtHome, PacketsGood
<1> QED BY <1>1, <1>3, <1>4 DEF PacketsGood

LEMMA ToLinkGood ==
  ASSUME PacketsGood, NEW c \in Cubes, NEW l \in Links, NEW i \in DOMAIN downBuffers[c][l],
         NEW K, K \subseteq GoodRequest, NEW n \in Links, NEW e \in GoodRequest,
         ToLink(c, l, i, K, n, e)
  PROVE  PacketsGood'
<1>1. neighborCubeID[c][n] \in Cubes /\ PeerLink[c][n] \in Links
  BY WireType
<1>2. RequestsGood'
  BY <1>1, BecomesGood, LinkGood DEF ToLink, SendDown, PacketsGood, RequestsGood
<1>3. ResponsesGood' /\ AtHome'
  BY DEF ResponsesGood, PacketsGood, GoodResponse, ToLink, AtHome, OperandAtHome
<1> QED BY <1>2, <1>3 DEF PacketsGood

LEMMA RequestGood ==
  ASSUME TypeOK, PacketsGood, NEW c \in Cubes, NEW l \in Links, NEW i \in DOMAIN downBuffers[c][l],
         RequestStep(c, l, i, downBuffers[c][l][i])
  PROVE  PacketsGood'
<1> DEFINE p == downBuffers[c][l][i]
<1>1. p \in GoodRequest
  BY DEF PacketsGood, RequestsGood
<1>2. p \in Request /\ p.flow \in Tags /\ p.src \in Cubes /\ p.half \in 0..2 /\ p.buf \in Bufs \cup {NoBuf}
  BY <1>1 DEF GoodRequest, Request
<1>3. /\ p.half # 0 => p.cmd = "MULT" /\ p.buf \in Bufs
      /\ MaxLines = 1 /\ p.cmd # "GET" => p.dest = IF p.half = 2 THEN p.dest2 ELSE p.dest1
  BY <1>1 DEF GoodRequest
<1>4. RequestStep(c, l, i, p)
  OBVIOUS
<1> HIDE DEF p
<1>5. CASE AddLocal(c, l, i, p)
  <2>1. PICK b \in Bufs : ToVault(c, l, i, Rest(p), OperandRead(c, p, 1, b, c))
    BY <1>2, <1>5, AddLocalShape
  <2>2. p.cmd = "ADD" /\ (MaxLines = 1 => p.dest1 = c)
    BY <1>3, <1>5 DEF AddLocal, IsHere
  <2>3. OperandRead(c, p, 1, b, c) \in GoodResponse(c)
    BY <1>1, <2>2, ReadGood
  <2>4. MaxLines = 1 => OperandRead(c, p, 1, b, c).home = c
    BY <2>2 DEF OperandRead
  <2> QED BY <1>1, <2>1, <2>3, <2>4, RestFields, ToVaultGood
<1>6. CASE MultLocal(c, l, i, p)
  <2>1. PICK b \in Bufs, k \in 1..2 :
          /\ k = IF p.dest1 = c THEN 1 ELSE 2
          /\ ToVault(c, l, i, {OtherHalf(c, p, 3 - k, b)}, OperandRead(c, p, k, b, c))
    BY <1>2, <1>6, MultLocalShape
  <2>2. p.cmd = "MULT" /\ p.half = 0 /\ (MaxLines = 1 => p.dest1 = c \/ p.dest2 = c)
    BY <1>3, <1>6 DEF MultLocal, IsHere
  <2>3. OperandRead(c, p, k, b, c) \in GoodResponse(c)
    BY <1>1, <2>2, ReadGood
  <2>4. MaxLines = 1 => OperandRead(c, p, k, b, c).home = c
    BY <2>1, <2>2 DEF OperandRead
  <2>5. {OtherHalf(c, p, 3 - k, b)} \subseteq GoodRequest
    <3>1. 3 - k \in 1..2
      OBVIOUS
    <3> QED BY <1>1, <2>2, <3>1, OtherGood
  <2> QED BY <2>1, <2>3, <2>4, <2>5, ToVaultGood
<1>7. CASE MultHalfLocal(c, l, i, p)
  <2>1. ToVault(c, l, i, Rest(p), OperandRead(c, p, p.half, p.buf, Owner(c, p)))
    BY <1>2, <1>7, MultHalfLocalShape
  <2>2. p.cmd = "MULT" /\ p.half # 0 /\ (MaxLines = 1 => c = IF p.half = 2 THEN p.dest2 ELSE p.dest1)
    BY <1>2, <1>3, <1>7 DEF MultHalfLocal, IsHere
  <2>3. OperandRead(c, p, p.half, p.buf, Owner(c, p)) \in GoodResponse(c)
    BY <1>1, <1>2, <1>3, <2>2, ReadGood DEF Owner
  <2>4. MaxLines = 1 => OperandRead(c, p, p.half, p.buf, Owner(c, p)).home = c
    BY <2>2 DEF OperandRead
  <2> QED BY <1>1, <2>1, <2>3, <2>4, RestFields, ToVaultGood
<1>8. CASE ReadLocal(c, l, i, p)
  <2>1. ToVault(c, l, i, {}, OperandRead(c, p, 0, NoBuf, p.src))
    BY <1>8, ReadLocalShape
  <2>2. p.cmd = "RD" /\ (MaxLines = 1 => p.dest1 = c)
    BY <1>3, <1>8 DEF ReadLocal, IsHere
  <2>3. OperandRead(c, p, 0, NoBuf, p.src) \in GoodResponse(c)
    BY <1>1, <1>2, <2>2, ReadGood
  <2>4. MaxLines = 1 => OperandRead(c, p, 0, NoBuf, p.src).home = c
    BY <2>2 DEF OperandRead
  <2> QED BY <2>1, <2>3, <2>4, ToVaultGood
<1>9. CASE AddForward(c, l, i, p) \/ MultForward(c, l, i, p) \/ Forward(c, l, i, p)
  <2>1. PICK n \in Links : ToLink(c, l, i, {}, n, p)
    BY <1>2, <1>9, ForwardShape
  <2> QED BY <1>1, <2>1, ToLinkGood
<1>10. CASE MultSplit(c, l, i, p)
  <2>1. PICK b \in Bufs, k \in 1..2, n \in Links :
          ToLink(c, l, i, {OtherHalf(c, p, 3 - k, b)}, n, HalfOf(c, p, k, b))
    BY <1>2, <1>10, MultSplitShape
  <2>2. p.cmd = "MULT" /\ p.half = 0
    BY <1>10 DEF MultSplit
  <2>3. {OtherHalf(c, p, 3 - k, b)} \subseteq GoodRequest /\ HalfOf(c, p, k, b) \in GoodRequest
    <3>1. 3 - k \in 1..2
      OBVIOUS
    <3> QED BY <1>1, <2>2, <3>1, OtherGood, HalfGood
  <2> QED BY <2>1, <2>3, ToLinkGood
<1>11. CASE MultHalfForward(c, l, i, p)
  <2>1. PICK n \in Links : ToLink(c, l, i, Rest(p), n, LineOf(c, p))
    BY <1>2, <1>11, MultHalfForwardShape
  <2> QED BY <1>1, <2>1, LineGood, RestFields, ToLinkGood
<1>12. CASE GetReplicate(c, l, i, p)
  <2>1. PICK e \in Request :
           /\ downBuffers' = [downBuffers EXCEPT ![c][l] = Append(@, e)]
           /\ e.cmd = "GET" /\ e.half = p.half /\ e.buf = p.buf
           /\ UNCHANGED <<link, vault, upBuffers, responseQ>>
    BY <1>2, <1>12, GetReplicateShape
  <2>2. e \in GoodRequest
    BY <1>3, <1>12, <2>1 DEF GoodRequest, GetReplicate
  <2>3. Append(downBuffers[c][l], e) \in Seq(GoodRequest)
    BY <2>2, AppendType DEF PacketsGood, RequestsGood
  <2>4. RequestsGood'
    BY <2>1, <2>3 DEF PacketsGood, RequestsGood
  <2>5. ResponsesGood' /\ AtHome'
    BY <2>1 DEF ResponsesGood, PacketsGood, GoodResponse, AtHome, OperandAtHome
  <2> QED BY <2>4, <2>5 DEF PacketsGood
<1>13. CASE GetMark(c, l, i, p)
  <2>1. Becomes(c, l, i, {}) /\ UNCHANGED <<link, vault, upBuffers, responseQ>>
    BY <1>13, GetMarkShape
  <2>2. RequestsGood'
    BY <2>1, BecomesGood DEF PacketsGood, RequestsGood
  <2>3. ResponsesGood' /\ AtHome'
    BY <2>1 DEF ResponsesGood, PacketsGood, GoodResponse, AtHome, OperandAtHome
  <2> QED BY <2>2, <2>3 DEF PacketsGood
<1> QED BY <1>4, <1>5, <1>6, <1>7, <1>8, <1>9, <1>10, <1>11, <1>12, <1>13 DEF RequestStep

LEMMA ResponsesMoved ==
  ASSUME PacketsGood, link' = link, downBuffers' = downBuffers,
         \A x \in Cubes : vault'[x] \subseteq vault[x],
         \A x \in Cubes, n \in Ports : upBuffers'[x][n] \subseteq GoodResponse(x),
         \A r \in responseQ' : r.cmd \in {"GET", "RD"}
  PROVE  PacketsGood'
<1>1. RequestsGood'
  BY DEF PacketsGood, RequestsGood
<1>2. ResponsesGood'
  BY DEF PacketsGood, ResponsesGood
<1>3. AtHome'
  BY DEF PacketsGood, AtHome, OperandAtHome
<1> QED BY <1>1, <1>2, <1>3 DEF PacketsGood

(* A response that is neither an operand nor an answer of a child.         *)
LEMMA PassedGood ==
  ASSUME NEW c \in Cubes, NEW d \in Cubes, NEW r \in GoodResponse(c), ~IsOperand(c, r)
  PROVE  /\ r \in GoodResponse(d)
         /\ r.cmd = "MULT" => r.dest # c
BY DEF GoodResponse, IsOperand, Response

LEMMA AddedGood ==
  ASSUME NEW ups, NEW ups2, NEW d, NEW q, NEW r \in GoodResponse(d),
         \A x \in Cubes, n \in Ports : ups[x][n] \subseteq GoodResponse(x),
         \A x \in Cubes, n \in Ports :
           ups2[x][n] = IF x = d /\ n = q THEN ups[x][n] \cup {r} ELSE ups[x][n]
  PROVE  \A x \in Cubes, n \in Ports : ups2[x][n] \subseteq GoodResponse(x)
<1> SUFFICES ASSUME NEW x \in Cubes, NEW n \in Ports PROVE ups2[x][n] \subseteq GoodResponse(x)
  OBVIOUS
<1>1. ups2[x][n] = IF x = d /\ n = q THEN ups[x][n] \cup {r} ELSE ups[x][n]
  OBVIOUS
<1>2. ups[x][n] \subseteq GoodResponse(x)
  OBVIOUS
<1> QED BY <1>1, <1>2

LEMMA SendUpGood ==
  ASSUME TypeOK, PacketsGood, NEW c \in Cubes, NEW l \in Links, NEW r,
         NEW ups \in [Cubes -> [Ports -> SUBSET Response]],
         \A x \in Cubes, n \in Ports : ups[x][n] \subseteq GoodResponse(x),
         r \in GoodResponse(neighborCubeID[c][l]),
         neighborCubeID[c][l] = c => r.cmd \in {"GET", "RD"},
         SendUp(c, l, r, ups), UNCHANGED <<link, downBuffers, vault>>
  PROVE  PacketsGood'
<1>1. neighborCubeID[c][l] \in Cubes /\ PeerLink[c][l] \in Ports
  BY WireType DEF Ports
<1>2. \A x \in Cubes, n \in Ports : upBuffers'[x][n] \subseteq GoodResponse(x)
  <2>1. CASE neighborCubeID[c][l] = c
    BY <2>1 DEF SendUp
  <2>2. CASE neighborCubeID[c][l] # c
    <3> DEFINE d == neighborCubeID[c][l]
               q == PeerLink[c][l]
    <3>1. /\ d \in Cubes /\ q \in Ports /\ r \in GoodResponse(d)
          /\ upBuffers' = [ups EXCEPT ![d][q] = @ \cup {r}]
      BY <1>1, <2>2 DEF SendUp
    <3> HIDE DEF d, q
    <3>2. \A x \in Cubes, n \in Ports :
            upBuffers'[x][n] = IF x = d /\ n = q THEN ups[x][n] \cup {r} ELSE ups[x][n]
      BY <3>1
    <3> QED BY <3>1, <3>2, AddedGood
  <2> QED BY <2>1, <2>2
<1>3. \A x \in responseQ' : x.cmd \in {"GET", "RD"}
  BY DEF SendUp, PacketsGood, ResponsesGood
<1> QED BY <1>2, <1>3, ResponsesMoved

LEMMA DroppedGood ==
  ASSUME TypeOK, PacketsGood, NEW c \in Cubes, NEW m \in Ports, NEW r
  PROVE  \A x \in Cubes, n \in Ports : Dropped(c, m, r)[x][n] \subseteq GoodResponse(x)
BY DEF Dropped, TypeOK, PacketsGood, ResponsesGood

LEMMA PacketsStep ==
  ASSUME TypeOK, PacketsGood, [Next]_vars
  PROVE  PacketsGood'
<1>1. ASSUME NEW c \in Cubes, NEW l \in Links, Deliver(c, l) PROVE PacketsGood'
  <2>1. link[c][l] \in Seq(GoodRequest) /\ link[c][l] # <<>> /\ downBuffers[c][l] \in Seq(GoodRequest)
    BY <1>1 DEF Deliver, PacketsGood, RequestsGood
  <2>2. Head(link[c][l]) \in GoodRequest /\ Tail(link[c][l]) \in Seq(GoodRequest)
    BY <2>1, HeadTailType
  <2>3. Append(downBuffers[c][l], Head(link[c][l])) \in Seq(GoodRequest)
    BY <2>1, <2>2, AppendType
  <2>4. RequestsGood'
    BY <1>1, <2>2, <2>3 DEF Deliver, PacketsGood, RequestsGood
  <2>5. vault' = vault /\ upBuffers' = upBuffers /\ responseQ' = responseQ
    BY <1>1 DEF Deliver
  <2>6. ResponsesGood' /\ AtHome'
    BY <2>5 DEF ResponsesGood, PacketsGood, AtHome, OperandAtHome
  <2> QED BY <2>4, <2>6 DEF PacketsGood
<1>2. ASSUME NEW c \in Cubes, NEW l \in Links, NEW i \in DOMAIN downBuffers[c][l],
             RequestStep(c, l, i, downBuffers[c][l][i])
      PROVE  PacketsGood'
  BY <1>2, RequestGood
<1>3. ASSUME NEW c \in Cubes, VaultReturn(c) PROVE PacketsGood'
  <2>1. PICK r \in vault[c] : /\ vault' = [vault EXCEPT ![c] = @ \ {r}]
                              /\ upBuffers' = [upBuffers EXCEPT ![c][VaultPort] = @ \cup {r}]
    BY <1>3 DEF VaultReturn
  <2>2. r \in GoodResponse(c) /\ VaultPort \in Ports
    BY DEF PacketsGood, ResponsesGood, Ports
  <2>3. \A x \in Cubes : vault'[x] \subseteq vault[x]
    BY <2>1 DEF TypeOK
  <2>4. \A x \in Cubes, n \in Ports :
          upBuffers'[x][n] = IF x = c /\ n = VaultPort THEN upBuffers[x][n] \cup {r} ELSE upBuffers[x][n]
    BY <2>1, <2>2 DEF TypeOK
  <2>5. \A x \in Cubes, n \in Ports : upBuffers'[x][n] \subseteq GoodResponse(x)
    <3>1. \A x \in Cubes, n \in Ports : upBuffers[x][n] \subseteq GoodResponse(x)
      BY DEF PacketsGood, ResponsesGood
    <3>2. ASSUME NEW x \in Cubes, NEW n \in Ports PROVE upBuffers'[x][n] \subseteq GoodResponse(x)
      <4>1. CASE x = c /\ n = VaultPort
        <5>1. upBuffers'[c][VaultPort] = upBuffers[c][VaultPort] \cup {r}
          BY <2>2, <2>4
        <5> QED BY <2>2, <3>1, <4>1, <5>1
      <4>2. CASE ~(x = c /\ n = VaultPort)
        BY <2>4, <3>1, <4>2
      <4> QED BY <4>1, <4>2
    <3> QED BY <3>2
  <2>6. link' = link /\ downBuffers' = downBuffers /\ responseQ' = responseQ
    BY <1>3 DEF VaultReturn
  <2>7. \A x \in responseQ' : x.cmd \in {"GET", "RD"}
    BY <2>6 DEF PacketsGood, ResponsesGood
  <2> QED BY <2>3, <2>5, <2>6, <2>7, ResponsesMoved
<1>4. ASSUME NEW c \in Cubes, NEW m \in Ports, NEW r \in upBuffers[c][m], ResponseStep(c, m, r)
      PROVE  PacketsGood'
  <2>1. r \in GoodResponse(c) /\ r \in Response /\ r.dest \in Cubes
    BY DEF PacketsGood, ResponsesGood, GoodResponse, Response
  <2>2. CASE OperandReturn(c, m, r) \/ ChildReply(c, m, r)
    <3>1. /\ upBuffers' = Dropped(c, m, r)
          /\ link' = link /\ downBuffers' = downBuffers /\ vault' = vault /\ responseQ' = responseQ
      BY <2>2 DEF OperandReturn, ChildReply
    <3>2. \A x \in Cubes, n \in Ports : upBuffers'[x][n] \subseteq GoodResponse(x)
      BY <3>1, DroppedGood
    <3>3. \A x \in responseQ' : x.cmd \in {"GET", "RD"}
      BY <3>1 DEF PacketsGood, ResponsesGood
    <3> QED BY <3>1, <3>2, <3>3, ResponsesMoved
  <2>3. CASE ForwardResponse(c, m, r)
    <3>1. /\ SendUp(c, NextLink[c][r.dest], r, Dropped(c, m, r)) /\ ~IsOperand(c, r)
          /\ link' = link /\ downBuffers' = downBuffers /\ vault' = vault
      BY <2>3 DEF ForwardResponse
    <3>2. NextLink[c][r.dest] \in Links /\ neighborCubeID[c][NextLink[c][r.dest]] \in Cubes
      BY <2>1, RouteType, WireType
    <3>3. /\ r \in GoodResponse(neighborCubeID[c][NextLink[c][r.dest]])
          /\ r.cmd = "MULT" => r.dest # c
      BY <2>1, <3>1, <3>2, PassedGood
    <3>4. r.cmd # "ADD" /\ (r.cmd = "MULT" => neighborCubeID[c][NextLink[c][r.dest]] # c)
      BY <2>1, <3>1, <3>3, RouteAssumption DEF IsOperand
    <3>5. neighborCubeID[c][NextLink[c][r.dest]] = c => r.cmd \in {"GET", "RD"}
      BY <2>1, <3>4 DEF Response
    <3> QED BY <3>1, <3>2, <3>3, <3>5, DroppedType, DroppedGood, SendUpGood
  <2> QED BY <1>4, <2>2, <2>3 DEF ResponseStep
<1>5. ASSUME NEW c \in Cubes, NEW f \in Flows, GatherReply(c, f) PROVE PacketsGood'
  <2> DEFINE up == flowTable[c][f].parent
             r == [cmd |-> "GET", flow |-> f, src |-> c, dest |-> up, home |-> c,
                   op |-> 0, buf |-> NoBuf]
  <2>1. up \in Cubes
    BY EntryType DEF FlowEntry
  <2>2. \A x \in Cubes : r \in GoodResponse(x)
    <3>1. f \notin Reads
      BY ARTAssumption
    <3>2. r \in Response
      BY <2>1, <3>1 DEF Response, Tags
    <3> QED BY <3>2 DEF GoodResponse
  <2>3. SendUp(c, NextLink[c][up], r, upBuffers) /\ UNCHANGED <<link, downBuffers, vault>> /\ r.cmd = "GET"
    BY <1>5 DEF GatherReply, Commit
  <2>4. NextLink[c][up] \in Links /\ neighborCubeID[c][NextLink[c][up]] \in Cubes
    BY <2>1, RouteType, WireType
  <2> HIDE DEF r
  <2> QED BY <2>2, <2>3, <2>4, SendUpGood DEF TypeOK, PacketsGood, ResponsesGood
<1>6. CASE HostReceive
  <2>1. responseQ' \subseteq responseQ /\ UNCHANGED <<link, downBuffers, vault, upBuffers>>
    BY <1>6 DEF HostReceive
  <2> QED BY <2>1, ResponsesMoved DEF PacketsGood, ResponsesGood
<1>7. ASSUME NEW x \in Tags, NEW e \in GoodRequest, HostSend(x, e),
             UNCHANGED <<downBuffers, vault, upBuffers, responseQ>>
      PROVE  PacketsGood'
  <2>1. Root[x] \in Cubes /\ NextLink[Root[x]][Root[x]] \in Links
    BY HostType, RouteType
  <2>2. RequestsGood'
    BY <1>7, <2>1, LinkGood DEF HostSend, PacketsGood, RequestsGood
  <2>3. ResponsesGood' /\ AtHome'
    BY <1>7 DEF ResponsesGood, PacketsGood, AtHome, OperandAtHome
  <2> QED BY <2>2, <2>3 DEF PacketsGood
<1>8. ASSUME NEW f \in Flows, HostUpdate(f) \/ HostGather(f) PROVE PacketsGood'
  <2>1. CASE HostUpdate(f)
    <3>1. PICK n \in 1..MaxLines, d1 \in OperandCubes, d2 \in OperandCubes :
            HostSend(f, HostPacket(IF FlowOp[f] = "ADD" THEN "ADD" ELSE "MULT", f, d1, d2, n))
      BY <2>1 DEF HostUpdate
    <3>2. HostPacket(IF FlowOp[f] = "ADD" THEN "ADD" ELSE "MULT", f, d1, d2, n) \in GoodRequest
      <4> DEFINE k == IF FlowOp[f] = "ADD" THEN "ADD" ELSE "MULT"
      <4>1. f \in Tags /\ f \notin Reads /\ FlowOp[f] \in {"ADD", "MAC"} /\ d1 \in Cubes /\ d2 \in Cubes
        BY ARTAssumption DEF Tags
      <4>2. HostPacket(k, f, d1, d2, n) \in Request
        BY <4>1, HostPacketType
      <4> QED BY <4>1, <4>2 DEF HostPacket, GoodRequest
    <3> QED BY <1>7, <2>1, <3>1, <3>2 DEF HostUpdate, Tags
  <2>2. CASE HostGather(f)
    <3>1. HostPacket("GET", f, Root[f], Root[f], 1) \in GoodRequest
      <4>1. f \in Tags /\ f \notin Reads /\ Root[f] \in Cubes /\ 1 \in 1..MaxLines
        BY HostType, MaxLinesType, ARTAssumption DEF Tags
      <4>2. HostPacket("GET", f, Root[f], Root[f], 1) \in Request
        BY <4>1, HostPacketType
      <4> QED BY <4>2 DEF HostPacket, GoodRequest
    <3> QED BY <1>7, <2>2, <3>1 DEF HostGather, Tags
  <2> QED BY <1>8, <2>1, <2>2
<1>9. ASSUME NEW t \in Reads, HostRead(t) PROVE PacketsGood'
  <2>1. PICK d \in OperandCubes : HostSend(t, HostPacket("RD", t, d, d, 1))
    BY <1>9 DEF HostRead
  <2>2. HostPacket("RD", t, d, d, 1) \in GoodRequest
    <3>1. t \in Tags /\ d \in Cubes /\ 1 \in 1..MaxLines
      BY MaxLinesType, ARTAssumption DEF Tags
    <3>2. HostPacket("RD", t, d, d, 1) \in Request
      BY <3>1, HostPacketType
    <3> QED BY <3>2 DEF HostPacket, GoodRequest
  <2> QED BY <1>7, <1>9, <2>1, <2>2 DEF HostRead, Tags
<1>10. CASE UNCHANGED <<link, downBuffers, vault, upBuffers, responseQ>>
  BY <1>10 DEF PacketsGood, RequestsGood, ResponsesGood, AtHome, OperandAtHome
<1>11. ASSUME NEW c \in Cubes, NEW b \in Bufs, ComputeStep(c, b) PROVE PacketsGood'
  BY <1>10, <1>11 DEF ComputeStep, AddFinish, MultStart, MultStep
<1>12. CASE UNCHANGED vars
  BY <1>10, <1>12 DEF vars
<1> QED BY <1>1, <1>2, <1>3, <1>4, <1>5, <1>6, <1>8, <1>9, <1>11, <1>12 DEF Next, Network, Host

-----------------------------------------------------------------------------
(***************************************************************************)
(* Steps that only carry packets, whatever is looked for.                  *)
(***************************************************************************)

LEMMA MovesStays ==
  ASSUME NEW Q, NEW R, Moves(Q, R)
  PROVE  Stays(Q, R)
BY DEF Moves, Stays

LEMMA DeliverStays ==
  ASSUME TypeOK, NEW Q, NEW R, OneAtMost(Q, R), NEW c \in Cubes, NEW l \in Links, Deliver(c, l)
  PROVE  Stays(Q, R)
BY PassIn, MovesStays

LEMMA VaultReturnStays ==
  ASSUME TypeOK, NEW Q, NEW R, OneAtMost(Q, R), NEW c \in Cubes, VaultReturn(c)
  PROVE  Stays(Q, R)
<1>1. PICK r \in vault[c] : /\ vault' = [vault EXCEPT ![c] = @ \ {r}]
                            /\ upBuffers' = Raised(upBuffers, c, VaultPort, r)
  BY DEF VaultReturn, Raised
<1>2. UNCHANGED <<link, downBuffers, responseQ>>
  BY DEF VaultReturn
<1> QED BY <1>1, <1>2, PassOut, MovesStays

LEMMA ForwardResponseStays ==
  ASSUME TypeOK, NEW Q, NEW R, OneAtMost(Q, R), NEW c \in Cubes, NEW m \in Ports,
         NEW r \in upBuffers[c][m], ForwardResponse(c, m, r)
  PROVE  Stays(Q, R)
<1> DEFINE n == NextLink[c][r.dest]
           d == neighborCubeID[c][n]
           q == PeerLink[c][n]
<1>1. r.dest \in Cubes
  BY DEF TypeOK, Response
<1>2. d \in Cubes /\ q \in Ports
  BY <1>1, RouteType, WireType DEF Ports
<1>3. UNCHANGED <<link, downBuffers, vault>>
  BY DEF ForwardResponse
<1>4. CASE d = c
  <2>1. upBuffers' = Dropped(c, m, r) /\ responseQ' = responseQ \cup {r}
    BY <1>4 DEF ForwardResponse, SendUp
  <2> QED BY <1>3, <2>1, PassHost, MovesStays
<1>5. CASE d # c
  <2>1. PassedUp(c, m, d, q, r) /\ responseQ' = responseQ
    BY <1>5 DEF ForwardResponse, SendUp, PassedUp
  <2> HIDE DEF d, q
  <2>2. (r \notin R => Stays(Q, R)) /\ (r \in R => Moves(Q, R))
    BY <1>2, <1>3, <1>5, <2>1, PassUp
  <2> QED BY <2>2, MovesStays
<1> QED BY <1>4, <1>5

LEMMA SameHeld ==
  ASSUME NEW Q, NEW R, OneAtMost(Q, R),
         UNCHANGED <<link, downBuffers, vault, upBuffers, responseQ>>
  PROVE  Stays(Q, R)
BY NoMove, SameKept

(* An answer of a gather is made.                                          *)
LEMMA RaisedStays ==
  ASSUME TypeOK, NEW Q, NEW R, OneAtMost(Q, R), NEW d \in Cubes, NEW q \in Ports, NEW r,
         r \notin R, upBuffers' = Raised(upBuffers, d, q, r),
         UNCHANGED <<link, downBuffers, vault, responseQ>>
  PROVE  Stays(Q, R)
<1>1. upBuffers \in [Cubes -> [Ports -> SUBSET Response]]
  BY DEF TypeOK
<1>2. /\ \A x \in Cubes, y \in Ports : ~(x = d /\ y = q) => upBuffers'[x][y] = upBuffers[x][y]
      /\ r \notin R => Kept(Part(upBuffers[d][q], R), Part(upBuffers'[d][q], R))
      /\ r \in R => Gains(Part(upBuffers[d][q], R), Part(upBuffers'[d][q], R))
  BY <1>1, UpHeld
<1>3. \A x \in Cubes, y \in Ports : Kept(Part(upBuffers[x][y], R), Part(upBuffers'[x][y], R))
  BY <1>2, SameKept
<1> QED BY <1>3, NoMove, SameKept

LEMMA GatherReplyStays ==
  ASSUME TypeOK, NEW Q, NEW R, OneAtMost(Q, R), NEW c \in Cubes, NEW f \in Flows,
         GatherReply(c, f), \A r \in R : r.cmd # "GET"
  PROVE  Stays(Q, R)
<1>1. PICK up \in Cubes : up = flowTable[c][f].parent
  BY EntryType DEF FlowEntry
<1>2. PICK d \in Cubes, q \in Ports : d = neighborCubeID[c][NextLink[c][up]] /\ q = PeerLink[c][NextLink[c][up]]
  BY RouteType, WireType DEF Ports
<1>3. PICK r : r = [cmd |-> "GET", flow |-> f, src |-> c, dest |-> up, home |-> c,
                    op |-> 0, buf |-> NoBuf]
  OBVIOUS
<1>4. r \notin R
  <2>1. r.cmd = "GET"
    BY <1>3
  <2> QED BY <2>1
<1>5. SendUp(c, NextLink[c][up], r, upBuffers) /\ UNCHANGED <<link, downBuffers, vault>>
  BY <1>1, <1>3 DEF GatherReply, Commit
<1>6. CASE d = c
  <2>1. upBuffers' = upBuffers /\ responseQ' = responseQ \cup {r}
    BY <1>2, <1>5, <1>6 DEF SendUp
  <2>2. Kept(Part(responseQ, R), Part(responseQ', R))
    BY <1>4, <2>1, SetHeld
  <2> QED BY <1>5, <2>1, <2>2, NoMove, SameKept
<1>7. CASE d # c
  <2>1. upBuffers' = Raised(upBuffers, d, q, r) /\ responseQ' = responseQ
    BY <1>2, <1>5, <1>7 DEF SendUp, Raised
  <2> QED BY <1>4, <1>5, <2>1, RaisedStays
<1> QED BY <1>6, <1>7

LEMMA ToVaultHeld ==
  ASSUME TypeOK, NEW Q, NEW R, OneAtMost(Q, R),
         NEW c \in Cubes, NEW l \in Links, NEW i \in DOMAIN downBuffers[c][l],
         NEW K, NEW r, ToVault(c, l, i, K, r)
  PROVE  LET p == downBuffers[c][l][i]
         IN  /\ p \notin Q[c] /\ K \cap Q[c] = {} /\ r \notin R => Stays(Q, R)
             /\ p \in Q[c] /\ K \cap Q[c] = {} /\ r \in R => Stays(Q, R)
             /\ p \notin Q[c] /\ K \cap Q[c] = {} /\ r \in R /\ ~There(Q, R)
                  => OneAtMost(Q, R)' /\ There(Q, R)'
             /\ p \notin Q[c] /\ K \cap Q[c] # {} /\ r \notin R /\ ~There(Q, R)
                  => OneAtMost(Q, R)' /\ There(Q, R)'
<1>1. Becomes(c, l, i, K) /\ VaultAccepts(c, r) /\ UNCHANGED <<link, upBuffers, responseQ>>
  BY DEF ToVault
<1> QED BY <1>1, PassVault, MovesStays

LEMMA ToLinkHeld ==
  ASSUME TypeOK, NEW Q, NEW R, OneAtMost(Q, R),
         NEW c \in Cubes, NEW l \in Links, NEW i \in DOMAIN downBuffers[c][l],
         NEW K, NEW n \in Links, NEW e \in Request, ToLink(c, l, i, K, n, e)
  PROVE  LET p == downBuffers[c][l][i]
             d == neighborCubeID[c][n]
         IN  /\ p \notin Q[c] /\ K \cap Q[c] = {} /\ e \notin Q[d] => Stays(Q, R)
             /\ p \in Q[c] /\ K \cap Q[c] = {} /\ e \in Q[d] => Stays(Q, R)
             /\ p \notin Q[c] /\ K \cap Q[c] = {} /\ e \in Q[d] /\ ~There(Q, R)
                  => OneAtMost(Q, R)' /\ There(Q, R)'
             /\ p \notin Q[c] /\ K \cap Q[c] # {} /\ e \notin Q[d] /\ ~There(Q, R)
                  => OneAtMost(Q, R)' /\ There(Q, R)'
<1> DEFINE d == neighborCubeID[c][n]
           q == PeerLink[c][n]
<1>1. /\ Becomes(c, l, i, K) /\ UNCHANGED <<upBuffers, vault, responseQ>>
      /\ link' = [link EXCEPT ![d][q] = Append(@, e)]
  BY DEF ToLink, SendDown
<1>2. d \in Cubes /\ q \in Links
  BY WireType
<1> HIDE DEF d, q
<1>3. LET p == downBuffers[c][l][i]
      IN  /\ p \notin Q[c] /\ K \cap Q[c] = {} /\ e \notin Q[d] => Stays(Q, R)
          /\ p \in Q[c] /\ K \cap Q[c] = {} /\ e \in Q[d] => Moves(Q, R)
          /\ p \notin Q[c] /\ K \cap Q[c] = {} /\ e \in Q[d] /\ ~There(Q, R)
               => OneAtMost(Q, R)' /\ There(Q, R)'
          /\ p \notin Q[c] /\ K \cap Q[c] # {} /\ e \notin Q[d] /\ ~There(Q, R)
               => OneAtMost(Q, R)' /\ There(Q, R)'
  BY <1>1, <1>2, PassDown
<1> QED BY <1>3, MovesStays DEF d
=============================================================================
