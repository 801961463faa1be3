------------------------ MODULE BlockGossip_proofs -------------------------
(***************************************************************************)
(* NobodyAhead for any network and any losses. The invariant types the     *)
(* wires by the heights of their ends (Sound): as no height ever sinks,    *)
(* what was sound when it was sent stays so (CarriesGrows), and each       *)
(* handler sends only what is sound for the heights it leaves.             *)
(*                                                                         *)
(* The batch a node appends is computed by a recursive function (Synced);  *)
(* that it ends no higher than the batch is an induction over its heights  *)
(* (SyncedIsBetween).                                                      *)
(***************************************************************************)
EXTENDS BlockGossip, Induction

Msg == [type : {"HANDSHAKE", "BLOCK"}, h : Nat]
         \cup [type : {"GET_BLOCKS", "BLOCKS"}, from : Nat \ {0}, to : Nat]

\* What n may tell m when n is at height hn and m at height hm.
Sound(hn, hm) ==
  {msg \in Msg :
     /\ msg.type \in {"HANDSHAKE", "BLOCK"} => msg.h <= hn
     /\ msg.type = "BLOCKS" => msg.to <= hn
     /\ msg.type = "GET_BLOCKS" => msg.to <= hm}

Shaped ==
  /\ height \in [Node -> Nat] /\ seen \in [Node -> SUBSET Nat]
  /\ DOMAIN dial \subseteq Node \X Node
  /\ peerHeight \in [Node -> [Node -> Nat]]

Below ==
  \A n \in Node : height[n] <= height[Sealer] /\ height[n] <= MaxBlocks

Believed == \A n, m \in Node : peerHeight[n][m] <= height[m]

\* What is on the wires w is sound for the heights h.
Carries(w, h) ==
  /\ DOMAIN w = Node
  /\ \A n \in Node : DOMAIN w[n] = Node
  /\ \A n, m \in Node : w[n][m] \in Seq(Sound(h[n], h[m]))

Told == Carries(wire, height)

Inv == Shaped /\ Below /\ Believed /\ Told

\* Who grows may still be told what it was told before.
LEMMA SoundGrows ==
  ASSUME NEW hn \in Nat, NEW hm \in Nat, NEW gn \in Nat, NEW gm \in Nat,
         hn <= gn, hm <= gm, NEW s \in Seq(Sound(hn, hm))
  PROVE  s \in Seq(Sound(gn, gm))
<1>1. Sound(hn, hm) \subseteq Sound(gn, gm)
  BY DEF Sound, Msg
<1> QED BY <1>1

\* The chain after a batch is no shorter than before, and if it is longer it
\* ends in the batch.
-----------------------------------------------------------------------------
LEMMA SyncedIsBetween ==
  ASSUME Shaped, MaxBlocks \in Nat, NEW n \in Node, NEW first \in Nat \ {0}, NEW last \in Nat
  PROVE  /\ Synced(n, first, last) \in Nat
         /\ Synced(n, first, last) >= height[n]
         /\ Synced(n, first, last) = height[n] \/ Synced(n, first, last) <= last
<1> DEFINE H == height[n]
           R == seen[n]
           N == MaxBlocks
           Value(f, i) == IF i < first THEN H
                          ELSE IF i <= last /\ i \notin R /\ i = f[i - 1] + 1 THEN i
                          ELSE f[i - 1]
           Def(f) == f = [i \in 0..N |-> Value(f, i)]
           after == CHOOSE f : Def(f)
<1>1. H \in Nat /\ N \in Nat
  BY DEF Shaped
<1>2. \E f : Def(f)
  <2> DEFINE step == [i \in 1..N |-> [t \in Nat |->
                        IF i < first THEN H
                        ELSE IF i <= last /\ i \notin R /\ i = t + 1 THEN i ELSE t]]
             T == Nat
             e == H
  <2>1. step \in [1..N -> [T -> T]]
    BY <1>1
  <2>2. e \in T
    BY <1>1
  <2>3. PICK f : IsRun(f, N, T, e, step)
    <3> HIDE DEF step, N, T, e
    <3> QED BY <1>1, <2>1, <2>2, RecursionUpTo
  <2>4. f \in [0..N -> Nat] /\ f[0] = H /\ \A i \in 1..N : f[i] = step[i][f[i - 1]]
    <3> HIDE DEF step
    <3> QED BY <2>3 DEF IsRun
  <2>5. \A i \in 1..N : f[i - 1] \in Nat
    BY <1>1, <2>4
  <2>6. \A i \in 1..N : f[i] = Value(f, i)
    BY <2>4, <2>5
  <2>7. \A i \in 0..N : f[i] = Value(f, i)
    BY <1>1, <2>4, <2>6
  <2>8. Def(f)
    <3> DEFINE g == [i \in 0..N |-> Value(f, i)]
    <3>1. \A i \in 0..N : f[i] = g[i]
      BY <2>7
    <3> QED BY <2>4, <3>1
  <2> QED BY <2>8
<1>3. Def(after)
  <2> HIDE DEF Def
  <2> QED BY <1>2
<1>4. Synced(n, first, last) = after[N]
  BY DEF Synced
<1>5. \A i \in 0..N : after[i] = Value(after, i)
  <2> HIDE DEF after
  <2> QED BY <1>3
<1> HIDE DEF after
<1> DEFINE Good(k) == k \in Nat /\ k >= H /\ (k = H \/ k <= last)
           P == {i \in 0..N : Good(after[i])}
<1>6. 0 \in P
  <2>1. 0 \in 0..N
    BY <1>1
  <2>2. after[0] = H
    BY <1>5, <2>1
  <2> QED BY <1>1, <2>1, <2>2
<1>7. \A i \in 0..(N - 1) : i \in P => i + 1 \in P
  <2> SUFFICES ASSUME NEW i \in 0..(N - 1), i \in P PROVE i + 1 \in P
    OBVIOUS
  <2>1. i + 1 \in 0..N /\ (i + 1) - 1 = i /\ Good(after[i])
    BY <1>1
  <2>2. after[i + 1] = Value(after, i + 1)
    BY <1>5, <2>1
  <2>3. Good(after[i + 1])
    BY <1>1, <2>1, <2>2
  <2> QED BY <2>1, <2>3
<1>8. 0..N \subseteq P
  <2> HIDE DEF P, N
  <2> QED BY <1>1, <1>6, <1>7, UpTo
<1>9. N \in 0..N
  BY <1>1
<1>10. Good(after[N])
  <2> HIDE DEF Good
  <2> QED BY <1>8, <1>9
<1> QED BY <1>4, <1>10

-----------------------------------------------------------------------------
(* What is done to the wires *)

LEMMA CarriesGrows ==
  ASSUME NEW w, NEW h \in [Node -> Nat], NEW g \in [Node -> Nat],
         Carries(w, h), \A n \in Node : h[n] <= g[n]
  PROVE  Carries(w, g)
BY SoundGrows DEF Carries

LEMMA RestCarries ==
  ASSUME Told, NEW n \in Node, NEW m \in Node, NEW type, Taken(n, m, type)
  PROVE  /\ Carries(Rest(n, m), height)
         /\ Head(wire[m][n]) \in Sound(height[m], height[n])
         /\ Head(wire[m][n]).type = type
<1>1. wire[m][n] \in Seq(Sound(height[m], height[n])) /\ wire[m][n] # << >>
  BY DEF Told, Carries, Taken
<1>2. /\ Head(wire[m][n]) \in Sound(height[m], height[n])
      /\ Tail(wire[m][n]) \in Seq(Sound(height[m], height[n]))
  <2> DEFINE S == Sound(height[m], height[n])
  <2> HIDE DEF S
  <2>1. wire[m][n] \in Seq(S)
    BY <1>1 DEF S
  <2>2. Head(wire[m][n]) \in S /\ Tail(wire[m][n]) \in Seq(S)
    BY <1>1, <2>1
  <2> QED BY <2>2 DEF S
<1>3. Carries(Rest(n, m), height)
  <2> DEFINE t == Tail(wire[m][n])
             v == [wire EXCEPT ![m][n] = t]
  <2>1. Rest(n, m) = v
    BY DEF Rest
  <2> HIDE DEF t
  <2>2. /\ DOMAIN v = Node /\ \A a \in Node : DOMAIN v[a] = Node
        /\ \A a, b \in Node : v[a][b] = IF a = m /\ b = n THEN t ELSE wire[a][b]
    BY DEF Told, Carries
  <2>3. t \in Seq(Sound(height[m], height[n]))
    BY <1>2 DEF t
  <2> HIDE DEF v
  <2> QED BY <2>1, <2>2, <2>3 DEF Told, Carries
<1> QED BY <1>2, <1>3 DEF Taken

LEMMA SentCarries ==
  ASSUME NEW w, NEW h, Carries(w, h), NEW n \in Node, NEW m \in Node,
         NEW msg \in Sound(h[n], h[m])
  PROVE  Carries([w EXCEPT ![n][m] = Append(@, msg)], h)
<1> DEFINE t == Append(w[n][m], msg)
           v == [w EXCEPT ![n][m] = t]
<1>1. t \in Seq(Sound(h[n], h[m]))
  <2> DEFINE S == Sound(h[n], h[m])
  <2>1. w[n][m] \in Seq(S) /\ msg \in S
    BY DEF Carries
  <2> HIDE DEF S
  <2>2. t \in Seq(S)
    BY <2>1
  <2> QED BY <2>2 DEF S
<1>2. [w EXCEPT ![n][m] = Append(@, msg)] = v
  OBVIOUS
<1> HIDE DEF t
<1>3. /\ DOMAIN v = Node /\ \A a \in Node : DOMAIN v[a] = Node
      /\ \A a, b \in Node : v[a][b] = IF a = n /\ b = m THEN t ELSE w[a][b]
  BY DEF Carries
<1> HIDE DEF v
<1> QED BY <1>1, <1>2, <1>3 DEF Carries

LEMMA RequestCarries ==
  ASSUME NEW w, NEW h \in [Node -> Nat], Carries(w, h), NEW n \in Node, NEW m \in Node,
         NEW own \in Nat, NEW theirs \in Nat, theirs <= h[m]
  PROVE  Carries(BgRequest(w, n, m, own, theirs), h)
<1>1. CASE theirs <= own
  BY <1>1 DEF BgRequest
<1>2. CASE ~(theirs <= own)
  <2> DEFINE to == IF theirs < own + BatchSize THEN theirs ELSE own + BatchSize
             msg == GetBlocksMsg(own + 1, to)
  <2>1. to \in Nat /\ to <= h[m]
    BY GossipAssumption
  <2> HIDE DEF to
  <2>2. msg \in Sound(h[n], h[m])
    BY <2>1 DEF GetBlocksMsg, Sound, Msg
  <2> HIDE DEF msg
  <2>3. BgRequest(w, n, m, own, theirs) = [w EXCEPT ![n][m] = Append(@, msg)]
    BY <1>2, Zenon DEF BgRequest, msg, to
  <2>4. Carries([w EXCEPT ![n][m] = Append(@, msg)], h)
    BY <2>2, SentCarries
  <2> QED BY <2>3, <2>4
<1> QED BY <1>1, <1>2

LEMMA BroadcastCarries ==
  ASSUME NEW w, NEW h \in [Node -> Nat], Carries(w, h), NEW n \in Node, NEW except,
         NEW b \in Nat, b <= h[n]
  PROVE  Carries(Broadcast(w, n, BlockMsg(b), except), h)
<1> DEFINE msg == BlockMsg(b)
           v == Broadcast(w, n, msg, except)
<1>1. \A m \in Node : msg \in Sound(h[n], h[m])
  BY DEF BlockMsg, Sound, Msg
<1> HIDE DEF msg
<1>2. \A m \in Node : Append(w[n][m], msg) \in Seq(Sound(h[n], h[m]))
  <2> TAKE m \in Node
  <2> DEFINE S == Sound(h[n], h[m])
  <2>1. w[n][m] \in Seq(S) /\ msg \in S
    BY <1>1 DEF Carries
  <2> HIDE DEF S
  <2>2. Append(w[n][m], msg) \in Seq(S)
    BY <2>1
  <2> QED BY <2>2 DEF S
<1>3. /\ DOMAIN v = Node /\ \A a \in Node : DOMAIN v[a] = Node
      /\ \A a, c \in Node : v[a][c] = w[a][c] \/ (a = n /\ v[a][c] = Append(w[n][c], msg))
  BY DEF Broadcast, Carries
<1> HIDE DEF v
<1>4. Carries(v, h)
  BY <1>2, <1>3 DEF Carries
<1> QED BY <1>4 DEF v, msg

-----------------------------------------------------------------------------
(* The invariant *)

LEMMA InvInit == BgInit => Inv
<1> SUFFICES ASSUME BgInit PROVE Inv
  OBVIOUS
<1>1. Shaped
  BY GossipAssumption DEF BgInit, Shaped
<1>2. Below /\ Believed
  BY GossipAssumption DEF BgInit, Below, Believed
<1>3. Told
  BY DEF BgInit, Told, Carries
<1> QED BY <1>1, <1>2, <1>3 DEF Inv

LEMMA ConnectionsKeepInv ==
  ASSUME Inv, NEW n \in Node, NEW m \in Node, <<n, m>> \in Dialled,
         Connect(n, m) \/ GiveUp(n, m) \/ Disconnect(n, m)
  PROVE  Inv'
<1>1. CASE Connect(n, m)
  <2>1. /\ dial' = [dial EXCEPT ![<<n, m>>] = "open"]
        /\ wire' = [wire EXCEPT ![n][m] = <<HandshakeMsg(height[n])>>,
                                ![m][n] = <<HandshakeMsg(height[m])>>]
        /\ peerHeight' = [peerHeight EXCEPT ![n][m] = 0, ![m][n] = 0]
        /\ height' = height /\ seen' = seen
    BY <1>1 DEF Connect
  <2>2. Shaped' /\ Below'
    BY <2>1 DEF Inv, Shaped, Below
  <2>3. Believed'
    <3>1. \A a, b \in Node : peerHeight'[a][b] = peerHeight[a][b] \/ peerHeight'[a][b] = 0
      BY <2>1 DEF Inv, Shaped
    <3>2. height' = height /\ \A a \in Node : height[a] >= 0
      BY <2>1 DEF Inv, Shaped
    <3>3. \A a, b \in Node : peerHeight[a][b] <= height[b]
      BY DEF Inv, Believed
    <3>4. \A a, b \in Node : peerHeight'[a][b] <= height[b]
      BY <3>1, <3>2, <3>3
    <3> QED BY <3>2, <3>4 DEF Believed
  <2>4. \A a, b \in Node : <<HandshakeMsg(height[a])>> \in Seq(Sound(height[a], height[b]))
    <3> TAKE a, b \in Node
    <3>1. HandshakeMsg(height[a]) \in Sound(height[a], height[b])
      BY DEF HandshakeMsg, Sound, Msg, Inv, Shaped
    <3> QED BY <3>1
  <2>5. Told'
    <3> DEFINE s == <<HandshakeMsg(height[n])>>
               t == <<HandshakeMsg(height[m])>>
               v == [wire EXCEPT ![n][m] = s, ![m][n] = t]
    <3>1. s \in Seq(Sound(height[n], height[m])) /\ t \in Seq(Sound(height[m], height[n]))
      BY <2>4
    <3>2. wire' = v
      BY <2>1
    <3> HIDE DEF s, t
    <3>3. /\ DOMAIN v = Node /\ \A a \in Node : DOMAIN v[a] = Node
          /\ \A a, b \in Node : \/ v[a][b] = wire[a][b]
                                \/ a = n /\ b = m /\ v[a][b] = s
                                \/ a = m /\ b = n /\ v[a][b] = t
      BY DEF Inv, Told, Carries
    <3> HIDE DEF v
    <3>4. \A a, b \in Node : v[a][b] \in Seq(Sound(height[a], height[b]))
      BY <3>1, <3>3, Zenon DEF Inv, Told, Carries
    <3> QED BY <2>1, <3>2, <3>3, <3>4 DEF Told, Carries
  <2> QED BY <2>2, <2>3, <2>5 DEF Inv
<1>2. CASE GiveUp(n, m)
  BY <1>2 DEF GiveUp, Inv, Shaped, Below, Believed, Told
<1>3. CASE Disconnect(n, m)
  <2>1. /\ dial' = [dial EXCEPT ![<<n, m>>] = "ended"]
        /\ wire' = [wire EXCEPT ![n][m] = << >>, ![m][n] = << >>]
        /\ height' = height /\ seen' = seen /\ peerHeight' = peerHeight
    BY <1>3 DEF Disconnect
  <2>2. Shaped' /\ Below' /\ Believed'
    BY <2>1 DEF Inv, Shaped, Below, Believed
  <2>3. /\ DOMAIN wire' = Node /\ \A a \in Node : DOMAIN wire'[a] = Node
        /\ \A a, b \in Node : wire'[a][b] = wire[a][b] \/ wire'[a][b] = << >>
    BY <2>1 DEF Inv, Told, Carries
  <2>4. \A a, b \in Node : wire'[a][b] \in Seq(Sound(height[a], height[b]))
    <3>1. \A S : << >> \in Seq(S)
      OBVIOUS
    <3> QED BY <2>3, <3>1 DEF Inv, Told, Carries
  <2>5. Told'
    <3>1. height' = height
      BY <2>1
    <3> QED BY <2>3, <2>4, <3>1 DEF Told, Carries
  <2> QED BY <2>2, <2>5 DEF Inv
<1> QED BY <1>1, <1>2, <1>3

LEMMA RebootKeepsInv == ASSUME Inv, NEW n \in Node, Reboot(n) PROVE Inv'
<1>1. /\ seen' = [seen EXCEPT ![n] = {}]
      /\ DOMAIN dial' = DOMAIN dial
      /\ wire' = [a \in Node |-> [b \in Node |-> IF n \in {a, b} THEN << >> ELSE wire[a][b]]]
      /\ height' = height /\ peerHeight' = peerHeight
  BY DEF Reboot, Dialled
<1>2. Shaped' /\ Below' /\ Believed'
  BY <1>1 DEF Inv, Shaped, Below, Believed
<1>3. Told'
  <2>1. /\ DOMAIN wire' = Node /\ \A a \in Node : DOMAIN wire'[a] = Node
        /\ \A a, b \in Node : wire'[a][b] = wire[a][b] \/ wire'[a][b] = << >>
    BY <1>1
  <2>2. \A a, b \in Node : wire'[a][b] \in Seq(Sound(height[a], height[b]))
    <3>1. \A S : << >> \in Seq(S)
      OBVIOUS
    <3> QED BY <2>1, <3>1 DEF Inv, Told, Carries
  <2> QED BY <1>1, <2>1, <2>2 DEF Told, Carries
<1> QED BY <1>2, <1>3 DEF Inv

\* A node grows to a height that the sealer has, or the sealer itself does.
LEMMA GrowthKeepsBelow ==
  ASSUME Inv, NEW n \in Node, NEW b \in Nat, b >= height[n], b <= MaxBlocks,
         n = Sealer \/ b <= height[Sealer],
         height' = [height EXCEPT ![n] = b]
  PROVE  /\ height' \in [Node -> Nat] /\ Below'
         /\ \A a \in Node : height[a] <= height'[a]
         /\ Carries(wire, height')
         /\ \A x, y \in Node : peerHeight[x][y] <= height'[y]
<1>1. height' \in [Node -> Nat] /\ \A a \in Node : height[a] <= height'[a]
  BY DEF Inv, Shaped
<1>2. Below'
  BY <1>1, GossipAssumption DEF Inv, Shaped, Below
<1>3. Carries(wire, height')
  <2>1. PICK g : g = height'
    OBVIOUS
  <2>2. height \in [Node -> Nat] /\ g \in [Node -> Nat] /\ Carries(wire, height)
    BY <1>1, <2>1 DEF Inv, Shaped, Told
  <2>3. \A a \in Node : height[a] <= g[a]
    BY <1>1, <2>1
  <2> QED BY <2>1, <2>2, <2>3, CarriesGrows
<1>4. \A x, y \in Node : peerHeight[x][y] <= height'[y]
  BY <1>1 DEF Inv, Shaped, Believed
<1> QED BY <1>1, <1>2, <1>3, <1>4

LEMMA SealKeepsInv == ASSUME Inv, BgSeal PROVE Inv'
<1> DEFINE b == height[Sealer] + 1
<1>1. /\ height[Sealer] < MaxBlocks /\ height' = [height EXCEPT ![Sealer] = b]
      /\ seen' = [seen EXCEPT ![Sealer] = @ \cup {b}]
      /\ wire' = Broadcast(wire, Sealer, BlockMsg(b), Sealer)
      /\ dial' = dial /\ peerHeight' = peerHeight
  BY DEF BgSeal
<1>2. b \in Nat /\ b >= height[Sealer] /\ b <= MaxBlocks /\ Sealer \in Node
  BY <1>1, GossipAssumption DEF Inv, Shaped
<1> HIDE DEF b
<1>3. /\ height' \in [Node -> Nat] /\ Below' /\ Carries(wire, height')
      /\ \A x, y \in Node : peerHeight[x][y] <= height'[y]
  BY <1>1, <1>2, GrowthKeepsBelow
<1>4. Shaped' /\ Believed'
  BY <1>1, <1>2, <1>3 DEF Inv, Shaped, Believed
<1>5. Told'
  <2>1. PICK g : g = height'
    OBVIOUS
  <2>2. g \in [Node -> Nat] /\ Carries(wire, g) /\ b <= g[Sealer]
    BY <1>1, <1>2, <1>3, <2>1 DEF Inv, Shaped
  <2>3. Carries(Broadcast(wire, Sealer, BlockMsg(b), Sealer), g)
    BY <1>2, <2>2, BroadcastCarries
  <2> QED BY <1>1, <2>1, <2>3 DEF Told
<1> QED BY <1>3, <1>4, <1>5 DEF Inv

LEMMA HandshakeKeepsInv ==
  ASSUME Inv, NEW n \in Node, NEW m \in Node, OnHandshake(n, m) PROVE Inv'
<1> DEFINE theirs == Head(wire[m][n]).h
<1>1. /\ Taken(n, m, "HANDSHAKE")
      /\ peerHeight' = [peerHeight EXCEPT ![n][m] = theirs]
      /\ wire' = BgRequest(Rest(n, m), n, m, height[n], theirs)
      /\ UNCHANGED <<height, seen, dial>>
  BY DEF OnHandshake
<1>2. /\ Carries(Rest(n, m), height) /\ Head(wire[m][n]) \in Sound(height[m], height[n])
      /\ Head(wire[m][n]).type = "HANDSHAKE"
  BY <1>1, RestCarries DEF Inv
<1>3. theirs \in Nat /\ theirs <= height[m]
  BY <1>2 DEF Sound, Msg
<1>4. height \in [Node -> Nat] /\ height[n] \in Nat
  BY DEF Inv, Shaped
<1> HIDE DEF theirs
<1>5. Carries(BgRequest(Rest(n, m), n, m, height[n], theirs), height)
  BY <1>2, <1>3, <1>4, RequestCarries
<1>6. Shaped' /\ Below' /\ Believed'
  BY <1>1, <1>3 DEF Inv, Shaped, Below, Believed
<1> QED BY <1>1, <1>5, <1>6 DEF Inv, Told

LEMMA BlockKeepsInv ==
  ASSUME Inv, NEW n \in Node, NEW m \in Node, OnBlock(n, m) PROVE Inv'
<1> DEFINE b == Head(wire[m][n]).h
<1>1. /\ Taken(n, m, "BLOCK")
      /\ seen' = [seen EXCEPT ![n] = @ \cup {b}] /\ dial' = dial
      /\ Accepted(n, b) => /\ height' = [height EXCEPT ![n] = b]
                           /\ peerHeight' = [peerHeight EXCEPT ![n][m] = b]
                           /\ wire' = Broadcast(Rest(n, m), n, BlockMsg(b), m)
      /\ ~Accepted(n, b) => /\ wire' = Rest(n, m)
                            /\ UNCHANGED <<height, peerHeight>>
  BY DEF OnBlock
<1>2. /\ Carries(Rest(n, m), height) /\ Head(wire[m][n]) \in Sound(height[m], height[n])
      /\ Head(wire[m][n]).type = "BLOCK"
  BY <1>1, RestCarries DEF Inv
<1>3. b \in Nat /\ b <= height[m]
  BY <1>2 DEF Sound, Msg
<1> HIDE DEF b
<1>4. CASE ~Accepted(n, b)
  <2>1. Shaped' /\ Below' /\ Believed'
    BY <1>1, <1>3, <1>4 DEF Inv, Shaped, Below, Believed
  <2> QED BY <1>1, <1>2, <1>4, <2>1 DEF Inv, Told
<1>5. CASE Accepted(n, b)
  <2>1. b = height[n] + 1
    BY <1>5 DEF Accepted
  <2>2. b >= height[n] /\ b <= MaxBlocks /\ b <= height[Sealer]
    BY <1>3, <2>1, GossipAssumption DEF Inv, Shaped, Below
  <2>3. height' = [height EXCEPT ![n] = b]
    BY <1>1, <1>5
  <2>4. /\ height' \in [Node -> Nat] /\ Below'
        /\ \A a \in Node : height[a] <= height'[a]
        /\ \A x, y \in Node : peerHeight[x][y] <= height'[y]
    BY <1>3, <2>2, <2>3, GrowthKeepsBelow
  <2>5. Shaped'
    BY <1>1, <1>3, <1>5, <2>4 DEF Inv, Shaped
  <2>6. b <= height'[m]
    BY <1>3, <2>4 DEF Inv, Shaped
  <2>7. Believed'
    BY <1>1, <1>5, <2>4, <2>6 DEF Inv, Shaped, Believed
  <2>8. Told'
    <3>1. PICK g : g = height'
      OBVIOUS
    <3>2. PICK w : w = Rest(n, m)
      OBVIOUS
    <3>3. g \in [Node -> Nat] /\ b <= g[n]
      BY <1>3, <2>3, <2>4, <3>1 DEF Inv, Shaped
    <3>4. Carries(w, g)
      <4>1. height \in [Node -> Nat] /\ Carries(w, height) /\ \A a \in Node : height[a] <= g[a]
        BY <1>2, <2>4, <3>1, <3>2 DEF Inv, Shaped
      <4> QED BY <3>3, <4>1, CarriesGrows
    <3>5. Carries(Broadcast(w, n, BlockMsg(b), m), g)
      BY <1>3, <3>3, <3>4, BroadcastCarries
    <3> QED BY <1>1, <1>5, <3>1, <3>2, <3>5 DEF Told
  <2> QED BY <2>4, <2>5, <2>7, <2>8 DEF Inv
<1> QED BY <1>4, <1>5

LEMMA GetBlocksKeepsInv ==
  ASSUME Inv, NEW n \in Node, NEW m \in Node, OnGetBlocks(n, m) PROVE Inv'
<1> DEFINE ask == Head(wire[m][n])
           ends == {ask.to, ask.from + BatchSize - 1, height[n]}
           last == CHOOSE k \in ends : \A j \in ends : k <= j
<1>1. /\ Taken(n, m, "GET_BLOCKS")
      /\ wire' = [Rest(n, m) EXCEPT ![n][m] = Append(@, BlocksMsg(ask.from, last))]
      /\ UNCHANGED <<height, seen, dial, peerHeight>>
  BY DEF OnGetBlocks
<1>2. /\ Carries(Rest(n, m), height) /\ ask \in Sound(height[m], height[n])
      /\ ask.type = "GET_BLOCKS"
  BY <1>1, RestCarries DEF Inv
<1>3. ask.from \in Nat \ {0} /\ ask.to \in Nat /\ height[n] \in Nat
  BY <1>2 DEF Sound, Msg, Inv, Shaped
<1> HIDE DEF ask
<1>4. ends \subseteq Nat /\ ends # {} /\ height[n] \in ends
  BY <1>3, GossipAssumption
<1>5. last \in ends /\ last <= height[n]
  <2> HIDE DEF ends
  <2>1. \E k \in ends : \A j \in ends : k <= j
    BY <1>4, LeastNat
  <2> QED BY <1>4, <2>1
<1>6. last \in Nat
  <2> HIDE DEF ends, last
  <2> QED BY <1>4, <1>5
<1> HIDE DEF ends, last
<1>7. BlocksMsg(ask.from, last) \in Sound(height[n], height[m])
  BY <1>3, <1>5, <1>6 DEF BlocksMsg, Sound, Msg
<1>8. Carries([Rest(n, m) EXCEPT ![n][m] = Append(@, BlocksMsg(ask.from, last))], height)
  BY <1>2, <1>7, SentCarries
<1>9. Shaped' /\ Below' /\ Believed'
  BY <1>1 DEF Inv, Shaped, Below, Believed
<1> QED BY <1>1, <1>8, <1>9 DEF Inv, Told

LEMMA BlocksKeepInv ==
  ASSUME Inv, NEW n \in Node, NEW m \in Node, OnBlocks(n, m) PROVE Inv'
<1> DEFINE batch == Head(wire[m][n])
           new == Synced(n, batch.from, batch.to)
<1>1. /\ Taken(n, m, "BLOCKS")
      /\ height' = [height EXCEPT ![n] = new]
      /\ seen' = [seen EXCEPT ![n] = @ \cup (height[n] + 1)..new]
      /\ wire' = IF new = height[n] THEN Rest(n, m)
                 ELSE BgRequest(Rest(n, m), n, m, new, peerHeight[n][m])
      /\ UNCHANGED <<dial, peerHeight>>
  BY DEF OnBlocks
<1>2. /\ Carries(Rest(n, m), height) /\ batch \in Sound(height[m], height[n])
      /\ batch.type = "BLOCKS"
  BY <1>1, RestCarries DEF Inv
<1>3. batch.from \in Nat \ {0} /\ batch.to \in Nat /\ batch.to <= height[m]
  BY <1>2 DEF Sound, Msg
<1> HIDE DEF batch
<1>4. new \in Nat /\ new >= height[n] /\ (new = height[n] \/ new <= batch.to)
  BY <1>3, SyncedIsBetween, GossipAssumption DEF Inv
<1> HIDE DEF new
<1>5. new <= MaxBlocks /\ new <= height[Sealer]
  BY <1>3, <1>4, GossipAssumption DEF Inv, Shaped, Below
<1>6. /\ height' \in [Node -> Nat] /\ Below'
      /\ \A a \in Node : height[a] <= height'[a]
      /\ \A x, y \in Node : peerHeight[x][y] <= height'[y]
  BY <1>1, <1>4, <1>5, GrowthKeepsBelow
<1>7. Shaped' /\ Believed'
  <2>1. (height[n] + 1)..new \subseteq Nat
    BY <1>4 DEF Inv, Shaped
  <2> QED BY <1>1, <1>6, <2>1 DEF Inv, Shaped, Believed
<1>8. Told'
  <2>1. PICK g : g = height'
    OBVIOUS
  <2>2. PICK w : w = Rest(n, m)
    OBVIOUS
  <2>3. g \in [Node -> Nat] /\ peerHeight[n][m] \in Nat /\ peerHeight[n][m] <= g[m]
    BY <1>6, <2>1 DEF Inv, Shaped
  <2>4. Carries(w, g)
    <3>1. height \in [Node -> Nat] /\ Carries(w, height) /\ \A a \in Node : height[a] <= g[a]
      BY <1>2, <1>6, <2>1, <2>2 DEF Inv, Shaped
    <3> QED BY <2>3, <3>1, CarriesGrows
  <2>5. Carries(BgRequest(w, n, m, new, peerHeight[n][m]), g)
    BY <1>4, <2>3, <2>4, RequestCarries
  <2> QED BY <1>1, <2>1, <2>2, <2>4, <2>5 DEF Told
<1> QED BY <1>6, <1>7, <1>8 DEF Inv

LEMMA InvNext == Inv /\ [BgNext]_bgVars => Inv'
<1> SUFFICES ASSUME Inv, [BgNext]_bgVars PROVE Inv'
  OBVIOUS
<1>1. ASSUME NEW p \in Dialled, Connect(p[1], p[2]) \/ GiveUp(p[1], p[2]) \/ Disconnect(p[1], p[2])
      PROVE  Inv'
  <2>1. p[1] \in Node /\ p[2] \in Node /\ <<p[1], p[2]>> \in Dialled
    <3>1. p \in Node \X Node
      BY DEF Inv, Shaped, Dialled
    <3>2. p = <<p[1], p[2]>> /\ p[1] \in Node /\ p[2] \in Node
      BY <3>1
    <3> QED BY <3>2
  <2> QED BY <1>1, <2>1, ConnectionsKeepInv
<1>2. CASE UNCHANGED bgVars
  BY <1>2 DEF bgVars, Inv, Shaped, Below, Believed, Told
<1>3. ASSUME NEW n \in Node, NEW m \in Node, BgReceive(n, m) PROVE Inv'
  BY <1>3, HandshakeKeepsInv, BlockKeepsInv, GetBlocksKeepsInv, BlocksKeepInv DEF BgReceive
<1> QED BY <1>1, <1>2, <1>3, SealKeepsInv, RebootKeepsInv DEF BgNext

-----------------------------------------------------------------------------
(* No node is ever ahead of the one that seals, and what a node believes   *)
(* of a peer's height, announces to it or asks of it is no more than the   *)
(* peer has: for any network, batch size, losses, kills and order of       *)
(* messages (P2PServer._on_handshake, _on_block, _on_get_blocks,           *)
(* _on_blocks).                                                            *)
THEOREM NobodyIsAhead == BgSpec => []NobodyAhead
<1>1. Inv => NobodyAhead
  <2> SUFFICES ASSUME Inv, NEW n \in Node, NEW m \in Node, NEW i \in DOMAIN wire[n][m]
               PROVE  wire[n][m][i] \in Sound(height[n], height[m])
    BY DEF NobodyAhead, Inv, Below, Believed, Sound
  <2>1. wire[n][m] \in Seq(Sound(height[n], height[m]))
    BY DEF Inv, Told, Carries
  <2> DEFINE S == Sound(height[n], height[m])
  <2> HIDE DEF S
  <2>2. wire[n][m] \in Seq(S)
    BY <2>1 DEF S
  <2>3. wire[n][m][i] \in S
    BY <2>2
  <2> QED BY <2>3 DEF S
<1> QED BY <1>1, InvInit, InvNext, PTL DEF BgSpec
=============================================================================
