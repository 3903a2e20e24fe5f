------------------------- MODULE EventStreamProofs -------------------------
(***************************************************************************)
(* Theorems about EventStream, for any clients, however many events the    *)
(* run appends and connections the server admits.                          *)
(***************************************************************************)
EXTENDS EventStream, SequenceTheorems, TLAPS

\* Every event of w is the successor of the message before it, the first one
\* of the message id.
Chain(id, w) ==
    \A n \in DOMAIN w : w[n] # Marker =>
       w[n] = 1 + ParseLastEventId(IF n = 1 THEN id ELSE w[n - 1])

\* The event a client that has received id and then w would resume after.
Tip(id, w) == ParseLastEventId(IF w = <<>> THEN id ELSE w[Len(w)])

Sending == {"listing", "yielding", "sleeping"}

(* A generator that still sends stands where its client will stand when it *)
(* has received what is on the wire.                                       *)
IInv ==
    /\ TypeOK /\ wire \in [Clients -> Seq(Ids)]
    /\ \A c \in Clients :
          /\ Chain(lastId[c], wire[c])
          /\ at[c] \in Sending => after[c] = Tip(lastId[c], wire[c])

-----------------------------------------------------------------------------
(* What the wire does to a chain.                                          *)
LEMMA ChainAppend ==
  ASSUME NEW id, NEW w \in Seq(Ids), Chain(id, w), NEW m \in Ids,
         m # Marker => m = 1 + Tip(id, w)
  PROVE  Chain(id, Append(w, m)) /\ Tip(id, Append(w, m)) = ParseLastEventId(m)
<1> DEFINE u == Append(w, m)
<1>1. /\ u \in Seq(Ids) /\ Len(u) = Len(w) + 1 /\ Len(w) \in Nat
      /\ \A i \in 1..Len(w) : u[i] = w[i]
      /\ u[Len(w) + 1] = m
  OBVIOUS
<1> HIDE DEF u
<1>2. Tip(id, u) = ParseLastEventId(m)
  BY <1>1 DEF Tip
<1>3. ASSUME NEW n \in DOMAIN u, u[n] # Marker
      PROVE  u[n] = 1 + ParseLastEventId(IF n = 1 THEN id ELSE u[n - 1])
  <2>1. n \in 1..(Len(w) + 1)
    BY <1>1
  <2>2. CASE n \in 1..Len(w)
    <3>1. u[n] = w[n] /\ n \in DOMAIN w /\ (n # 1 => u[n - 1] = w[n - 1])
      BY <1>1, <2>2
    <3>2. QED
      BY <1>3, <3>1 DEF Chain
  <2>3. CASE n = Len(w) + 1
    <3>1. u[n] = m /\ (n = 1 <=> w = <<>>) /\ (n # 1 => u[n - 1] = w[Len(w)])
      BY <1>1, <2>3
    <3>2. QED
      BY <1>3, <3>1 DEF Tip
  <2>4. QED
    BY <2>1, <2>2, <2>3
<1>4. QED
  BY <1>2, <1>3 DEF Chain, u

LEMMA ChainTail ==
  ASSUME NEW id, NEW w \in Seq(Ids), Chain(id, w), w # <<>>
  PROVE  Chain(Head(w), Tail(w)) /\ Tip(Head(w), Tail(w)) = Tip(id, w)
<1> DEFINE u == Tail(w)
<1>1. /\ u \in Seq(Ids) /\ Len(u) = Len(w) - 1 /\ Len(w) \in Nat \ {0} /\ Head(w) = w[1]
      /\ \A i \in 1..Len(u) : u[i] = w[i + 1]
  OBVIOUS
<1> HIDE DEF u
<1>2. Tip(Head(w), u) = Tip(id, w)
  BY <1>1 DEF Tip
<1>3. ASSUME NEW n \in DOMAIN u, u[n] # Marker
      PROVE  u[n] = 1 + ParseLastEventId(IF n = 1 THEN Head(w) ELSE u[n - 1])
  <2>1. /\ n + 1 \in DOMAIN w /\ n + 1 # 1 /\ (n + 1) - 1 = n
        /\ u[n] = w[n + 1] /\ (IF n = 1 THEN Head(w) ELSE u[n - 1]) = w[n]
    BY <1>1
  <2>2. QED
    BY <1>3, <2>1 DEF Chain
<1>4. QED
  BY <1>2, <1>3 DEF Chain, u

LEMMA ChainPrefix ==
  ASSUME NEW id, NEW w \in Seq(Ids), Chain(id, w), NEW k \in 0..Len(w)
  PROVE  SubSeq(w, 1, k) \in Seq(Ids) /\ Chain(id, SubSeq(w, 1, k))
<1> DEFINE u == SubSeq(w, 1, k)
<1>1. /\ u \in Seq(Ids) /\ Len(u) = k /\ Len(w) \in Nat
      /\ \A i \in 1..k : u[i] = w[i]
  OBVIOUS
<1> HIDE DEF u
<1>2. ASSUME NEW n \in DOMAIN u, u[n] # Marker
      PROVE  u[n] = 1 + ParseLastEventId(IF n = 1 THEN id ELSE u[n - 1])
  <2>1. n \in DOMAIN w /\ u[n] = w[n] /\ (n # 1 => u[n - 1] = w[n - 1])
    BY <1>1
  <2>2. QED
    BY <1>2, <2>1 DEF Chain
<1>3. QED
  BY <1>1, <1>2 DEF Chain, u

-----------------------------------------------------------------------------
LEMMA InitIInv == Init => IInv
<1> SUFFICES ASSUME Init PROVE IInv
  OBVIOUS
<1>1. TypeOK /\ wire \in [Clients -> Seq(Ids)]
  BY StreamAssumption DEF Init, TypeOK, Terminal, Final, None
<1>2. \A c \in Clients : Chain(lastId[c], wire[c]) /\ at[c] \notin Sending
  BY DEF Init, Chain, Sending
<1>3. QED
  BY <1>1, <1>2 DEF IInv

LEMMA NextKeepsIInv == IInv /\ [Next]_vars => IInv'
<1> SUFFICES ASSUME IInv, [Next]_vars PROVE IInv'
  OBVIOUS
<1>0. /\ MaxSeq \in Nat /\ MaxConnections \in Nat \ {0} /\ last \in -1..MaxSeq
      /\ at \in [Clients -> {"closed", "listing", "yielding", "sleeping", "closing"}]
      /\ after \in [Clients -> -1..MaxSeq] /\ listed \in [Clients -> -1..MaxSeq]
      /\ wire \in [Clients -> Seq(Ids)] /\ lastId \in [Clients -> Ids \cup {None}]
      /\ active \in 0..MaxConnections
      /\ status \in Terminal \cup {"running"}
  BY StreamAssumption DEF IInv, TypeOK
<1>1. CASE AppendEvent \/ SetStatus \/ UNCHANGED vars
  BY <1>0, <1>1 DEF AppendEvent, SetStatus, vars, serverVars, IInv, TypeOK, Terminal, Final
<1>2. ASSUME NEW c \in Clients, Open(c) PROVE IInv'
  <2>1. /\ at' = [at EXCEPT ![c] = "listing"]
        /\ after' = [after EXCEPT ![c] = ParseLastEventId(lastId[c])]
        /\ active' = active + 1 /\ active < MaxConnections /\ wire[c] = <<>>
        /\ UNCHANGED <<status, last, listed, wire, lastId>>
    BY <1>2 DEF Open, Go
  <2>2. ParseLastEventId(lastId[c]) \in -1..MaxSeq /\ ParseLastEventId(lastId[c]) = Tip(lastId[c], wire[c])
    BY <1>0, <2>1 DEF ParseLastEventId, Ids, None, Marker, Tip
  <2>3. TypeOK'
    BY <1>0, <2>1, <2>2 DEF TypeOK
  <2>4. QED
    BY <1>0, <2>1, <2>2, <2>3 DEF IInv
<1>3. ASSUME NEW c \in Clients, ListEvents(c) PROVE IInv'
  BY <1>0, <1>3 DEF ListEvents, Go, IInv, TypeOK, Sending
<1>4. ASSUME NEW c \in Clients, Yield(c) PROVE IInv'
  <2> DEFINE m == after[c] + 1
  <2>1. /\ at[c] = "yielding" /\ after[c] < listed[c]
        /\ after' = [after EXCEPT ![c] = m]
        /\ wire' = [wire EXCEPT ![c] = Append(wire[c], m)]
        /\ UNCHANGED <<status, last, at, listed, active, lastId>>
    BY <1>4 DEF Yield
  <2>2. m \in 0..MaxSeq /\ m \in Ids /\ m \in -1..MaxSeq /\ ParseLastEventId(m) = m
    BY <1>0, <2>1 DEF Ids, ParseLastEventId, Marker
  <2>3. m = 1 + Tip(lastId[c], wire[c]) /\ Chain(lastId[c], wire[c]) /\ wire[c] \in Seq(Ids)
    BY <1>0, <2>1 DEF IInv, Sending
  <2> HIDE DEF m
  <2>4. Chain(lastId[c], Append(wire[c], m)) /\ Tip(lastId[c], Append(wire[c], m)) = m
    BY <2>2, <2>3, ChainAppend
  <2>5. wire' \in [Clients -> Seq(Ids)] /\ after' \in [Clients -> -1..MaxSeq]
    BY <1>0, <2>1, <2>2
  <2>6. QED
    BY <1>0, <2>1, <2>4, <2>5 DEF IInv, TypeOK
<1>5. ASSUME NEW c \in Clients, CheckStatus(c) PROVE IInv'
  <2>1. UNCHANGED <<status, last, after, listed, active, lastId>>
    BY <1>5 DEF CheckStatus
  <2>2. CASE at' = [at EXCEPT ![c] = "sleeping"] /\ UNCHANGED wire
    BY <1>0, <1>5, <2>1, <2>2 DEF CheckStatus, IInv, TypeOK, Sending
  <2>3. CASE at' = [at EXCEPT ![c] = "closing"] /\ wire' = [wire EXCEPT ![c] = Append(wire[c], Marker)]
    <3>1. Marker \in Ids /\ wire[c] \in Seq(Ids) /\ Chain(lastId[c], wire[c])
      BY <1>0 DEF Ids, IInv
    <3>2. Chain(lastId[c], Append(wire[c], Marker))
      BY <3>1, ChainAppend
    <3>3. wire' \in [Clients -> Seq(Ids)]
      BY <1>0, <2>3, <3>1
    <3>4. QED
      BY <1>0, <2>1, <2>3, <3>2, <3>3 DEF IInv, TypeOK, Sending
  <2>4. QED
    BY <1>5, <2>2, <2>3 DEF CheckStatus, Go
<1>6. ASSUME NEW c \in Clients, Wake(c) \/ Close(c) PROVE IInv'
  <2>1. active' \in 0..MaxConnections
    BY <1>0, <1>6 DEF Wake, Close
  <2>2. QED
    BY <1>0, <1>6, <2>1 DEF Wake, Close, Go, IInv, TypeOK, Sending
<1>7. ASSUME NEW c \in Clients, Disconnect(c) PROVE IInv'
  <2>1. PICK k \in 0..Len(wire[c]) : wire' = [wire EXCEPT ![c] = SubSeq(wire[c], 1, k)]
    BY <1>7 DEF Disconnect
  <2>2. /\ \E place \in {"closed", "closing"} : at' = [at EXCEPT ![c] = place]
        /\ UNCHANGED <<status, last, after, listed, active, lastId>>
    BY <1>7 DEF Disconnect, Go
  <2>3. SubSeq(wire[c], 1, k) \in Seq(Ids) /\ Chain(lastId[c], SubSeq(wire[c], 1, k))
    BY <1>0, ChainPrefix DEF IInv
  <2>4. wire' \in [Clients -> Seq(Ids)]
    BY <1>0, <2>1, <2>3
  <2>5. QED
    BY <1>0, <2>1, <2>2, <2>3, <2>4 DEF IInv, TypeOK, Sending
<1>8. ASSUME NEW c \in Clients, Receive(c) PROVE IInv'
  <2>1. /\ wire[c] # <<>>
        /\ wire' = [wire EXCEPT ![c] = Tail(wire[c])]
        /\ lastId' = [lastId EXCEPT ![c] = Head(wire[c])]
        /\ UNCHANGED <<status, last, at, after, listed, active>>
    BY <1>8 DEF Receive, serverVars
  <2>2. wire[c] \in Seq(Ids) /\ Tail(wire[c]) \in Seq(Ids) /\ Head(wire[c]) \in Ids
    BY <1>0, <2>1
  <2>3. /\ Chain(Head(wire[c]), Tail(wire[c]))
        /\ Tip(Head(wire[c]), Tail(wire[c])) = Tip(lastId[c], wire[c])
    BY <2>1, <2>2, ChainTail DEF IInv
  <2>4. wire' \in [Clients -> Seq(Ids)] /\ lastId' \in [Clients -> Ids \cup {None}]
    BY <1>0, <2>1, <2>2
  <2>5. QED
    BY <1>0, <2>1, <2>3, <2>4 DEF IInv, TypeOK
<1>9. QED
  BY <1>1, <1>2, <1>3, <1>4, <1>5, <1>6, <1>7, <1>8 DEF Next, ServerStep

LEMMA Invariance == Spec => []IInv
BY InitIInv, NextKeepsIInv, PTL DEF Spec

(* Cursors, messages and the number of connections stay in their ranges;   *)
(* no more streams are counted than the server admits.                     *)
THEOREM StreamTypeCorrect == Spec => []TypeOK
<1>1. IInv => TypeOK
  BY DEF IInv
<1>2. QED
  BY <1>1, Invariance, PTL

(* Over broken connections, resumptions and polls that race with the       *)
(* executor, no event is left out and none is sent twice.                  *)
THEOREM EventsAreSuccessors == Spec => []NextIsSuccessor
<1>1. IInv => NextIsSuccessor
  BY DEF IInv, NextIsSuccessor, Chain, ParseLastEventId, None
<1>2. QED
  BY <1>1, Invariance, PTL
=============================================================================
