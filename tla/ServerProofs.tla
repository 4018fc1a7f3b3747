----------------------------- MODULE ServerProofs -----------------------------
(***************************************************************************)
(* Proofs about the MoldUDP64 server: what chunk_messages makes of any     *)
(* batch, and the invariants of MoldServer.                                *)
(***************************************************************************)
EXTENDS MoldServer, FoldProofs

-----------------------------------------------------------------------------
(* chunk_messages.                                                         *)

\* The locals of the loop.
ChunkState ==
    [chunks : Seq(Seq(Message)), current : Seq(Message), current_size : Nat]

\* A step of chunk_messages yields chunks of messages.
LEMMA AddToChunkType ==
  ASSUME NEW c \in ChunkState, NEW msg \in Message
  PROVE  AddToChunk(c, msg) \in ChunkState
<1>1. msg.len \in Nat
  BY MsgLenAssumption DEF Message
<1>2. <<msg>> \in Seq(Message) /\ Append(c.current, msg) \in Seq(Message)
  BY DEF ChunkState
<1>3. Append(c.chunks, c.current) \in Seq(Seq(Message))
  BY DEF ChunkState
<1>4. c.current_size + msg.len \in Nat
  BY <1>1 DEF ChunkState
<1> QED
  BY <1>1, <1>2, <1>3, <1>4 DEF AddToChunk, ChunkState

\* The states that the loop of chunk_messages goes through, one after each
\* message; what is left at its end is the last chunk.
ChunkRun(st, msgs) ==
    /\ st \in [0 .. Len(msgs) -> ChunkState]
    /\ st[0] = NoChunks
    /\ \A k \in 1 .. Len(msgs) : st[k] = AddToChunk(st[k - 1], msgs[k])

\* chunk_messages as a run over the batch: the fold is its last state.
LEMMA ChunkRunExists ==
  ASSUME NEW msgs \in Seq(Message)
  PROVE  \E st : /\ ChunkRun(st, msgs)
                 /\ FoldLeft(AddToChunk, NoChunks, msgs) = st[Len(msgs)]
<1> DEFINE D == DOMAIN msgs
           Iter(g) == g = [s \in SUBSET D |->
                             IF s = {} THEN NoChunks
                             ELSE AddToChunk(g[s \ {Max(s)}], msgs[Max(s)])]
           g == CHOOSE f : Iter(f)
<1>1. D = 1 .. Len(msgs) /\ Len(msgs) \in Nat /\ \A i \in D : msgs[i] \in Message
  OBVIOUS
<1>2. NoChunks \in ChunkState
  BY DEF NoChunks, ChunkState
<1>3. \A s \in SUBSET D : s # {} => Max(s) \in s /\ \A y \in s : y =< Max(s)
  <2> SUFFICES ASSUME NEW s \in SUBSET D, s # {}
               PROVE  Max(s) \in s /\ \A y \in s : y =< Max(s)
    OBVIOUS
  <2>1. s \in SUBSET (0 .. Len(msgs))
    BY <1>1
  <2> QED
    BY <1>1, <2>1, MaxOfBounded
<1>4. \E f : Iter(f)
  <2> DEFINE c == [s \in SUBSET D |-> Max(s)]
             op == [x \in D |-> [v \in ChunkState |-> AddToChunk(v, msgs[x])]]
  <2>1. op \in [D -> [ChunkState -> ChunkState]]
    BY <1>1, AddToChunkType
  <2>2. Chooses(c, D)
    BY <1>3 DEF Chooses
  <2>3. IsFiniteSet(D)
    BY <1>1, FS_Interval
  <2>4. \E f \in [SUBSET D -> ChunkState] : IsFold(f, D, NoChunks, c, op)
    <3> HIDE DEF D, c, op
    <3> QED
      BY ONLY <1>2, <2>1, <2>2, <2>3, FoldExists
  <2>5. PICK f \in [SUBSET D -> ChunkState] : \A s \in SUBSET D :
           f[s] = IF s = {} THEN NoChunks ELSE op[c[s]][f[s \ {c[s]}]]
    BY <2>4 DEF IsFold
  <2>6. ASSUME NEW s \in SUBSET D, s # {}
        PROVE  f[s] = AddToChunk(f[s \ {Max(s)}], msgs[Max(s)])
    <3>1. Max(s) \in D /\ s \ {Max(s)} \in SUBSET D
      BY <1>3, <2>6
    <3>2. f[s \ {Max(s)}] \in ChunkState
      BY <2>5, <3>1
    <3> QED
      BY <2>5, <2>6, <3>1, <3>2
  <2>7. Iter(f)
    BY <2>5, <2>6
  <2> QED
    BY <2>7
<1>5. Iter(g)
  BY <1>4
<1>6. FoldLeft(AddToChunk, NoChunks, msgs) = g[D]
  BY Zenon DEF FoldLeft, MapThenFoldSet
<1> DEFINE st == [k \in 0 .. Len(msgs) |-> g[1 .. k]]
<1> HIDE DEF g, D
<1>7. st[0] = NoChunks
  <2>1. 1 .. 0 = {} /\ {} \in SUBSET D
    OBVIOUS
  <2> QED
    BY <1>1, <1>5, <2>1
<1>8. ASSUME NEW k \in 1 .. Len(msgs)
      PROVE  st[k] = AddToChunk(st[k - 1], msgs[k])
  <2>1. 1 .. k \in SUBSET D /\ 1 .. k # {}
    <3>1. k \in 1 .. k
      OBVIOUS
    <3> QED
      BY <1>1, <3>1
  <2>2. Max(1 .. k) = k
    <3>1. Max(1 .. k) \in 1 .. k /\ k =< Max(1 .. k)
      BY <1>3, <2>1
    <3> QED
      BY <3>1
  <2>3. (1 .. k) \ {k} = 1 .. k - 1
    OBVIOUS
  <2>4. g[1 .. k] = AddToChunk(g[1 .. k - 1], msgs[k])
    BY <1>5, <2>1, <2>2, <2>3
  <2> QED
    BY <1>1, <2>4
<1>9. st \in [0 .. Len(msgs) -> ChunkState]
  <2> DEFINE Bad == {k \in 0 .. Len(msgs) : st[k] \notin ChunkState}
  <2> SUFFICES ASSUME Bad # {} PROVE FALSE
    OBVIOUS
  <2> HIDE DEF st
  <2>1. PICK k \in Bad : \A j \in Bad : k =< j
    <3>1. Bad \subseteq Nat
      BY <1>1
    <3> QED
      BY <3>1, LeastNatural
  <2>2. k # 0 /\ k - 1 \in 0 .. Len(msgs) /\ k - 1 \notin Bad
    BY <1>1, <1>2, <1>7, <2>1
  <2> QED
    BY <1>1, <1>8, <2>1, <2>2, AddToChunkType
<1>10. FoldLeft(AddToChunk, NoChunks, msgs) = st[Len(msgs)]
  BY <1>1, <1>6
<1> HIDE DEF st
<1> QED
  BY <1>7, <1>8, <1>9, <1>10 DEF ChunkRun

\* chunks cuts the first m messages into non-empty consecutive runs: off[i]
\* messages are in the first i chunks.
IsCut(chunks, msgs, m) ==
    \E off \in [0 .. Len(chunks) -> 0 .. m] :
        /\ off[0] = 0
        /\ off[Len(chunks)] = m
        /\ \A i \in 1 .. Len(chunks) :
              /\ Len(chunks[i]) > 0
              /\ off[i] = off[i - 1] + Len(chunks[i])
              /\ \A j \in 1 .. Len(chunks[i]) : chunks[i][j] = msgs[off[i - 1] + j]

\* A cut of the first m messages grows by the chunk that follows.
LEMMA CutExtends ==
  ASSUME NEW msgs \in Seq(Message), NEW chunks \in Seq(Seq(Message)),
         NEW chunk \in Seq(Message), chunk # <<>>,
         NEW m \in Nat, IsCut(chunks, msgs, m),
         \A j \in 1 .. Len(chunk) : chunk[j] = msgs[m + j]
  PROVE  IsCut(Append(chunks, chunk), msgs, m + Len(chunk))
<1> DEFINE n == Len(chunks)
           new == Append(chunks, chunk)
           Run(off, cs, i) ==
              /\ Len(cs[i]) > 0
              /\ off[i] = off[i - 1] + Len(cs[i])
              /\ \A j \in 1 .. Len(cs[i]) : cs[i][j] = msgs[off[i - 1] + j]
<1>1. PICK off \in [0 .. n -> 0 .. m] :
         off[0] = 0 /\ off[n] = m /\ \A i \in 1 .. n : Run(off, chunks, i)
  BY DEF IsCut
<1>2. /\ n \in Nat /\ Len(chunk) \in Nat /\ Len(chunk) > 0
      /\ Len(new) = n + 1 /\ new[n + 1] = chunk
      /\ \A i \in 1 .. n : new[i] = chunks[i]
  OBVIOUS
<1> DEFINE off2 == [i \in 0 .. n + 1 |->
                      IF i =< n THEN off[i] ELSE m + Len(chunk)]
<1> HIDE DEF new, n
<1>3. off2 \in [0 .. Len(new) -> 0 .. m + Len(chunk)]
  BY <1>1, <1>2
<1>4. off2[0] = 0 /\ off2[n] = m /\ off2[n + 1] = m + Len(chunk)
  BY <1>1, <1>2
<1>5. ASSUME NEW i \in 1 .. n PROVE Run(off2, new, i)
  <2>1. off2[i] = off[i] /\ off2[i - 1] = off[i - 1] /\ new[i] = chunks[i]
    BY <1>2
  <2>2. Run(off, chunks, i)
    BY <1>1
  <2> QED
    BY <2>1, <2>2
<1>6. Run(off2, new, n + 1)
  <2>1. (n + 1) - 1 = n
    BY <1>2
  <2> QED
    BY <1>2, <1>4, <2>1
<1> HIDE DEF off2
<1>7. \A i \in 1 .. Len(new) : Run(off2, new, i)
  <2> HIDE DEF Run
  <2>1. \A i \in 1 .. Len(new) : i \in 1 .. n \/ i = n + 1
    BY <1>2
  <2> QED
    BY <1>5, <1>6, <2>1
<1> QED
  BY <1>2, <1>3, <1>4, <1>7 DEF IsCut, new

\* After k messages, the finished chunks and the current one hold them in order.
LEMMA ChunkRunCuts ==
  ASSUME NEW msgs \in Seq(Message), NEW st, ChunkRun(st, msgs)
  PROVE  \A k \in 0 .. Len(msgs) : \E m \in Nat :
            /\ m + Len(st[k].current) = k
            /\ IsCut(st[k].chunks, msgs, m)
            /\ \A j \in 1 .. Len(st[k].current) : st[k].current[j] = msgs[m + j]
<1> DEFINE Cut(k, m) ==
              /\ m + Len(st[k].current) = k
              /\ IsCut(st[k].chunks, msgs, m)
              /\ \A j \in 1 .. Len(st[k].current) : st[k].current[j] = msgs[m + j]
           Bad == {k \in 0 .. Len(msgs) : ~ \E m \in Nat : Cut(k, m)}
<1>1. 0 \notin Bad
  <2>1. st[0].chunks = <<>> /\ st[0].current = <<>>
    BY DEF ChunkRun, NoChunks
  <2>2. IsCut(<<>>, msgs, 0)
    <3> DEFINE off == [i \in 0 .. 0 |-> 0]
    <3>1. off \in [0 .. Len(<<>>) -> 0 .. 0] /\ off[0] = 0 /\ off[Len(<<>>)] = 0
      OBVIOUS
    <3>2. 1 .. Len(<<>>) = {}
      OBVIOUS
    <3> HIDE DEF off
    <3> QED
      BY <3>1, <3>2 DEF IsCut
  <2>3. Cut(0, 0)
    BY <2>1, <2>2
  <2> QED
    BY <2>3
<1>2. ASSUME NEW k \in 1 .. Len(msgs), k - 1 \notin Bad PROVE k \notin Bad
  <2> DEFINE c == st[k - 1]
             msg == msgs[k]
  <2>1. c \in ChunkState /\ msg \in Message /\ st[k] = AddToChunk(c, msg)
    BY DEF ChunkRun
  <2>2. PICK m \in Nat : Cut(k - 1, m)
    <3>1. k - 1 \in 0 .. Len(msgs)
      OBVIOUS
    <3> HIDE DEF Cut
    <3> QED
      BY <1>2, <3>1
  <2>3. c.current \in Seq(Message) /\ c.chunks \in Seq(Seq(Message))
    BY <2>1 DEF ChunkState
  <2> HIDE DEF c, msg
  <2>4. CASE c.current # <<>> /\ c.current_size + msg.len > MaxPayload
    <3>1. /\ st[k].chunks = Append(c.chunks, c.current)
          /\ st[k].current = <<msg>>
      BY <2>1, <2>4 DEF AddToChunk
    <3>2. IsCut(st[k].chunks, msgs, m + Len(c.current))
      BY <2>2, <2>3, <2>4, <3>1, CutExtends DEF c
    <3>3. Cut(k, m + Len(c.current))
      BY <2>2, <2>3, <3>1, <3>2 DEF c, msg
    <3> HIDE DEF Cut
    <3> QED
      BY <2>3, <3>3
  <2>5. CASE ~(c.current # <<>> /\ c.current_size + msg.len > MaxPayload)
    <3>1. /\ st[k].chunks = c.chunks
          /\ st[k].current = Append(c.current, msg)
      BY <2>1, <2>5 DEF AddToChunk, ChunkState
    <3>2. Len(st[k].current) = Len(c.current) + 1
      BY <2>3, <3>1
    <3>3. m + Len(c.current) = k - 1
      BY <2>2 DEF c
    <3>4. ASSUME NEW j \in 1 .. Len(c.current) + 1
          PROVE  st[k].current[j] = msgs[m + j]
      <4>1. CASE j \in 1 .. Len(c.current)
        <5>1. st[k].current[j] = c.current[j]
          BY <2>3, <3>1, <4>1
        <5> QED
          BY <2>2, <4>1, <5>1 DEF c
      <4>2. CASE j = Len(c.current) + 1
        <5>1. m + j = k
          BY <2>3, <3>3, <4>2
        <5> QED
          BY <2>3, <3>1, <4>2, <5>1 DEF msg
      <4> QED
        BY <2>3, <4>1, <4>2
    <3>5. m + Len(st[k].current) = k
      BY <2>3, <3>2, <3>3
    <3>6. Cut(k, m)
      BY <2>2, <3>1, <3>2, <3>4, <3>5 DEF c
    <3> HIDE DEF Cut
    <3> QED
      BY <3>6
  <2> QED
    BY <2>4, <2>5
<1>3. Bad = {}
  <2> SUFFICES ASSUME Bad # {} PROVE FALSE
    OBVIOUS
  <2>1. Bad \subseteq Nat
    OBVIOUS
  <2> HIDE DEF Bad
  <2>2. PICK k \in Bad : \A j \in Bad : k =< j
    BY <2>1, LeastNatural
  <2>3. k \in 1 .. Len(msgs) /\ k - 1 \notin Bad
    <3>1. k \in 0 .. Len(msgs) /\ k # 0
      BY <1>1, <2>2 DEF Bad
    <3> QED
      BY <2>2, <3>1
  <2> QED
    BY <1>2, <2>2, <2>3
<1> QED
  BY <1>3

\* chunk_messages (server.rs) loses, repeats and reorders nothing, whatever the
\* lengths of the messages: the chunks, none of them empty, are the batch cut
\* into consecutive runs.
THEOREM ChunksCutTheBatch ==
  ASSUME NEW msgs \in Seq(Message)
  PROVE  /\ chunk_messages(msgs) \in Seq(Seq(Message))
         /\ IsCut(chunk_messages(msgs), msgs, Len(msgs))
<1>1. PICK st : /\ ChunkRun(st, msgs)
                /\ FoldLeft(AddToChunk, NoChunks, msgs) = st[Len(msgs)]
  BY ChunkRunExists
<1> DEFINE c == st[Len(msgs)]
<1>2. c \in ChunkState
  BY <1>1 DEF ChunkRun
<1>3. c.current \in Seq(Message) /\ c.chunks \in Seq(Seq(Message))
  BY <1>2 DEF ChunkState
<1>4. PICK m \in Nat :
        /\ m + Len(c.current) = Len(msgs)
        /\ IsCut(c.chunks, msgs, m)
        /\ \A j \in 1 .. Len(c.current) : c.current[j] = msgs[m + j]
  BY <1>1, ChunkRunCuts
<1>5. chunk_messages(msgs) =
         IF c.current = <<>> THEN c.chunks ELSE Append(c.chunks, c.current)
  BY <1>1 DEF chunk_messages
<1> HIDE DEF c
<1>6. CASE c.current = <<>>
  <2>1. m = Len(msgs)
    BY <1>4, <1>6
  <2> QED
    BY <1>3, <1>4, <1>5, <1>6, <2>1
<1>7. CASE c.current # <<>>
  <2>1. Append(c.chunks, c.current) \in Seq(Seq(Message))
    BY <1>3
  <2>2. IsCut(Append(c.chunks, c.current), msgs, m + Len(c.current))
    BY <1>3, <1>4, <1>7, CutExtends
  <2> QED
    BY <1>4, <1>5, <1>7, <2>1, <2>2
<1> QED
  BY <1>6, <1>7

\* No chunk is longer than the batch.
LEMMA ChunkLength ==
  ASSUME NEW msgs \in Seq(Message), NEW i \in DOMAIN chunk_messages(msgs)
  PROVE  /\ chunk_messages(msgs)[i] \in Seq(Message)
         /\ Len(chunk_messages(msgs)[i]) \in 1 .. Len(msgs)
<1> DEFINE chunks == chunk_messages(msgs)
<1>1. chunks \in Seq(Seq(Message)) /\ IsCut(chunks, msgs, Len(msgs))
  BY ChunksCutTheBatch
<1> HIDE DEF chunks
<1>2. i \in 1 .. Len(chunks)
  BY <1>1 DEF chunks
<1>3. chunks[i] \in Seq(Message)
  BY <1>1, <1>2
<1>4. PICK off \in [0 .. Len(chunks) -> 0 .. Len(msgs)] :
         Len(chunks[i]) > 0 /\ off[i] = off[i - 1] + Len(chunks[i])
  BY <1>1, <1>2 DEF IsCut
<1>5. off[i] \in 0 .. Len(msgs) /\ off[i - 1] \in 0 .. Len(msgs)
  BY <1>1, <1>2, <1>4
<1>6. Len(chunks[i]) \in 1 .. Len(msgs)
  BY <1>3, <1>4, <1>5
<1> QED
  BY <1>3, <1>6 DEF chunks

\* Multiplication is monotone.
LEMMA ProductGrows ==
  ASSUME NEW a \in Nat, NEW b \in Nat, NEW c \in Nat, a =< b
  PROVE  a * c =< b * c
<1>1. PICK d \in Nat : b = a + d
  OBVIOUS
<1>2. b * c = a * c + d * c /\ d * c \in Nat /\ a * c \in Nat
  BY <1>1
<1> QED
  BY <1>2

\* Messages that fit one packet together are one chunk.
LEMMA OneChunk ==
  ASSUME NEW msgs \in Seq(Message), msgs # <<>>,
         NEW L \in Nat, MsgLen \subseteq 0 .. L, Len(msgs) * L =< MaxPayload
  PROVE  chunk_messages(msgs) = <<msgs>>
<1>1. PICK st : /\ ChunkRun(st, msgs)
                /\ FoldLeft(AddToChunk, NoChunks, msgs) = st[Len(msgs)]
  BY ChunkRunExists
<1>2. Len(msgs) \in Nat /\ Len(msgs) > 0
  OBVIOUS
<1> DEFINE One(k) == /\ st[k].chunks = <<>>
                     /\ Len(st[k].current) = k
                     /\ \A j \in 1 .. k : st[k].current[j] = msgs[j]
                     /\ st[k].current_size =< k * L
           Bad == {k \in 0 .. Len(msgs) : ~One(k)}
<1>3. 0 \notin Bad
  <2>1. st[0].chunks = <<>> /\ st[0].current = <<>> /\ st[0].current_size = 0
    BY <1>1 DEF ChunkRun, NoChunks
  <2>2. One(0)
    BY <2>1
  <2> QED
    BY <2>2
<1>4. ASSUME NEW k \in 1 .. Len(msgs), k - 1 \notin Bad PROVE k \notin Bad
  <2> DEFINE c == st[k - 1]
             msg == msgs[k]
  <2>1. c \in ChunkState /\ msg \in Message /\ st[k] = AddToChunk(c, msg)
    BY <1>1 DEF ChunkRun
  <2>2. c.current \in Seq(Message) /\ c.current_size \in Nat
    BY <2>1 DEF ChunkState
  <2>3. msg.len \in 0 .. L
    BY <2>1 DEF Message
  <2>4. One(k - 1)
    <3>1. k - 1 \in 0 .. Len(msgs)
      OBVIOUS
    <3> HIDE DEF One
    <3> QED
      BY <1>4, <3>1
  <2> HIDE DEF c, msg
  <2>5. c.chunks = <<>> /\ Len(c.current) = k - 1 /\ c.current_size =< (k - 1) * L
    BY <2>4 DEF c
  <2>6. c.current_size + msg.len =< k * L
    <3>1. (k - 1) * L + L = k * L /\ (k - 1) * L \in Nat
      OBVIOUS
    <3> QED
      BY <2>2, <2>3, <2>5, <3>1
  <2>7. k * L =< MaxPayload
    <3>1. k * L =< Len(msgs) * L
      BY <1>2, ProductGrows
    <3> QED
      BY <1>2, <3>1, MaxPayloadAssumption
  <2>8. ~(c.current_size + msg.len > MaxPayload)
    BY <2>2, <2>3, <2>6, <2>7, MaxPayloadAssumption
  <2>9. /\ st[k].chunks = <<>> /\ st[k].current = Append(c.current, msg)
        /\ st[k].current_size = c.current_size + msg.len
    BY <2>1, <2>5, <2>8 DEF AddToChunk, ChunkState
  <2>10. ASSUME NEW j \in 1 .. k PROVE st[k].current[j] = msgs[j]
    <3>1. CASE j \in 1 .. k - 1
      BY <2>2, <2>4, <2>5, <2>9, <3>1 DEF c
    <3>2. CASE j = k
      BY <2>2, <2>5, <2>9, <3>2 DEF msg
    <3> QED
      BY <3>1, <3>2
  <2>11. Len(st[k].current) = k
    BY <2>2, <2>5, <2>9
  <2>12. One(k)
    BY <2>6, <2>9, <2>10, <2>11
  <2> HIDE DEF One
  <2> QED
    BY <2>12
<1>5. Bad = {}
  <2> SUFFICES ASSUME Bad # {} PROVE FALSE
    OBVIOUS
  <2>1. Bad \subseteq Nat
    OBVIOUS
  <2> HIDE DEF Bad
  <2>2. PICK k \in Bad : \A j \in Bad : k =< j
    BY <2>1, LeastNatural
  <2>3. k \in 1 .. Len(msgs) /\ k - 1 \notin Bad
    <3>1. k \in 0 .. Len(msgs) /\ k # 0
      BY <1>3, <2>2 DEF Bad
    <3> QED
      BY <2>2, <3>1
  <2> QED
    BY <1>4, <2>2, <2>3
<1>6. One(Len(msgs))
  <2>1. Len(msgs) \in 0 .. Len(msgs)
    BY <1>2
  <2> HIDE DEF One
  <2> QED
    BY <1>5, <2>1
<1> DEFINE c == st[Len(msgs)]
<1>7. c.current \in Seq(Message)
  BY <1>1, <1>2 DEF ChunkRun, ChunkState
<1>8. c.current = msgs
  BY <1>6, <1>7
<1>9. chunk_messages(msgs) = Append(c.chunks, c.current)
  BY <1>1, <1>8 DEF chunk_messages
<1> QED
  BY <1>6, <1>8, <1>9

-----------------------------------------------------------------------------
(* The inductive invariant of the server.                                  *)

IsBatch(cmd) == cmd.op \in {"Send", "SendDropped"}

Handed(cmd) == IF IsBatch(cmd) THEN Len(cmd.msgs) ELSE 0

ServerTypes ==
    /\ {handles, running, stopped} \subseteq BOOLEAN
    /\ cmds \in Seq(Command) /\ Len(cmds) =< QueueSize
    /\ session \in Session
    /\ next_seq \in Nat /\ FirstSeq =< next_seq
    /\ DOMAIN log \subseteq Nat /\ log \in [DOMAIN log -> Message]
    /\ calls \in 0 .. MaxCalls /\ submitted \in 0 .. MaxMsgs
    /\ closing \subseteq 0 .. MaxMsgs

BatchSizes ==
    \A i \in 1 .. Len(cmds) :
       IsBatch(cmds[i]) => Len(cmds[i].msgs) =< MaxBatch /\ Len(cmds[i].msgs) =< MaxMsgs

\* base[i] messages were handed over before the command at i: the queue
\* continues the log, up to the last message handed over, and once shutdown()
\* was called its first StopSession stands where `closing' says.
QueuedFrom(base) ==
    /\ base[1] = next_seq - FirstSeq
    /\ base[Len(cmds) + 1] = submitted
    /\ \A i \in 1 .. Len(cmds) :
          /\ base[i + 1] = base[i] + Handed(cmds[i])
          /\ IsBatch(cmds[i]) =>
                \A j \in 1 .. Len(cmds[i].msgs) : cmds[i].msgs[j].no = base[i] + j
    /\ closing = {} => \A i \in 1 .. Len(cmds) : cmds[i].op # "StopSession"
    /\ closing # {} =>
          \E i \in 1 .. Len(cmds) :
             /\ cmds[i].op = "StopSession"
             /\ closing = {base[i]}
             /\ \A j \in 1 .. i - 1 : cmds[j].op # "StopSession"

QueueContinues ==
    ~stopped => \E base \in [1 .. Len(cmds) + 1 -> 0 .. MaxMsgs] : QueuedFrom(base)

\* A packet without messages, which says which number comes next, or one with
\* messages, under numbers that are in the log.
Special(p) ==
    /\ p.messages = <<>>
    /\ p.msg_count \in {HEARTBEAT_IDENT, END_OF_SESSION_IDENT}
    /\ FirstSeq =< p.seq_num /\ p.seq_num =< next_seq

Data(p) ==
    /\ p.messages \in Seq(Message)
    /\ p.msg_count = Len(p.messages) /\ p.msg_count > 0
    /\ FirstSeq =< p.seq_num /\ p.seq_num + p.msg_count =< next_seq

WellFormed(p) ==
    /\ p = [session |-> p.session, seq_num |-> p.seq_num,
            msg_count |-> p.msg_count, messages |-> p.messages]
    /\ p.session \in Session /\ p.seq_num \in Nat

LivePacket(p) ==
    /\ WellFormed(p)
    /\ \/ Special(p)
       \/ Data(p) /\ p.msg_count =< MaxBatch /\ p.msg_count =< MaxMsgs

AnswerPacket(p) == WellFormed(p) /\ Data(p) /\ p.msg_count =< U16Max

PacketsReached ==
    /\ \A p \in multicast : LivePacket(p)
    /\ \A p \in answers : AnswerPacket(p)

ServerInv ==
    /\ ServerTypes
    /\ BatchSizes
    /\ StreamIntact
    /\ QueueContinues
    /\ PacketsReached

\* The fields of a command have the types its kind gives them.
LEMMA CommandFields ==
  ASSUME NEW cmd \in Command
  PROVE  /\ IsBatch(cmd) => cmd.msgs \in Seq(Message)
         /\ cmd.op = "ChangeSession" => cmd.session \in Session
         /\ Handed(cmd) \in Nat
<1>1. IsBatch(cmd) => cmd.msgs \in Seq(Message)
  BY DEF Command, IsBatch
<1>2. cmd.op = "ChangeSession" => cmd.session \in Session
  BY DEF Command
<1>3. Handed(cmd) \in Nat
  BY <1>1 DEF Handed
<1> QED
  BY <1>1, <1>2, <1>3

\* ServerInv holds when the server starts.
LEMMA ServerInitInv == ServerInit => ServerInv
<1> SUFFICES ASSUME ServerInit PROVE ServerInv
  OBVIOUS
<1> USE DEF ServerInit
<1>1. ServerTypes
  <2>1. DOMAIN log = {} /\ log \in [{} -> Message]
    OBVIOUS
  <2>2. cmds \in Seq(Command) /\ Len(cmds) = 0
    OBVIOUS
  <2>3. {handles, running, stopped} \subseteq BOOLEAN
    OBVIOUS
  <2>4. /\ next_seq \in Nat /\ FirstSeq =< next_seq
        /\ Len(cmds) =< QueueSize
        /\ calls \in 0 .. MaxCalls /\ submitted \in 0 .. MaxMsgs
        /\ closing \subseteq 0 .. MaxMsgs
    BY <2>2, FirstSeqAssumption, BoundsAssumption
  <2>5. session \in Session
    BY FirstSessionAssumption
  <2> QED
    BY <2>1, <2>2, <2>3, <2>4, <2>5 DEF ServerTypes
<1>2. Len(cmds) = 0 /\ 1 .. Len(cmds) = {}
  OBVIOUS
<1>3. BatchSizes
  BY <1>2 DEF BatchSizes
<1>4. StreamIntact
  BY FirstSeqAssumption DEF StreamIntact
<1>5. QueueContinues
  <2> DEFINE base == [i \in 1 .. 1 |-> 0]
  <2>1. base \in [1 .. Len(cmds) + 1 -> 0 .. MaxMsgs] /\ base[1] = 0
    BY <1>2, BoundsAssumption
  <2>2. QueuedFrom(base)
    BY <1>2, <2>1, FirstSeqAssumption DEF QueuedFrom
  <2> QED
    BY <2>1, <2>2 DEF QueueContinues
<1>6. PacketsReached
  BY DEF PacketsReached
<1> QED
  BY <1>1, <1>3, <1>4, <1>5, <1>6 DEF ServerInv

-----------------------------------------------------------------------------
(* Calls of the handles.                                                   *)

\* A command goes to the back of the queue, a batch with the next numbers.
LEMMA SubmitInv ==
  ASSUME ServerInv, NEW cmd \in Command, Submit(cmd),
         submitted' = submitted + Handed(cmd), submitted' =< MaxMsgs,
         closing' = IF cmd.op = "StopSession" /\ closing = {}
                    THEN {submitted} ELSE closing,
         IsBatch(cmd) =>
            /\ Len(cmd.msgs) =< MaxBatch
            /\ \A j \in 1 .. Len(cmd.msgs) : cmd.msgs[j].no = submitted + j
  PROVE  ServerInv'
<1> USE DEF ServerInv
<1>1. /\ cmds \in Seq(Command) /\ Len(cmds) < QueueSize /\ cmds' = Append(cmds, cmd)
      /\ submitted \in 0 .. MaxMsgs /\ closing \subseteq 0 .. MaxMsgs
      /\ UNCHANGED <<senderVars, handles, multicast, answers>>
  BY DEF ServerTypes, Submit
<1>2. /\ Len(cmds) \in Nat
      /\ cmds' \in Seq(Command) /\ Len(cmds') = Len(cmds) + 1
      /\ cmds'[Len(cmds) + 1] = cmd
      /\ \A i \in 1 .. Len(cmds) : cmds'[i] = cmds[i]
  BY <1>1
<1>3. submitted' \in 0 .. MaxMsgs
  BY <1>1, CommandFields, BoundsAssumption
<1>4. ServerTypes'
  <2>1. closing' \subseteq 0 .. MaxMsgs
    BY <1>1
  <2>2. calls' \in 0 .. MaxCalls
    BY BoundsAssumption DEF Submit, ServerTypes
  <2>3. Len(cmds') =< QueueSize
    BY <1>1, <1>2, BoundsAssumption
  <2> QED
    BY <1>1, <1>2, <1>3, <2>1, <2>2, <2>3 DEF ServerTypes, senderVars
<1>5. BatchSizes'
  <2> SUFFICES ASSUME NEW i \in 1 .. Len(cmds) + 1, IsBatch(cmds'[i])
               PROVE  Len(cmds'[i].msgs) =< MaxBatch /\ Len(cmds'[i].msgs) =< MaxMsgs
    BY <1>2 DEF BatchSizes, IsBatch
  <2>1. CASE i \in 1 .. Len(cmds)
    BY <1>2, <2>1 DEF BatchSizes, IsBatch
  <2>2. CASE i = Len(cmds) + 1
    <3>1. cmd.msgs \in Seq(Message) /\ Handed(cmd) = Len(cmd.msgs)
      BY <1>2, <2>2, CommandFields DEF Handed
    <3> QED
      BY <1>1, <1>2, <2>2, <3>1, BoundsAssumption
  <2> QED
    BY <1>2, <2>1, <2>2
<1>6. StreamIntact'
  <2>1. stopped => closing' = closing
    BY DEF StreamIntact
  <2> QED
    BY <1>1, <2>1 DEF StreamIntact, senderVars
<1>7. QueueContinues'
  <2> SUFFICES ASSUME ~stopped
               PROVE  \E base \in [1 .. Len(cmds) + 2 -> 0 .. MaxMsgs] : QueuedFrom(base)'
    BY <1>1, <1>2 DEF QueueContinues, senderVars
  <2>1. PICK old \in [1 .. Len(cmds) + 1 -> 0 .. MaxMsgs] : QueuedFrom(old)
    BY DEF QueueContinues
  <2>2. \E base \in [1 .. Len(cmds) + 2 -> 0 .. MaxMsgs] :
           /\ \A i \in 1 .. Len(cmds) + 1 : base[i] = old[i]
           /\ base[Len(cmds) + 2] = submitted'
    <3> DEFINE new == [i \in 1 .. Len(cmds) + 2 |->
                         IF i =< Len(cmds) + 1 THEN old[i] ELSE submitted']
    <3>1. new \in [1 .. Len(cmds) + 2 -> 0 .. MaxMsgs]
      BY <1>2, <1>3, <2>1
    <3>2. /\ \A i \in 1 .. Len(cmds) + 1 : new[i] = old[i]
          /\ new[Len(cmds) + 2] = submitted'
      BY <1>2
    <3> QED
      BY <3>1, <3>2
  <2>3. PICK base \in [1 .. Len(cmds) + 2 -> 0 .. MaxMsgs] :
           /\ \A i \in 1 .. Len(cmds) + 1 : base[i] = old[i]
           /\ base[Len(cmds) + 2] = submitted'
    BY <2>2
  <2>4. base[1] = (next_seq - FirstSeq)'
    BY <1>1, <1>2, <2>1, <2>3 DEF QueuedFrom, senderVars
  <2>5. base[Len(cmds') + 1] = submitted'
    BY <1>2, <2>3
  <2>6. ASSUME NEW i \in 1 .. Len(cmds')
        PROVE  /\ base[i + 1] = base[i] + Handed(cmds'[i])
               /\ IsBatch(cmds'[i]) =>
                    \A j \in 1 .. Len(cmds'[i].msgs) : cmds'[i].msgs[j].no = base[i] + j
    <3>1. CASE i \in 1 .. Len(cmds)
      <4>1. base[i] = old[i] /\ base[i + 1] = old[i + 1] /\ cmds'[i] = cmds[i]
        BY <1>2, <2>3, <3>1
      <4> QED
        BY <2>1, <3>1, <4>1 DEF QueuedFrom
    <3>2. CASE i = Len(cmds) + 1
      <4>1. base[i] = submitted /\ base[i + 1] = submitted' /\ cmds'[i] = cmd
        BY <1>2, <2>1, <2>3, <3>2 DEF QueuedFrom
      <4> QED
        BY <4>1
    <3> QED
      BY <1>2, <3>1, <3>2
  <2>7. ASSUME closing' = {}, NEW i \in 1 .. Len(cmds')
        PROVE  cmds'[i].op # "StopSession"
    <3>1. closing = {} /\ cmd.op # "StopSession"
      BY <2>7
    <3> QED
      BY <1>2, <2>1, <3>1 DEF QueuedFrom
  <2>8. ASSUME closing' # {}
        PROVE  \E i \in 1 .. Len(cmds') :
                  /\ cmds'[i].op = "StopSession"
                  /\ closing' = {base[i]}
                  /\ \A j \in 1 .. i - 1 : cmds'[j].op # "StopSession"
    <3>1. CASE closing = {}
      <4>1. cmd.op = "StopSession" /\ closing' = {submitted}
        BY <2>8, <3>1
      <4>2. base[Len(cmds) + 1] = submitted
        BY <1>2, <2>1, <2>3 DEF QueuedFrom
      <4>3. \A j \in 1 .. Len(cmds) : cmds'[j].op # "StopSession"
        BY <1>2, <2>1, <3>1 DEF QueuedFrom
      <4> QED
        BY <1>2, <4>1, <4>2, <4>3
    <3>2. CASE closing # {}
      <4>1. PICK i \in 1 .. Len(cmds) :
               /\ cmds[i].op = "StopSession"
               /\ closing = {old[i]}
               /\ \A j \in 1 .. i - 1 : cmds[j].op # "StopSession"
        BY <2>1, <3>2 DEF QueuedFrom
      <4>2. i \in 1 .. Len(cmds') /\ cmds'[i].op = "StopSession"
        BY <1>2, <4>1
      <4>3. closing' = {base[i]}
        <5>1. closing' = closing
          BY <3>2
        <5>2. base[i] = old[i]
          BY <1>2, <2>3
        <5> QED
          BY <4>1, <5>1, <5>2
      <4>4. \A j \in 1 .. i - 1 : cmds'[j].op # "StopSession"
        <5>1. \A j \in 1 .. i - 1 : j \in 1 .. Len(cmds)
          BY <1>2
        <5> QED
          BY <1>2, <4>1, <5>1
      <4> QED
        BY <4>2, <4>3, <4>4
    <3> QED
      BY <3>1, <3>2
  <2>9. QueuedFrom(base)'
    BY <2>4, <2>5, <2>6, <2>7, <2>8 DEF QueuedFrom, IsBatch, Handed
  <2> QED
    BY <2>3, <2>9
<1>8. PacketsReached'
  BY <1>1 DEF PacketsReached, LivePacket, AnswerPacket, Special, Data, senderVars
<1> QED
  BY <1>4, <1>5, <1>6, <1>7, <1>8

\* A handle that queues a batch extends the stream by it.
LEMMA SubmitBatchInv ==
  ASSUME ServerInv, NEW op \in {"Send", "SendDropped"}, NEW lens \in Batches,
         SubmitBatch(op, lens)
  PROVE  ServerInv'
<1>1. PICK n \in 0 .. MaxBatch : lens \in [1 .. n -> MsgLen]
  BY DEF Batches
<1> DEFINE msgs == [i \in DOMAIN lens |-> [no |-> submitted + i, len |-> lens[i]]]
           cmd == [op |-> op, msgs |-> msgs]
<1>2. n \in Nat /\ DOMAIN lens = 1 .. n /\ Len(lens) = n
  <2>1. n \in Nat
    BY BoundsAssumption
  <2>2. lens \in Seq(MsgLen)
    BY <1>1, <2>1
  <2> QED
    BY <1>1, <2>1, <2>2
<1>3. submitted \in Nat
  BY DEF ServerInv, ServerTypes
<1>4. msgs \in Seq(Message) /\ Len(msgs) = n /\ \A j \in 1 .. n : msgs[j].no = submitted + j
  <2>1. msgs \in [1 .. n -> Message]
    BY <1>1, <1>2, <1>3 DEF Message
  <2>2. msgs \in Seq(Message)
    BY <1>2, <2>1
  <2> QED
    BY <1>2, <2>1, <2>2
<1>5. /\ submitted + n =< MaxMsgs /\ Submit(cmd)
      /\ submitted' = submitted + n /\ closing' = closing
  BY <1>2 DEF SubmitBatch
<1> HIDE DEF msgs
<1>6. /\ cmd \in Command /\ cmd.op # "StopSession" /\ IsBatch(cmd)
      /\ cmd.msgs = msgs /\ Handed(cmd) = n
  BY <1>4 DEF Command, IsBatch, Handed
<1> HIDE DEF cmd
<1>7. n =< MaxBatch
  BY BoundsAssumption
<1> QED
  BY <1>4, <1>5, <1>6, <1>7, SubmitInv

\* A call that hands over no messages.
LEMMA SubmitOtherInv ==
  ASSUME ServerInv, NEW cmd \in Command, ~IsBatch(cmd), Submit(cmd),
         submitted' = submitted,
         closing' = IF cmd.op = "StopSession" /\ closing = {}
                    THEN {submitted} ELSE closing
  PROVE  ServerInv'
<1>1. submitted \in 0 .. MaxMsgs /\ Handed(cmd) = 0
  BY DEF ServerInv, ServerTypes, Handed
<1>2. submitted' = submitted + Handed(cmd) /\ submitted' =< MaxMsgs
  BY <1>1, BoundsAssumption
<1> QED
  BY <1>2, SubmitInv

\* Steps that touch neither the queue nor its numbers keep QueueContinues.
LEMMA QueueUnchanged ==
  ASSUME QueueContinues, UNCHANGED <<cmds, stopped, next_seq, submitted, closing>>
  PROVE  QueueContinues'
<1>1. ASSUME NEW base, QueuedFrom(base) PROVE QueuedFrom(base)'
  BY <1>1 DEF QueuedFrom, IsBatch, Handed
<1> QED
  BY <1>1 DEF QueueContinues

\* The handles' calls keep ServerInv.
LEMMA HandleStepInv ==
  ASSUME ServerInv, HandleStep
  PROVE  ServerInv'
<1>1. CASE \E lens \in Batches : SubmitBatch("Send", lens)
  BY <1>1, SubmitBatchInv
<1>2. CASE \E lens \in Batches : SubmitBatch("SendDropped", lens)
  BY <1>2, SubmitBatchInv
<1>3. ASSUME NEW op \in {"Heartbeat", "EndOfSession"}, SubmitSpecial(op)
      PROVE  ServerInv'
  <2> DEFINE cmd == [op |-> op]
  <2>1. cmd \in Command /\ ~IsBatch(cmd) /\ cmd.op # "StopSession"
    BY DEF Command, IsBatch
  <2>2. Submit(cmd) /\ submitted' = submitted /\ closing' = closing
    BY <1>3 DEF SubmitSpecial
  <2> HIDE DEF cmd
  <2> QED
    BY <2>1, <2>2, SubmitOtherInv
<1>4. ASSUME NEW s \in Session, ChangeSession(s) PROVE ServerInv'
  <2> DEFINE cmd == [op |-> "ChangeSession", session |-> s]
  <2>1. cmd \in Command /\ ~IsBatch(cmd) /\ cmd.op # "StopSession"
    BY DEF Command, IsBatch
  <2>2. Submit(cmd) /\ submitted' = submitted /\ closing' = closing
    BY <1>4 DEF ChangeSession
  <2> HIDE DEF cmd
  <2> QED
    BY <2>1, <2>2, SubmitOtherInv
<1>5. CASE Shutdown
  <2> DEFINE cmd == [op |-> "StopSession"]
  <2>1. cmd \in Command /\ ~IsBatch(cmd) /\ cmd.op = "StopSession"
    BY DEF Command, IsBatch
  <2>2. /\ Submit(cmd) /\ submitted' = submitted
        /\ closing' = IF closing = {} THEN {submitted} ELSE closing
    BY <1>5 DEF Shutdown
  <2> HIDE DEF cmd
  <2> QED
    BY <2>1, <2>2, SubmitOtherInv
<1>6. CASE DropHandles
  <2>1. /\ handles' = FALSE
        /\ UNCHANGED <<senderVars, cmds, multicast, answers, calls, submitted, closing>>
    BY <1>6 DEF DropHandles
  <2>2. ServerTypes'
    BY <2>1 DEF ServerInv, ServerTypes, senderVars
  <2>3. BatchSizes' /\ StreamIntact' /\ PacketsReached'
    BY <2>1 DEF ServerInv, BatchSizes, IsBatch, StreamIntact, PacketsReached,
                LivePacket, AnswerPacket, Special, Data, senderVars
  <2>4. QueueContinues'
    BY <2>1, QueueUnchanged DEF ServerInv, senderVars
  <2> QED
    BY <2>2, <2>3, <2>4 DEF ServerInv
<1> QED
  BY <1>1, <1>2, <1>3, <1>4, <1>5, <1>6 DEF HandleStep

-----------------------------------------------------------------------------
(* The sender thread.                                                      *)

\* The queue after its first command is taken.
LEMMA TakenQueue ==
  ASSUME ServerInv, cmds # <<>>, cmds' = Tail(cmds)
  PROVE  /\ Head(cmds) \in Command /\ Head(cmds) = cmds[1]
         /\ cmds' \in Seq(Command) /\ Len(cmds) \in Nat \ {0}
         /\ Len(cmds') = Len(cmds) - 1
         /\ \A i \in 1 .. Len(cmds') : cmds'[i] = cmds[i + 1]
         /\ Len(cmds') =< QueueSize
         /\ BatchSizes'
<1>1. cmds \in Seq(Command) /\ Len(cmds) =< QueueSize
  BY DEF ServerInv, ServerTypes
<1>2. /\ Head(cmds) \in Command /\ Head(cmds) = cmds[1]
      /\ cmds' \in Seq(Command) /\ Len(cmds) \in Nat \ {0}
      /\ Len(cmds') = Len(cmds) - 1
      /\ \A i \in 1 .. Len(cmds') : cmds'[i] = cmds[i + 1]
  BY <1>1
<1>3. Len(cmds') =< QueueSize
  BY <1>1, <1>2, BoundsAssumption
<1>4. \A i \in 1 .. Len(cmds') : i + 1 \in 1 .. Len(cmds)
  BY <1>2
<1>5. BatchSizes'
  BY <1>2, <1>4 DEF ServerInv, BatchSizes, IsBatch
<1> QED
  BY <1>2, <1>3, <1>5

\* A command other than StopSession is taken, and its messages, if any, are
\* appended to the log: the rest of the queue continues the log.
LEMMA TakenContinues ==
  ASSUME ServerInv, cmds # <<>>, cmds' = Tail(cmds),
         Head(cmds).op # "StopSession",
         UNCHANGED <<stopped, submitted, closing>>,
         ~stopped => next_seq' = next_seq + Handed(Head(cmds))
  PROVE  QueueContinues'
<1> SUFFICES ASSUME ~stopped
             PROVE  \E base \in [1 .. Len(cmds) -> 0 .. MaxMsgs] : QueuedFrom(base)'
  BY TakenQueue DEF QueueContinues
<1>1. /\ Head(cmds) \in Command /\ Head(cmds) = cmds[1]
      /\ Len(cmds) \in Nat \ {0} /\ Len(cmds') = Len(cmds) - 1
      /\ \A i \in 1 .. Len(cmds') : cmds'[i] = cmds[i + 1]
  BY TakenQueue
<1>2. PICK old \in [1 .. Len(cmds) + 1 -> 0 .. MaxMsgs] : QueuedFrom(old)
  BY DEF ServerInv, QueueContinues
<1>3. PICK base \in [1 .. Len(cmds) -> 0 .. MaxMsgs] :
         \A i \in 1 .. Len(cmds) : base[i] = old[i + 1]
  <2> DEFINE new == [i \in 1 .. Len(cmds) |-> old[i + 1]]
  <2>1. new \in [1 .. Len(cmds) -> 0 .. MaxMsgs]
    BY <1>1, <1>2
  <2>2. \A i \in 1 .. Len(cmds) : new[i] = old[i + 1]
    OBVIOUS
  <2> QED
    BY <2>1, <2>2
<1>4. base[1] = (next_seq - FirstSeq)'
  <2>1. /\ old[1] = next_seq - FirstSeq /\ old[1 + 1] = old[1] + Handed(cmds[1])
    BY <1>1, <1>2 DEF QueuedFrom
  <2>2. base[1] = old[1 + 1]
    BY <1>1, <1>3
  <2>3. next_seq \in Nat /\ Handed(Head(cmds)) \in Nat
    BY <1>1, CommandFields DEF ServerInv, ServerTypes
  <2> QED
    BY <1>1, <2>1, <2>2, <2>3, FirstSeqAssumption
<1>5. base[Len(cmds') + 1] = submitted'
  BY <1>1, <1>2, <1>3 DEF QueuedFrom
<1>6. ASSUME NEW i \in 1 .. Len(cmds')
      PROVE  /\ base[i + 1] = base[i] + Handed(cmds'[i])
             /\ IsBatch(cmds'[i]) =>
                  \A j \in 1 .. Len(cmds'[i].msgs) : cmds'[i].msgs[j].no = base[i] + j
  <2>1. /\ i + 1 \in 1 .. Len(cmds) /\ cmds'[i] = cmds[i + 1]
        /\ base[i] = old[i + 1] /\ base[i + 1] = old[(i + 1) + 1]
    BY <1>1, <1>3
  <2> QED
    BY <1>2, <2>1 DEF QueuedFrom
<1>7. ASSUME closing' = {}, NEW i \in 1 .. Len(cmds')
      PROVE  cmds'[i].op # "StopSession"
  <2>1. i + 1 \in 1 .. Len(cmds) /\ cmds'[i] = cmds[i + 1]
    BY <1>1
  <2> QED
    BY <1>2, <1>7, <2>1 DEF QueuedFrom
<1>8. ASSUME closing' # {}
      PROVE  \E i \in 1 .. Len(cmds') :
                /\ cmds'[i].op = "StopSession"
                /\ closing' = {base[i]}
                /\ \A j \in 1 .. i - 1 : cmds'[j].op # "StopSession"
  <2>1. PICK i \in 1 .. Len(cmds) :
           /\ cmds[i].op = "StopSession"
           /\ closing = {old[i]}
           /\ \A j \in 1 .. i - 1 : cmds[j].op # "StopSession"
    BY <1>2, <1>8 DEF QueuedFrom
  <2>2. i # 1
    BY <1>1, <2>1
  <2>3. i - 1 \in 1 .. Len(cmds') /\ cmds'[i - 1] = cmds[i] /\ base[i - 1] = old[i]
    <3>1. i - 1 \in 1 .. Len(cmds') /\ i - 1 \in 1 .. Len(cmds) /\ (i - 1) + 1 = i
      BY <1>1, <2>2
    <3> QED
      BY <1>1, <1>3, <3>1
  <2>4. \A j \in 1 .. (i - 1) - 1 : cmds'[j].op # "StopSession"
    <3>1. \A j \in 1 .. (i - 1) - 1 : j \in 1 .. Len(cmds') /\ j + 1 \in 1 .. i - 1
      BY <1>1
    <3> QED
      BY <1>1, <2>1, <3>1
  <2> QED
    BY <2>1, <2>3, <2>4
<1>9. QueuedFrom(base)'
  BY <1>4, <1>5, <1>6, <1>7, <1>8 DEF QueuedFrom, IsBatch, Handed
<1> QED
  BY <1>3, <1>9

\* Packets stay true as the log grows.
LEMMA OldPackets ==
  ASSUME ServerInv, next_seq' \in Nat, next_seq =< next_seq'
  PROVE  /\ \A p \in multicast : LivePacket(p)'
         /\ \A p \in answers : AnswerPacket(p)'
<1>1. next_seq \in Nat
  BY DEF ServerInv, ServerTypes
<1>2. ASSUME NEW p, WellFormed(p), Special(p) PROVE Special(p)'
  BY <1>1, <1>2, FirstSeqAssumption DEF Special, WellFormed
<1>3. ASSUME NEW p, WellFormed(p), Data(p) PROVE Data(p)'
  <2>1. p.seq_num \in Nat /\ p.msg_count \in Nat
    BY <1>3 DEF WellFormed, Data
  <2> QED
    BY <1>1, <1>3, <2>1 DEF Data
<1>4. \A p \in multicast : LivePacket(p)'
  BY <1>2, <1>3 DEF ServerInv, PacketsReached, LivePacket
<1>5. \A p \in answers : AnswerPacket(p)'
  BY <1>3 DEF ServerInv, PacketsReached, AnswerPacket
<1> QED
  BY <1>4, <1>5

\* A batch that is not refused is appended to the log.
LEMMA StoreAppends ==
  ASSUME ServerInv, cmds # <<>>, IsBatch(Head(cmds)), ~stopped,
         NEW msgs, msgs = Head(cmds).msgs, StoreBatch(msgs)
  PROVE  /\ msgs \in Seq(Message)
         /\ next_seq' \in Nat /\ next_seq' = next_seq + Len(msgs)
         /\ FirstSeq =< next_seq'
         /\ DOMAIN log' = FirstSeq .. next_seq' - 1
         /\ log' \in [DOMAIN log' -> Message]
         /\ \A n \in DOMAIN log' : log'[n].no = n - FirstSeq + 1
         /\ \A n \in DOMAIN log : n \in DOMAIN log' /\ log'[n] = log[n]
         /\ \A i \in 1 .. Len(msgs) : log'[next_seq + i - 1] = msgs[i]
<1> DEFINE F == FirstSeq
           N == next_seq
           L == Len(msgs)
<1>1. Head(cmds) \in Command /\ Head(cmds) = cmds[1] /\ Len(cmds) \in Nat \ {0}
  BY DEF ServerInv, ServerTypes
<1>2. msgs \in Seq(Message) /\ L \in Nat
  BY <1>1, CommandFields
<1>3. F \in Nat /\ N \in Nat /\ F =< N
  BY FirstSeqAssumption DEF ServerInv, ServerTypes
<1>4. DOMAIN log = F .. N - 1 /\ \A n \in DOMAIN log : log[n].no = n - F + 1
  BY DEF ServerInv, StreamIntact
<1>5. \A n \in DOMAIN log : log[n] \in Message
  BY DEF ServerInv, ServerTypes
<1>6. \A j \in 1 .. L : msgs[j].no = N - F + j
  <2>1. PICK base \in [1 .. Len(cmds) + 1 -> 0 .. MaxMsgs] : QueuedFrom(base)
    BY DEF ServerInv, QueueContinues
  <2> QED
    BY <1>1, <2>1 DEF QueuedFrom
<1>7. next_seq' = N + L
  BY DEF StoreBatch
<1>8. /\ DOMAIN log' = (F .. N - 1) \cup (N .. N + L - 1)
      /\ \A n \in DOMAIN log' :
            log'[n] = IF n < N THEN log[n] ELSE msgs[n - N + 1]
  BY <1>4 DEF StoreBatch, store_messages, Numbers
<1>9. log' = [n \in DOMAIN log' |-> log'[n]]
  BY DEF StoreBatch, store_messages
<1> HIDE DEF F, N, L
<1>10. DOMAIN log' = F .. N + L - 1
  BY <1>2, <1>3, <1>8
<1>11. ASSUME NEW n \in F .. N + L - 1
       PROVE  log'[n] \in Message /\ log'[n].no = n - F + 1
  <2>1. CASE n < N
    <3>1. n \in F .. N - 1 /\ log'[n] = log[n]
      BY <1>2, <1>3, <1>8, <1>10, <2>1
    <3> QED
      BY <1>4, <1>5, <3>1
  <2>2. CASE ~(n < N)
    <3>1. n - N + 1 \in 1 .. L /\ log'[n] = msgs[n - N + 1]
      <4>1. n - N + 1 \in 1 .. L
        BY <1>2, <1>3, <2>2
      <4>2. n \in DOMAIN log'
        BY <1>10
      <4> QED
        BY <1>8, <2>2, <4>1, <4>2
    <3>2. msgs[n - N + 1].no = N - F + (n - N + 1)
      BY <1>6, <3>1
    <3>3. N - F + (n - N + 1) = n - F + 1
      BY <1>2, <1>3
    <3> QED
      BY <1>2, <3>1, <3>2, <3>3 DEF L
  <2> QED
    BY <2>1, <2>2
<1>12. \A n \in F .. N - 1 : n \in F .. N + L - 1 /\ log'[n] = log[n]
  BY <1>2, <1>3, <1>8, <1>10
<1>13. ASSUME NEW i \in 1 .. L PROVE log'[N + i - 1] = msgs[i]
  <2>1. PICK n \in F .. N + L - 1 : n = N + i - 1
    BY <1>2, <1>3
  <2>2. ~(n < N) /\ n - N + 1 = i
    BY <1>2, <1>3, <2>1
  <2>3. log'[n] = msgs[n - N + 1]
    BY <1>8, <1>10, <2>2
  <2> QED
    BY <2>1, <2>2, <2>3
<1>14. N + L \in Nat /\ F =< N + L
  BY <1>2, <1>3
<1>15. log' \in [DOMAIN log' -> Message]
  BY <1>9, <1>10, <1>11
<1>16. \A n \in DOMAIN log' : log'[n].no = n - F + 1
  BY <1>10, <1>11
<1>17. \A n \in DOMAIN log : n \in DOMAIN log' /\ log'[n] = log[n]
  BY <1>4, <1>10, <1>12 DEF F, N
<1>18. DOMAIN log' = F .. next_seq' - 1
  <2>1. next_seq' - 1 = N + L - 1
    BY <1>2, <1>3, <1>7 DEF L, N
  <2> QED
    BY <1>10, <2>1
<1> QED
  BY <1>2, <1>7, <1>13, <1>14, <1>15, <1>16, <1>17, <1>18 DEF F, N, L

\* The stream, its types and the queue after a command that leaves the log and
\* the session's end alone.
LEMMA TakenNothingStored ==
  ASSUME ServerInv, cmds # <<>>, cmds' = Tail(cmds), Head(cmds).op # "StopSession",
         ~stopped => Handed(Head(cmds)) = 0,
         UNCHANGED <<handleVars, running, next_seq, stopped, log>>,
         session' \in Session
  PROVE  ServerTypes' /\ BatchSizes' /\ StreamIntact' /\ QueueContinues'
<1>1. ServerTypes'
  BY TakenQueue DEF ServerInv, ServerTypes, handleVars
<1>2. BatchSizes'
  BY TakenQueue
<1>3. StreamIntact'
  BY DEF ServerInv, StreamIntact, handleVars
<1>4. next_seq \in Nat
  BY DEF ServerInv, ServerTypes
<1>5. ~stopped => next_seq' = next_seq + Handed(Head(cmds))
  BY <1>4
<1>6. UNCHANGED <<stopped, submitted, closing>>
  BY DEF handleVars
<1>7. QueueContinues'
  BY <1>5, <1>6, TakenContinues
<1> QED
  BY <1>1, <1>2, <1>3, <1>7

\* ... and after a batch is stored.
LEMMA TakenStored ==
  ASSUME ServerInv, cmds # <<>>, cmds' = Tail(cmds), IsBatch(Head(cmds)),
         ~stopped, StoreBatch(Head(cmds).msgs),
         UNCHANGED <<handleVars, running, session, stopped>>
  PROVE  ServerTypes' /\ BatchSizes' /\ StreamIntact' /\ QueueContinues'
<1> DEFINE msgs == Head(cmds).msgs
<1>1. /\ msgs \in Seq(Message)
      /\ next_seq' \in Nat /\ next_seq' = next_seq + Len(msgs)
      /\ FirstSeq =< next_seq'
      /\ DOMAIN log' = FirstSeq .. next_seq' - 1
      /\ log' \in [DOMAIN log' -> Message]
      /\ \A n \in DOMAIN log' : log'[n].no = n - FirstSeq + 1
  BY StoreAppends
<1>2. DOMAIN log' \subseteq Nat
  BY <1>1, FirstSeqAssumption
<1>3. ServerTypes'
  BY <1>1, <1>2, TakenQueue DEF ServerInv, ServerTypes, handleVars
<1>4. BatchSizes'
  BY TakenQueue
<1>5. StreamIntact'
  BY <1>1 DEF StreamIntact
<1>6. Handed(Head(cmds)) = Len(msgs) /\ Head(cmds).op # "StopSession"
  BY DEF Handed, IsBatch
<1>7. QueueContinues'
  <2>1. ~stopped => next_seq' = next_seq + Handed(Head(cmds))
    BY <1>1, <1>6
  <2>2. UNCHANGED <<stopped, submitted, closing>>
    BY DEF handleVars
  <2> QED
    BY <1>6, <2>1, <2>2, TakenContinues
<1> QED
  BY <1>3, <1>4, <1>5, <1>7

\* Sending a batch moves its messages from the queue to the log.
LEMMA SendBatchInv ==
  ASSUME ServerInv, SendBatch
  PROVE  ServerInv'
<1> DEFINE msgs == Head(cmds).msgs
           chunks == chunk_messages(msgs)
           new == {build_packet(session, next_seq, chunks[i]) : i \in DOMAIN chunks}
<1>1. /\ cmds # <<>> /\ cmds' = Tail(cmds) /\ Head(cmds).op = "Send"
      /\ UNCHANGED <<handleVars, running, answers, session, stopped>>
  BY DEF SendBatch, Take
<1>2. IsBatch(Head(cmds)) /\ Handed(Head(cmds)) = Len(msgs)
  BY <1>1 DEF IsBatch, Handed
<1>3. CASE Refused(msgs)
  <2>1. UNCHANGED <<log, next_seq, multicast>>
    BY <1>3 DEF SendBatch
  <2>2. ~stopped => Handed(Head(cmds)) = 0
    BY <1>2, <1>3 DEF Refused
  <2>3. session' \in Session
    BY <1>1 DEF ServerInv, ServerTypes
  <2>4. ServerTypes' /\ BatchSizes' /\ StreamIntact' /\ QueueContinues'
    BY <1>1, <2>1, <2>2, <2>3, TakenNothingStored
  <2>5. PacketsReached'
    BY <1>1, <2>1 DEF ServerInv, PacketsReached, LivePacket, AnswerPacket, Special, Data
  <2> QED
    BY <2>4, <2>5 DEF ServerInv
<1>4. CASE ~Refused(msgs)
  <2>1. ~stopped /\ StoreBatch(msgs) /\ multicast' = multicast \cup new
    BY <1>4 DEF SendBatch, Refused
  <2>2. ServerTypes' /\ BatchSizes' /\ StreamIntact' /\ QueueContinues'
    BY <1>1, <1>2, <2>1, TakenStored
  <2>3. /\ msgs \in Seq(Message) /\ next_seq' = next_seq + Len(msgs)
        /\ next_seq \in Nat /\ next_seq' \in Nat /\ FirstSeq =< next_seq
        /\ session \in Session
    BY <1>1, <1>2, <2>1, StoreAppends DEF ServerInv, ServerTypes
  <2>4. Len(msgs) =< MaxBatch /\ Len(msgs) =< MaxMsgs
    <3>1. Head(cmds) = cmds[1] /\ Len(cmds) \in Nat \ {0}
      BY <1>1, TakenQueue
    <3> QED
      BY <1>2, <3>1 DEF ServerInv, BatchSizes
  <2> HIDE DEF msgs
  <2>5. ASSUME NEW p \in new PROVE LivePacket(p)'
    <3>1. PICK i \in DOMAIN chunks : p = build_packet(session, next_seq, chunks[i])
      BY DEF new
    <3> DEFINE chunk == chunks[i]
    <3>2. chunk \in Seq(Message) /\ Len(chunk) \in 1 .. Len(msgs)
      BY <2>3, ChunkLength
    <3> HIDE DEF chunk, chunks
    <3>3. /\ p.session = session /\ p.seq_num = next_seq
          /\ p.msg_count = Len(chunk) /\ p.messages = chunk
          /\ p = [session |-> p.session, seq_num |-> p.seq_num,
                  msg_count |-> p.msg_count, messages |-> p.messages]
      BY <3>1 DEF build_packet, chunk
    <3>4. WellFormed(p)
      BY <2>3, <3>3 DEF WellFormed
    <3>5. Len(msgs) \in Nat /\ Len(chunk) \in Nat
      BY <2>3, <3>2
    <3>6. Data(p)' /\ p.msg_count =< MaxBatch /\ p.msg_count =< MaxMsgs
      BY <2>3, <2>4, <3>2, <3>3, <3>5, FirstSeqAssumption, BoundsAssumption DEF Data
    <3> QED
      BY <3>4, <3>6 DEF LivePacket, WellFormed
  <2> HIDE DEF new
  <2>6. next_seq =< next_seq'
    BY <2>3
  <2>7. PacketsReached'
    BY <1>1, <2>1, <2>3, <2>5, <2>6, OldPackets DEF PacketsReached
  <2> QED
    BY <2>2, <2>7 DEF ServerInv
<1> QED
  BY <1>3, <1>4

\* A batch that is only stored moves to the log as well.
LEMMA SendDroppedInv ==
  ASSUME ServerInv, SendDropped
  PROVE  ServerInv'
<1> DEFINE msgs == Head(cmds).msgs
<1>1. /\ cmds # <<>> /\ cmds' = Tail(cmds) /\ Head(cmds).op = "SendDropped"
      /\ UNCHANGED <<handleVars, running, answers, session, stopped, multicast>>
  BY DEF SendDropped, Take
<1>2. IsBatch(Head(cmds)) /\ Handed(Head(cmds)) = Len(msgs)
  BY <1>1 DEF IsBatch, Handed
<1>3. CASE Refused(msgs)
  <2>1. UNCHANGED <<log, next_seq>>
    BY <1>3 DEF SendDropped
  <2>2. ~stopped => Handed(Head(cmds)) = 0
    BY <1>2, <1>3 DEF Refused
  <2>3. session' \in Session
    BY <1>1 DEF ServerInv, ServerTypes
  <2>4. ServerTypes' /\ BatchSizes' /\ StreamIntact' /\ QueueContinues'
    BY <1>1, <2>1, <2>2, <2>3, TakenNothingStored
  <2>5. PacketsReached'
    BY <1>1, <2>1 DEF ServerInv, PacketsReached, LivePacket, AnswerPacket, Special, Data
  <2> QED
    BY <2>4, <2>5 DEF ServerInv
<1>4. CASE ~Refused(msgs)
  <2>1. ~stopped /\ StoreBatch(msgs)
    BY <1>4 DEF SendDropped, Refused
  <2>2. ServerTypes' /\ BatchSizes' /\ StreamIntact' /\ QueueContinues'
    BY <1>1, <1>2, <2>1, TakenStored
  <2>3. msgs \in Seq(Message) /\ next_seq' = next_seq + Len(msgs) /\ next_seq' \in Nat
    BY <1>1, <1>2, <2>1, StoreAppends
  <2>4. next_seq =< next_seq'
    BY <2>3 DEF ServerInv, ServerTypes
  <2>5. PacketsReached'
    BY <1>1, <2>3, <2>4, OldPackets DEF PacketsReached
  <2> QED
    BY <2>2, <2>5 DEF ServerInv
<1> QED
  BY <1>3, <1>4

\* A packet without messages under the next sequence number.
LEMMA SpecialIsLive ==
  ASSUME ServerInv, UNCHANGED next_seq,
         NEW k \in {HEARTBEAT_IDENT, END_OF_SESSION_IDENT},
         NEW p, p = build_special(session, next_seq, k)
  PROVE  LivePacket(p)'
<1>1. next_seq \in Nat /\ FirstSeq =< next_seq /\ session \in Session
  BY DEF ServerInv, ServerTypes
<1>2. /\ p.session = session /\ p.seq_num = next_seq
      /\ p.msg_count = k /\ p.messages = <<>>
      /\ p = [session |-> p.session, seq_num |-> p.seq_num,
              msg_count |-> p.msg_count, messages |-> p.messages]
  BY DEF build_special
<1>3. WellFormed(p)
  BY <1>1, <1>2 DEF WellFormed
<1>4. Special(p)'
  BY <1>1, <1>2 DEF Special, HEARTBEAT_IDENT, END_OF_SESSION_IDENT
<1> QED
  BY <1>3, <1>4 DEF LivePacket, WellFormed

\* A heartbeat or an end of session names the next number.
LEMMA PacketAdded ==
  ASSUME ServerInv, UNCHANGED <<next_seq, answers>>,
         NEW k \in {HEARTBEAT_IDENT, END_OF_SESSION_IDENT},
         multicast' = multicast \cup {build_special(session, next_seq, k)}
  PROVE  PacketsReached'
<1>1. PICK p : p = build_special(session, next_seq, k)
  OBVIOUS
<1>2. LivePacket(p)'
  BY <1>1, SpecialIsLive
<1>3. next_seq' \in Nat /\ next_seq =< next_seq'
  BY DEF ServerInv, ServerTypes
<1>4. multicast' = multicast \cup {p}
  BY <1>1
<1> QED
  BY <1>2, <1>3, <1>4, OldPackets DEF PacketsReached

\* The periodic packet is one of the two special ones.
LEMMA PeriodicKind ==
  \E k \in {HEARTBEAT_IDENT, END_OF_SESSION_IDENT} :
     PeriodicPacket = build_special(session, next_seq, k)
BY DEF PeriodicPacket

\* The commands without messages.
LEMMA TakeOtherInv ==
  ASSUME ServerInv, Heartbeat \/ EndOfSession \/ SwitchSession
  PROVE  ServerInv'
<1>1. /\ cmds # <<>> /\ cmds' = Tail(cmds)
      /\ Head(cmds).op \in {"Heartbeat", "EndOfSession", "ChangeSession"}
      /\ UNCHANGED <<handleVars, running, answers, next_seq, stopped, log>>
  BY DEF Heartbeat, EndOfSession, SwitchSession, Take
<1>2. Handed(Head(cmds)) = 0 /\ Head(cmds).op # "StopSession"
  BY <1>1 DEF Handed, IsBatch
<1>3. session \in Session
  BY DEF ServerInv, ServerTypes
<1>4. session' \in Session
  <2>1. CASE Heartbeat \/ EndOfSession
    BY <1>3, <2>1 DEF Heartbeat, EndOfSession
  <2>2. CASE SwitchSession
    <3>1. Head(cmds) \in Command /\ Head(cmds).op = "ChangeSession"
      BY <1>1, <2>2, TakenQueue DEF SwitchSession, Take
    <3> QED
      BY <1>3, <2>2, <3>1, CommandFields DEF SwitchSession
  <2> QED
    BY <2>1, <2>2
<1>5. ServerTypes' /\ BatchSizes' /\ StreamIntact' /\ QueueContinues'
  BY <1>1, <1>2, <1>4, TakenNothingStored
<1>6. PacketsReached'
  <2>1. CASE Heartbeat
    BY <1>1, <2>1, PeriodicKind, PacketAdded DEF Heartbeat
  <2>2. CASE EndOfSession
    BY <1>1, <2>2, PacketAdded DEF EndOfSession
  <2>3. CASE SwitchSession
    BY <1>1, <2>3
       DEF SwitchSession, ServerInv, PacketsReached, LivePacket, AnswerPacket, Special, Data
  <2> QED
    BY <2>1, <2>2, <2>3
<1> QED
  BY <1>5, <1>6 DEF ServerInv

\* The sender's exit keeps ServerInv.
LEMMA StopSessionInv ==
  ASSUME ServerInv, StopSession
  PROVE  ServerInv'
<1>1. /\ cmds # <<>> /\ cmds' = Tail(cmds) /\ Head(cmds).op = "StopSession"
      /\ stopped' = TRUE
      /\ UNCHANGED <<handleVars, running, answers, session, next_seq, log, multicast>>
  BY DEF StopSession, Take
<1>2. ServerTypes'
  BY <1>1, TakenQueue DEF ServerInv, ServerTypes, handleVars
<1>3. closing = {next_seq - FirstSeq}
  <2>1. CASE stopped
    BY <2>1 DEF ServerInv, StreamIntact
  <2>2. CASE ~stopped
    <3>1. PICK base \in [1 .. Len(cmds) + 1 -> 0 .. MaxMsgs] : QueuedFrom(base)
      BY <2>2 DEF ServerInv, QueueContinues
    <3>2. Head(cmds) = cmds[1] /\ Len(cmds) \in Nat \ {0}
      BY <1>1, TakenQueue
    <3>3. closing # {}
      BY <1>1, <3>1, <3>2 DEF QueuedFrom
    <3>4. PICK i \in 1 .. Len(cmds) :
             /\ closing = {base[i]}
             /\ \A j \in 1 .. i - 1 : cmds[j].op # "StopSession"
      BY <3>1, <3>3 DEF QueuedFrom
    <3>5. i = 1
      <4>1. 1 \notin 1 .. i - 1
        BY <1>1, <3>2, <3>4
      <4> QED
        BY <3>2, <4>1
    <3> QED
      BY <3>1, <3>4, <3>5 DEF QueuedFrom
  <2> QED
    BY <2>1, <2>2
<1>4. StreamIntact'
  BY <1>1, <1>3 DEF ServerInv, StreamIntact, handleVars
<1>5. BatchSizes' /\ QueueContinues'
  BY <1>1, TakenQueue DEF QueueContinues
<1>6. PacketsReached'
  BY <1>1 DEF ServerInv, PacketsReached, LivePacket, AnswerPacket, Special, Data
<1> QED
  BY <1>2, <1>4, <1>5, <1>6 DEF ServerInv

\* Steps that change nothing but the packets broadcast, or end the thread.
LEMMA TickInv ==
  ASSUME ServerInv, Tick \/ Disconnected
  PROVE  ServerInv'
<1>1. UNCHANGED <<handleVars, cmds, answers, session, next_seq, stopped, log>>
  BY DEF Tick, Disconnected, senderVars
<1>2. running' \in BOOLEAN
  BY DEF Tick, Disconnected, senderVars, ServerInv, ServerTypes
<1>3. ServerTypes'
  BY <1>1, <1>2 DEF ServerInv, ServerTypes, handleVars
<1>4. BatchSizes' /\ StreamIntact'
  BY <1>1 DEF ServerInv, BatchSizes, IsBatch, StreamIntact, handleVars
<1>5. QueueContinues'
  BY <1>1, QueueUnchanged DEF ServerInv, handleVars
<1>6. PacketsReached'
  <2>1. CASE Tick
    BY <1>1, <2>1, PeriodicKind, PacketAdded DEF Tick
  <2>2. CASE Disconnected
    BY <1>1, <2>2
       DEF Disconnected, ServerInv, PacketsReached, LivePacket, AnswerPacket, Special, Data
  <2> QED
    BY <2>1, <2>2
<1> QED
  BY <1>3, <1>4, <1>5, <1>6 DEF ServerInv

-----------------------------------------------------------------------------
(* The re-request thread.                                                  *)

\* What is found in the log is there under the numbers asked for.
LEMMA LoggedIsLogged ==
  ASSUME ServerInv, NEW first \in Nat, NEW want \in Nat
  PROVE  /\ Logged(first, want) \in Seq(Message)
         /\ Len(Logged(first, want)) =< want
         /\ \A i \in 1 .. Len(Logged(first, want)) :
               /\ first + i - 1 \in DOMAIN log
               /\ Logged(first, want)[i] = log[first + i - 1]
<1> DEFINE hit == {k \in 0 .. want : Numbers(first, k) \subseteq DOMAIN log}
           count == CHOOSE k \in hit : \A j \in hit : j =< k
<1>1. 0 \in hit
  BY DEF Numbers
<1>2. hit \in SUBSET (0 .. want) /\ hit # {}
  BY <1>1
<1>3. \E k \in hit : \A j \in hit : j =< k
  <2> HIDE DEF hit
  <2> QED
    BY <1>2, MaxOfBounded
<1>4. count \in hit
  <2> HIDE DEF hit
  <2> QED
    BY <1>3
<1>5. Logged(first, want) = [i \in 1 .. count |-> log[first + i - 1]]
  BY DEF Logged
<1> HIDE DEF count
<1>6. count \in Nat /\ count =< want /\ Numbers(first, count) \subseteq DOMAIN log
  BY <1>4
<1>7. \A i \in 1 .. count : first + i - 1 \in DOMAIN log
  <2>1. \A i \in 1 .. count : first + i - 1 \in Numbers(first, count)
    BY <1>6 DEF Numbers
  <2> QED
    BY <1>6, <2>1
<1>8. \A n \in DOMAIN log : log[n] \in Message
  BY DEF ServerInv, ServerTypes
<1>9. Logged(first, want) \in [1 .. count -> Message]
  BY <1>5, <1>7, <1>8
<1>10. Logged(first, want) \in Seq(Message) /\ Len(Logged(first, want)) = count
  BY <1>6, <1>9
<1> QED
  BY <1>5, <1>6, <1>7, <1>10

\* An answer speaks of numbers that were reached.
LEMMA ServeInv ==
  ASSUME ServerInv, NEW req \in PacketHeader, Serve(req)
  PROVE  ServerInv'
<1> DEFINE msgs == Logged(req.seq_num, req.msg_count)
           chunks == chunk_messages(msgs)
           new == {build_packet(FirstSession, req.seq_num, chunks[i]) :
                     i \in DOMAIN chunks}
<1>1. req.seq_num \in Nat /\ req.msg_count \in Nat /\ req.msg_count =< U16Max
  BY U16MaxAssumption DEF PacketHeader
<1>2. /\ answers' = answers \cup new
      /\ UNCHANGED <<senderVars, handleVars, cmds, multicast>>
  BY DEF Serve
<1>3. ServerTypes' /\ BatchSizes' /\ StreamIntact'
  BY <1>2 DEF ServerInv, ServerTypes, BatchSizes, IsBatch, StreamIntact, handleVars,
              senderVars
<1>4. QueueContinues'
  BY <1>2, QueueUnchanged DEF ServerInv, handleVars, senderVars
<1>5. /\ msgs \in Seq(Message) /\ Len(msgs) =< req.msg_count
      /\ \A i \in 1 .. Len(msgs) : req.seq_num + i - 1 \in DOMAIN log
  BY <1>1, LoggedIsLogged
<1>6. /\ DOMAIN log = FirstSeq .. next_seq - 1
      /\ next_seq \in Nat /\ next_seq' = next_seq
  BY <1>2 DEF ServerInv, StreamIntact, ServerTypes, senderVars
<1> HIDE DEF msgs
<1>7. ASSUME NEW p \in new PROVE AnswerPacket(p)'
  <2>1. PICK i \in DOMAIN chunks :
           p = build_packet(FirstSession, req.seq_num, chunks[i])
    OBVIOUS
  <2> DEFINE chunk == chunks[i]
  <2>2. chunk \in Seq(Message) /\ Len(chunk) \in 1 .. Len(msgs)
    BY <1>5, ChunkLength
  <2> HIDE DEF chunk, chunks
  <2>3. /\ p.session = FirstSession /\ p.seq_num = req.seq_num
        /\ p.msg_count = Len(chunk) /\ p.messages = chunk
        /\ p = [session |-> p.session, seq_num |-> p.seq_num,
                msg_count |-> p.msg_count, messages |-> p.messages]
    BY <2>1 DEF build_packet, chunk
  <2>4. WellFormed(p)
    BY <1>1, <2>3, FirstSessionAssumption DEF WellFormed
  <2>5. Len(msgs) \in Nat /\ Len(chunk) \in Nat /\ 1 \in 1 .. Len(msgs)
    BY <1>5, <2>2
  <2>6. /\ FirstSeq =< req.seq_num + 1 - 1
        /\ req.seq_num + Len(chunk) - 1 =< next_seq - 1
    BY <1>5, <1>6, <2>2, <2>5, FirstSeqAssumption
  <2>7. Data(p)' /\ p.msg_count =< U16Max
    BY <1>1, <1>5, <1>6, <2>2, <2>3, <2>5, <2>6, FirstSeqAssumption, U16MaxAssumption
       DEF Data
  <2> QED
    BY <2>4, <2>7 DEF AnswerPacket, WellFormed
<1> HIDE DEF new
<1>8. next_seq' \in Nat /\ next_seq =< next_seq'
  BY <1>6
<1>9. PacketsReached'
  BY <1>2, <1>7, <1>8, OldPackets DEF PacketsReached
<1> QED
  BY <1>3, <1>4, <1>9 DEF ServerInv

-----------------------------------------------------------------------------
(* The theorems.                                                           *)

\* The steps of the server's threads and of its handles, with requests for
\* anything: those of ServerNext, and those of the modules that compose the
\* server with a client.
ServerAction ==
    \/ HandleStep
    \/ SenderStep
    \/ Tick
    \/ \E req \in PacketHeader : Serve(req)

\* Every step of the server keeps ServerInv.
LEMMA ServerActionInv ==
  ASSUME ServerInv, ServerAction \/ UNCHANGED serverVars
  PROVE  ServerInv'
<1>1. CASE HandleStep
  BY <1>1, HandleStepInv
<1>2. CASE SenderStep
  BY <1>2, SendBatchInv, SendDroppedInv, TakeOtherInv, StopSessionInv, TickInv
     DEF SenderStep
<1>3. CASE Tick
  BY <1>3, TickInv
<1>4. CASE \E req \in PacketHeader : Serve(req)
  BY <1>4, ServeInv
<1>5. CASE UNCHANGED serverVars
  <2>1. UNCHANGED <<handles, cmds, running, session, next_seq, stopped, log, multicast,
                    answers, calls, submitted, closing>>
    BY <1>5 DEF serverVars, senderVars, handleVars
  <2>2. ServerTypes' /\ BatchSizes' /\ StreamIntact' /\ PacketsReached'
    BY <2>1 DEF ServerInv, ServerTypes, BatchSizes, IsBatch, StreamIntact, PacketsReached,
                LivePacket, AnswerPacket, Special, Data
  <2>3. QueueContinues'
    BY <2>1, QueueUnchanged DEF ServerInv
  <2> QED
    BY <2>2, <2>3 DEF ServerInv
<1> QED
  BY <1>1, <1>2, <1>3, <1>4, <1>5 DEF ServerAction

\* A step of MoldServer is one of the actions that the lemmas treat.
LEMMA ServerNextIsAction ==
  ASSUME ServerNext
  PROVE  ServerAction
<1>1. ASSUME NEW s \in Session, NEW n \in Numbers(FirstSeq, MaxMsgs),
             NEW k \in 0 .. U16Max
      PROVE  [session |-> s, seq_num |-> n, msg_count |-> k] \in PacketHeader
  <2>1. n \in Nat
    BY FirstSeqAssumption, BoundsAssumption DEF Numbers
  <2> QED
    BY <2>1 DEF PacketHeader
<1> QED
  BY <1>1 DEF ServerNext, ServerAction

\* ServerInv holds in every reachable state, for any number of messages, calls
\* and sessions, any capacity of the queue and any payload size.
THEOREM ServerInvariance == ServerSpec => []ServerInv
<1>1. ServerInv /\ [ServerNext]_serverVars => ServerInv'
  BY ServerNextIsAction, ServerActionInv
<1> QED
  BY <1>1, ServerInitInv, PTL DEF ServerSpec

\* The retransmission log (server.rs) is the stream of messages handed over, in
\* order and without holes, and ends where the first shutdown() says.
THEOREM StreamIntactHolds == ServerSpec => []StreamIntact
<1>1. ServerInv => StreamIntact
  BY DEF ServerInv
<1> QED
  BY <1>1, ServerInvariance, PTL

\* The types of the packets follow from the invariant as long as no batch has
\* more messages than a packet can count.
LEMMA ServerInvTypes ==
  ASSUME MaxBatch =< U16Max, ServerInv
  PROVE  ServerTypeOK
<1>1. ASSUME NEW p, WellFormed(p), p.messages \in Seq(Message),
             p.msg_count \in 0 .. U16Max
      PROVE  p \in Packet
  BY <1>1 DEF WellFormed, Packet
<1>2. ASSUME NEW p, Special(p)
      PROVE  p.messages \in Seq(Message) /\ p.msg_count \in 0 .. U16Max
  BY <1>2, U16MaxAssumption DEF Special, HEARTBEAT_IDENT, END_OF_SESSION_IDENT
<1>3. ASSUME NEW p, Data(p), p.msg_count =< MaxBatch \/ p.msg_count =< U16Max
      PROVE  p.messages \in Seq(Message) /\ p.msg_count \in 0 .. U16Max
  BY <1>3, U16MaxAssumption, BoundsAssumption DEF Data
<1>4. \A p \in multicast : p \in Packet
  BY <1>1, <1>2, <1>3 DEF ServerInv, PacketsReached, LivePacket
<1>5. \A p \in answers : p \in Packet
  BY <1>1, <1>3 DEF ServerInv, PacketsReached, AnswerPacket
<1>6. multicast \cup answers \subseteq Packet
  BY <1>4, <1>5
<1> QED
  BY <1>6 DEF ServerInv, ServerTypes, ServerTypeOK

\* The types of the server's state, which include that no packet has more than
\* u16::MAX messages, provided that no batch has (build_packet, packet.rs,
\* panics otherwise).
THEOREM ServerTypeCorrect ==
  ASSUME MaxBatch =< U16Max
  PROVE  ServerSpec => []ServerTypeOK
<1>1. ServerInv => ServerTypeOK
  BY ServerInvTypes
<1> QED
  BY <1>1, ServerInvariance, PTL

\* No more messages are logged than were handed over.
LEMMA LogBounded ==
  ASSUME ServerInv
  PROVE  next_seq - FirstSeq \in 0 .. MaxMsgs
<1>1. CASE stopped
  BY <1>1 DEF ServerInv, ServerTypes, StreamIntact
<1>2. CASE ~stopped
  <2>1. Len(cmds) \in Nat
    BY DEF ServerInv, ServerTypes
  <2>2. PICK base \in [1 .. Len(cmds) + 1 -> 0 .. MaxMsgs] : QueuedFrom(base)
    BY <1>2 DEF ServerInv, QueueContinues
  <2>3. base[1] \in 0 .. MaxMsgs
    BY <2>1, <2>2
  <2> QED
    BY <2>2, <2>3 DEF QueuedFrom
<1> QED
  BY <1>1, <1>2

-----------------------------------------------------------------------------
(* What packets carry.                                                     *)

\* The log only grows: nothing that a packet may have carried is changed.
LogGrows == \A n \in DOMAIN log : n \in DOMAIN log' /\ log'[n] = log[n]

\* The log is only ever extended.
LEMMA ServerLogGrows ==
  ASSUME ServerInv, ServerAction \/ UNCHANGED serverVars
  PROVE  LogGrows
<1>1. CASE SendBatch \/ SendDropped
  <2> DEFINE msgs == Head(cmds).msgs
  <2>1. cmds # <<>> /\ IsBatch(Head(cmds))
    BY <1>1 DEF SendBatch, SendDropped, Take, IsBatch
  <2>2. CASE Refused(msgs)
    BY <1>1, <2>2 DEF SendBatch, SendDropped, LogGrows
  <2>3. CASE ~Refused(msgs)
    <3>1. ~stopped /\ StoreBatch(msgs)
      BY <1>1, <2>3 DEF SendBatch, SendDropped, Refused
    <3> QED
      BY <2>1, <3>1, StoreAppends DEF LogGrows
  <2> QED
    BY <2>2, <2>3
<1>2. CASE UNCHANGED log
  BY <1>2 DEF LogGrows
<1>3. HandleStep => UNCHANGED log
  BY DEF HandleStep, SubmitBatch, SubmitSpecial, ChangeSession, Shutdown, DropHandles,
         Submit, senderVars
<1>4. SenderStep => SendBatch \/ SendDropped \/ UNCHANGED log
  BY DEF SenderStep, Heartbeat, EndOfSession, SwitchSession, StopSession, Disconnected
<1>5. Tick => UNCHANGED log
  BY DEF Tick, senderVars
<1>6. ASSUME NEW req \in PacketHeader, Serve(req) PROVE UNCHANGED log
  BY <1>6 DEF Serve, senderVars
<1>7. UNCHANGED serverVars => UNCHANGED log
  BY DEF serverVars, senderVars
<1> QED
  BY <1>1, <1>2, <1>3, <1>4, <1>5, <1>6, <1>7 DEF ServerAction

\* What is added to the packets by a step: packets without messages, chunks of
\* the batch that is stored, or chunks of what is logged.
NewPacket(p, msgs) ==
    \/ p.messages = <<>>
    \/ \E i \in DOMAIN chunk_messages(msgs) : p.messages = chunk_messages(msgs)[i]

\* A packet that a step puts on the network has no messages, or is a chunk of
\* messages that are in the log from its number on.
LEMMA ServerAddsPackets ==
  ASSUME ServerInv, ServerAction \/ UNCHANGED serverVars,
         NEW p \in (multicast \cup answers)', p \notin multicast \cup answers
  PROVE  \E msgs \in Seq(Message) :
            /\ NewPacket(p, msgs)
            /\ Len(msgs) =< MaxMsgs
            /\ \A i \in 1 .. Len(msgs) :
                  /\ p.seq_num + i - 1 \in DOMAIN log'
                  /\ log'[p.seq_num + i - 1] = msgs[i]
<1> DEFINE Goal(msgs) ==
              /\ NewPacket(p, msgs)
              /\ Len(msgs) =< MaxMsgs
              /\ \A i \in 1 .. Len(msgs) :
                    /\ p.seq_num + i - 1 \in DOMAIN log'
                    /\ log'[p.seq_num + i - 1] = msgs[i]
<1>1. ASSUME NEW k, p = build_special(session, next_seq, k)
      PROVE  \E msgs \in Seq(Message) : Goal(msgs)
  <2>1. p.messages = <<>>
    BY <1>1 DEF build_special
  <2>2. <<>> \in Seq(Message) /\ Len(<<>>) = 0 /\ 1 .. Len(<<>>) = {}
    OBVIOUS
  <2>3. Goal(<<>>)
    BY <2>1, <2>2, BoundsAssumption DEF NewPacket
  <2> QED
    BY <2>2, <2>3
<1>2. CASE SendBatch
  <2> DEFINE msgs == Head(cmds).msgs
             chunks == chunk_messages(msgs)
  <2>1. cmds # <<>> /\ cmds' = Tail(cmds) /\ IsBatch(Head(cmds)) /\ answers' = answers
    BY <1>2 DEF SendBatch, Take, IsBatch
  <2>2. ~Refused(msgs)
    BY <1>2, <2>1 DEF SendBatch
  <2>3. PICK i \in DOMAIN chunks : p = build_packet(session, next_seq, chunks[i])
    BY <1>2, <2>1, <2>2 DEF SendBatch
  <2>4. ~stopped /\ StoreBatch(msgs)
    BY <1>2, <2>2 DEF SendBatch, Refused
  <2>5. /\ msgs \in Seq(Message) /\ next_seq' = next_seq + Len(msgs)
        /\ DOMAIN log' = FirstSeq .. next_seq' - 1
        /\ \A j \in 1 .. Len(msgs) : log'[next_seq + j - 1] = msgs[j]
        /\ next_seq \in Nat /\ FirstSeq =< next_seq
    BY <2>1, <2>4, StoreAppends DEF ServerInv, ServerTypes
  <2>6. p.seq_num = next_seq /\ p.messages = chunks[i]
    BY <2>3 DEF build_packet
  <2>7. Len(msgs) =< MaxMsgs
    BY <2>1, TakenQueue DEF ServerInv, BatchSizes
  <2>8. \A j \in 1 .. Len(msgs) : next_seq + j - 1 \in DOMAIN log'
    BY <2>5, FirstSeqAssumption
  <2>9. Goal(msgs)
    BY <2>5, <2>6, <2>7, <2>8 DEF NewPacket
  <2> QED
    BY <2>5, <2>9
<1>3. CASE Heartbeat \/ Tick
  <2>1. p = PeriodicPacket
    BY <1>3 DEF Heartbeat, Tick, Take
  <2> QED
    BY <1>1, <2>1, PeriodicKind
<1>4. CASE EndOfSession
  BY <1>1, <1>4 DEF EndOfSession, Take
<1>5. ASSUME NEW req \in PacketHeader, Serve(req)
      PROVE  \E msgs \in Seq(Message) : Goal(msgs)
  <2> DEFINE msgs == Logged(req.seq_num, req.msg_count)
             chunks == chunk_messages(msgs)
  <2>1. req.seq_num \in Nat /\ req.msg_count \in Nat
    BY U16MaxAssumption DEF PacketHeader
  <2>2. UNCHANGED <<log, multicast>>
    BY <1>5 DEF Serve, senderVars
  <2>3. PICK i \in DOMAIN chunks : p = build_packet(FirstSession, req.seq_num, chunks[i])
    BY <1>5, <2>2 DEF Serve
  <2>4. /\ msgs \in Seq(Message)
        /\ \A j \in 1 .. Len(msgs) :
              /\ req.seq_num + j - 1 \in DOMAIN log
              /\ msgs[j] = log[req.seq_num + j - 1]
    BY <2>1, LoggedIsLogged
  <2> HIDE DEF msgs
  <2>5. p.seq_num = req.seq_num /\ p.messages = chunks[i]
    BY <2>3 DEF build_packet
  <2>6. Len(msgs) =< MaxMsgs
    <3>1. DOMAIN log = FirstSeq .. next_seq - 1 /\ next_seq \in Nat
      BY DEF ServerInv, ServerTypes, StreamIntact
    <3>2. next_seq - FirstSeq \in 0 .. MaxMsgs
      BY LogBounded
    <3>3. CASE Len(msgs) > 0
      <4>1. Len(msgs) \in Nat /\ 1 \in 1 .. Len(msgs) /\ Len(msgs) \in 1 .. Len(msgs)
        BY <2>4, <3>3
      <4>2. /\ req.seq_num + 1 - 1 \in FirstSeq .. next_seq - 1
            /\ req.seq_num + Len(msgs) - 1 \in FirstSeq .. next_seq - 1
        BY <2>4, <3>1, <4>1
      <4> QED
        BY <2>1, <3>1, <3>2, <4>1, <4>2, FirstSeqAssumption, BoundsAssumption
    <3>4. CASE ~(Len(msgs) > 0)
      BY <2>4, <3>4, BoundsAssumption
    <3> QED
      BY <3>3, <3>4
  <2>7. Goal(msgs)
    BY <2>2, <2>4, <2>5, <2>6 DEF NewPacket
  <2> QED
    BY <2>4, <2>7
<1>6. HandleStep => UNCHANGED <<multicast, answers>>
  BY DEF HandleStep, SubmitBatch, SubmitSpecial, ChangeSession, Shutdown, DropHandles,
         Submit
<1>7. SenderStep => \/ SendBatch \/ Heartbeat \/ EndOfSession
                    \/ UNCHANGED <<multicast, answers>>
  BY DEF SenderStep, SendDropped, SwitchSession, StopSession, Disconnected, Take
<1>8. UNCHANGED serverVars => UNCHANGED <<multicast, answers>>
  BY DEF serverVars
<1>9. ~ UNCHANGED <<multicast, answers>>
  OBVIOUS
<1>10. \/ SendBatch \/ Heartbeat \/ Tick \/ EndOfSession
       \/ \E req \in PacketHeader : Serve(req)
  BY <1>6, <1>7, <1>8, <1>9 DEF ServerAction
<1>11. CASE \E req \in PacketHeader : Serve(req)
  BY <1>5, <1>11
<1> QED
  BY <1>2, <1>3, <1>4, <1>10, <1>11

\* Whatever the lengths of the messages and the size of a payload, the messages
\* of every packet, live or retransmitted, are consecutive ones of the log, and
\* none of them comes before the number the packet says.  How far behind it
\* they are is where the packets of a batch that was cut differ.
PacketsFromLog ==
    \A p \in multicast \cup answers : \E skip \in Nat :
       \A i \in DOMAIN p.messages :
          /\ p.seq_num + skip + i - 1 \in DOMAIN log
          /\ log[p.seq_num + skip + i - 1] = p.messages[i]

\* chunk_messages and build_packet (server.rs): PacketsFromLog holds for every
\* bound and every payload size.
THEOREM PacketsFromLogHolds == ServerSpec => []PacketsFromLog
<1>1. ServerInit => PacketsFromLog
  BY DEF ServerInit, PacketsFromLog
<1>2. ASSUME ServerInv, PacketsFromLog, ServerAction \/ UNCHANGED serverVars
      PROVE  PacketsFromLog'
  <2> SUFFICES ASSUME NEW p \in (multicast \cup answers)'
               PROVE  \E skip \in Nat : \A i \in DOMAIN p.messages :
                         /\ p.seq_num + skip + i - 1 \in DOMAIN log'
                         /\ log'[p.seq_num + skip + i - 1] = p.messages[i]
    BY DEF PacketsFromLog
  <2>1. CASE p \in multicast \cup answers
    <3>1. LogGrows
      BY <1>2, ServerLogGrows
    <3> QED
      BY <1>2, <2>1, <3>1 DEF PacketsFromLog, LogGrows
  <2>2. CASE p \notin multicast \cup answers
    <3>1. PICK msgs \in Seq(Message) :
             /\ NewPacket(p, msgs)
             /\ \A i \in 1 .. Len(msgs) :
                   /\ p.seq_num + i - 1 \in DOMAIN log'
                   /\ log'[p.seq_num + i - 1] = msgs[i]
      BY <1>2, <2>2, ServerAddsPackets
    <3>2. CASE p.messages = <<>>
      <4>1. DOMAIN p.messages = {}
        BY <3>2
      <4> QED
        BY <4>1
    <3>3. CASE p.messages # <<>>
      <4> DEFINE chunks == chunk_messages(msgs)
      <4>1. PICK k \in DOMAIN chunks : p.messages = chunks[k]
        BY <3>1, <3>3 DEF NewPacket
      <4>2. chunks \in Seq(Seq(Message)) /\ IsCut(chunks, msgs, Len(msgs))
        BY ChunksCutTheBatch
      <4> HIDE DEF chunks
      <4>3. k \in 1 .. Len(chunks) /\ chunks[k] \in Seq(Message)
        BY <4>1, <4>2
      <4>4. PICK off \in [0 .. Len(chunks) -> 0 .. Len(msgs)] :
               /\ off[k] = off[k - 1] + Len(chunks[k])
               /\ \A j \in 1 .. Len(chunks[k]) : chunks[k][j] = msgs[off[k - 1] + j]
        BY <4>2, <4>3 DEF IsCut
      <4>5. off[k - 1] \in 0 .. Len(msgs) /\ off[k] \in 0 .. Len(msgs)
        BY <4>2, <4>3, <4>4
      <4> DEFINE skip == off[k - 1]
      <4>6. p.seq_num \in Nat
        BY <1>2, ServerActionInv DEF ServerInv, PacketsReached, LivePacket, AnswerPacket,
                                     WellFormed
      <4>7. ASSUME NEW i \in DOMAIN p.messages
            PROVE  /\ p.seq_num + skip + i - 1 \in DOMAIN log'
                   /\ log'[p.seq_num + skip + i - 1] = p.messages[i]
        <5>1. i \in 1 .. Len(chunks[k])
          BY <4>1, <4>3
        <5>2. skip + i \in 1 .. Len(msgs) /\ p.messages[i] = msgs[skip + i]
          BY <4>1, <4>3, <4>4, <4>5, <5>1
        <5>3. p.seq_num + (skip + i) - 1 = p.seq_num + skip + i - 1
          BY <4>5, <4>6, <5>1
        <5> QED
          BY <3>1, <5>2, <5>3
      <4>8. skip \in Nat
        BY <4>5
      <4> HIDE DEF skip
      <4> QED
        BY <4>7, <4>8
    <3> QED
      BY <3>2, <3>3
  <2> QED
    BY <2>1, <2>2
<1>3. ServerInv /\ PacketsFromLog /\ [ServerNext]_serverVars => PacketsFromLog'
  BY <1>2, ServerNextIsAction
<1> QED
  BY <1>1, <1>3, ServerInvariance, PTL DEF ServerSpec

\* packet.rs, Packet::seq_num: as long as everything handed over would fit one
\* packet, the number of a packet is that of its first message.  Without that
\* the property fails, since all packets of a batch get one number.
THEOREM PacketsTruthfulHolds ==
  ASSUME NEW L \in Nat, MsgLen \subseteq 0 .. L, MaxMsgs * L =< MaxPayload
  PROVE  ServerSpec => []PacketsTruthful
<1>1. ServerInit => PacketsTruthful
  BY DEF ServerInit, PacketsTruthful
<1>2. ASSUME ServerInv, PacketsTruthful, ServerAction \/ UNCHANGED serverVars
      PROVE  PacketsTruthful'
  <2> SUFFICES ASSUME NEW p \in (multicast \cup answers)', NEW i \in DOMAIN p.messages
               PROVE  /\ p.seq_num + i - 1 \in DOMAIN log'
                      /\ log'[p.seq_num + i - 1] = p.messages[i]
    BY DEF PacketsTruthful
  <2>1. CASE p \in multicast \cup answers
    <3>1. LogGrows
      BY <1>2, ServerLogGrows
    <3> QED
      BY <1>2, <2>1, <3>1 DEF PacketsTruthful, LogGrows
  <2>2. CASE p \notin multicast \cup answers
    <3>1. PICK msgs \in Seq(Message) :
             /\ NewPacket(p, msgs)
             /\ Len(msgs) =< MaxMsgs
             /\ \A j \in 1 .. Len(msgs) :
                   /\ p.seq_num + j - 1 \in DOMAIN log'
                   /\ log'[p.seq_num + j - 1] = msgs[j]
      BY <1>2, <2>2, ServerAddsPackets
    <3>2. p.messages # <<>>
      OBVIOUS
    <3>3. PICK k \in DOMAIN chunk_messages(msgs) : p.messages = chunk_messages(msgs)[k]
      BY <3>1, <3>2 DEF NewPacket
    <3>4. msgs # <<>>
      BY <3>3, ChunkLength
    <3>5. Len(msgs) * L =< MaxPayload
      <4>1. Len(msgs) \in Nat /\ Len(msgs) * L =< MaxMsgs * L
        BY <3>1, ProductGrows, BoundsAssumption
      <4>2. Len(msgs) * L \in Nat /\ MaxMsgs * L \in Nat
        BY <4>1, BoundsAssumption
      <4> QED
        BY <4>1, <4>2, MaxPayloadAssumption
    <3>6. chunk_messages(msgs) = <<msgs>>
      BY <3>4, <3>5, OneChunk
    <3>7. p.messages = msgs
      BY <3>3, <3>6
    <3> QED
      BY <3>1, <3>7
  <2> QED
    BY <2>1, <2>2
<1>3. ServerInv /\ PacketsTruthful /\ [ServerNext]_serverVars => PacketsTruthful'
  BY <1>2, ServerNextIsAction
<1> QED
  BY <1>1, <1>3, ServerInvariance, PTL DEF ServerSpec

=============================================================================
