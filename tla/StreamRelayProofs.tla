-------------------------- MODULE StreamRelayProofs --------------------------
(***************************************************************************)
(* Theorems about StreamRelay, for any number of chunks and any capacity   *)
(* of the channel and of the connection.                                   *)
(***************************************************************************)
EXTENDS StreamRelay, SequenceTheorems, TLAPS

Single == {<<f>> : f \in Frame}
Ending == {<<>>, <<Done>>, <<Error>>}

\* An event is held while it is sent, a frame while it is written.
TypeInv ==
  /\ upstream \in [sent : 0 .. Chunks, end : {"open", "done", "error", "eof", "drop"}]
  /\ producer \in [pc : {"off", "read", "closed"}, event : {<<>>}] \cup [pc : {"send"}, event : Single]
  /\ channel \in Seq(Frame)
  /\ handler \in [pc : {"open", "receive", "returned"}, frame : {<<>>}] \cup [pc : {"write"}, frame : Single]
  /\ wire \in Seq(Frame)
  /\ connected \in BOOLEAN
  /\ client \in [pc : {"fetch", "read", "complete", "failed", "aborted"},
                 got : Seq(Chunk), terminal : Ending]

\* The answer shown is a beginning of what the upstream said.
Shown == client.got = UpTo(Len(client.got)) /\ Len(client.got) <= upstream.sent

\* How the reader goroutine follows the body.
Following ==
  /\ producer.pc \in {"off", "read"} => upstream.end = "open"
  /\ producer.pc = "send" => (producer.event[1] \in Chunk <=> upstream.end = "open")
  /\ producer.pc = "closed" => upstream.end # "open"
  /\ handler.pc = "open" => producer.pc = "off"
  /\ producer.pc = "off" => handler.pc \in {"open", "returned"} /\ channel = <<>>

\* The terminal frame the body has led to so far.
EndsWith(end) ==
  /\ upstream.end = "open" => end = <<>>
  /\ upstream.end = "done" => end = <<Done>>
  /\ upstream.end \in {"error", "drop"} => end = <<Error>>
  /\ upstream.end = "eof" => end # <<Done>>
  /\ handler.pc = "returned" /\ producer.pc # "off" => end # <<>>

\* Everything on its way, and what the browser has read past.
Whole == client.got \o client.terminal \o wire \o handler.frame \o channel \o producer.event

\* While the browser is there, everything is on its way in its order.
Complete ==
  connected => \E end \in Ending : EndsWith(end) /\ Whole = UpTo(upstream.sent) \o end

\* The handler goes on exactly until it has written a terminal frame.
Flowing ==
  connected /\ handler.pc # "returned" => client.terminal = <<>> /\ wire \in Seq(Chunk)

Returned ==
  connected /\ handler.pc = "returned" => channel = <<>> /\ producer.pc \in {"off", "closed"}

\* Nothing follows a terminal frame, and nothing is on a broken connection.
Ended == (client.terminal # <<>> => wire = <<>>) /\ (~connected => wire = <<>>)

Inv == TypeInv /\ Shown /\ Following /\ Complete /\ Flowing /\ Returned /\ Ended
-----------------------------------------------------------------------------
(* Sequences of frames *)

LEMMA FrameFacts ==
  /\ Chunks \in Nat /\ Chunk \subseteq Nat \ {0} /\ Frame \subseteq Int
  /\ Done \in Frame /\ Error \in Frame /\ Chunk \subseteq Frame /\ Terminal \subseteq Frame
  /\ Done \notin Chunk /\ Error \notin Chunk /\ Done # Error
  /\ \A f \in Frame : f \in Terminal <=> f \notin Chunk
BY SizeAssumption DEF Chunk, Frame, Terminal, Done, Error

LEMMA UpToFacts ==
  ASSUME NEW n \in 0 .. Chunks
  PROVE  /\ UpTo(n) \in Seq(Chunk) /\ UpTo(n) \in Seq(Frame) /\ Len(UpTo(n)) = n
         /\ \A i \in 1 .. n : UpTo(n)[i] = i
<1>1. n \in Nat /\ \A i \in 1 .. n : i \in Chunk /\ i \in Frame
  BY FrameFacts DEF Chunk
<1>2. [i \in 1 .. n |-> i] \in Seq(Chunk) /\ [i \in 1 .. n |-> i] \in Seq(Frame)
  BY <1>1, IsASeq
<1>3. Len([i \in 1 .. n |-> i]) = n
  BY <1>1, <1>2
<1>. QED
  BY <1>2, <1>3 DEF UpTo

LEMMA SingleFacts ==
  ASSUME NEW e \in Single
  PROVE  /\ e = <<e[1]>> /\ e[1] \in Frame
         /\ e \in Seq(Frame) /\ Len(e) = 1 /\ e # <<>>
<1>1. PICK f \in Frame : e = <<f>>
  BY DEF Single
<1>2. e[1] = f /\ Len(e) = 1 /\ e \in Seq(Frame)
  BY <1>1
<1>. QED
  BY <1>1, <1>2

LEMMA EndingFacts ==
  ASSUME NEW e \in Ending
  PROVE  /\ e \in Seq(Frame) /\ Len(e) \in {0, 1}
         /\ Len(e) = 0 <=> e = <<>>
         /\ Len(e) = 1 => e = <<e[1]>> /\ e[1] \in Terminal
<1>1. CASE e = <<>>
  <2>1. e \in Seq(Frame) /\ Len(e) = 0
    BY <1>1, EmptySeq
  <2>. QED  BY <1>1, <2>1
<1>2. CASE e # <<>>
  <2>1. PICK f \in Terminal : e = <<f>>
    BY <1>2 DEF Ending, Terminal
  <2>2. f \in Frame
    BY FrameFacts
  <2>3. e[1] = f /\ Len(e) = 1 /\ e \in Seq(Frame)
    BY <2>1, <2>2
  <2>. QED  BY <1>2, <2>1, <2>3
<1>. QED
  BY <1>1, <1>2

LEMMA Joined ==
  ASSUME NEW s \in Seq(Frame), NEW t \in Seq(Frame)
  PROVE  /\ s \o t \in Seq(Frame) /\ Len(s \o t) = Len(s) + Len(t)
         /\ Len(s) \in Nat /\ Len(t) \in Nat
         /\ \A i \in 1 .. Len(s) : (s \o t)[i] = s[i]
         /\ \A i \in 1 .. Len(t) : (s \o t)[Len(s) + i] = t[i]
<1>1. Len(s) \in Nat /\ Len(t) \in Nat
  BY LenProperties
<1>2. /\ s \o t \in Seq(Frame) /\ Len(s \o t) = Len(s) + Len(t)
      /\ \A i \in 1 .. Len(s) + Len(t) : (s \o t)[i] = IF i <= Len(s) THEN s[i] ELSE t[i - Len(s)]
  BY ConcatProperties
<1>3. ASSUME NEW i \in 1 .. Len(s) PROVE (s \o t)[i] = s[i]
  BY <1>1, <1>2
<1>4. ASSUME NEW i \in 1 .. Len(t) PROVE (s \o t)[Len(s) + i] = t[i]
  BY <1>1, <1>2
<1>. QED
  BY <1>1, <1>2, <1>3, <1>4

LEMMA ChunkSeq == ASSUME NEW s \in Seq(Chunk) PROVE s \in Seq(Frame)
BY FrameFacts, SeqMonotonic

LEMMA Associative ==
  \A s, t, u \in Seq(Frame) : (s \o t) \o u = s \o (t \o u)
BY ConcatAssociative, SMTT(60)

LEMMA HeadMoves ==
  ASSUME NEW s \in Seq(Frame), s # <<>>
  PROVE  /\ Head(s) \in Frame /\ Tail(s) \in Seq(Frame) /\ <<Head(s)>> \in Seq(Frame)
         /\ s = <<Head(s)>> \o Tail(s)
<1>1. /\ Head(s) \in Frame /\ Tail(s) \in Seq(Frame) /\ Len(Tail(s)) = Len(s) - 1
      /\ \A i \in 1 .. Len(Tail(s)) : Tail(s)[i] = s[i + 1]
  BY HeadTailProperties
<1>2. Len(s) \in Nat /\ Len(s) > 0 /\ Head(s) = s[1]
  BY EmptySeq, LenProperties
<1>3. <<Head(s)>> \in Seq(Frame) /\ Len(<<Head(s)>>) = 1 /\ <<Head(s)>>[1] = s[1]
  BY <1>1, <1>2
<1> DEFINE t == <<Head(s)>> \o Tail(s)
<1>4. /\ t \in Seq(Frame) /\ Len(t) = Len(s)
      /\ \A i \in 1 .. Len(s) : t[i] = IF i <= 1 THEN s[1] ELSE Tail(s)[i - 1]
  BY <1>1, <1>2, <1>3, ConcatProperties
<1>5. \A i \in 1 .. Len(s) : s[i] = t[i]
  BY <1>1, <1>2, <1>4
<1> HIDE DEF t
<1>6. s = t
  BY <1>4, <1>5, SeqEqual
<1>. QED
  BY <1>1, <1>3, <1>6 DEF t

\* A stream, position by position.
LEMMA Positions ==
  ASSUME NEW n \in 0 .. Chunks, NEW end \in Ending, NEW w, w = UpTo(n) \o end
  PROVE  /\ n \in Nat /\ Len(w) = n + Len(end) /\ Len(end) \in {0, 1}
         /\ \A i \in 1 .. n : w[i] = i
         /\ Len(end) = 1 => w[n + 1] = end[1]
<1>1. n \in Nat /\ UpTo(n) \in Seq(Frame) /\ Len(UpTo(n)) = n /\ \A i \in 1 .. n : UpTo(n)[i] = i
  BY UpToFacts, FrameFacts
<1>2. end \in Seq(Frame) /\ Len(end) \in {0, 1}
  BY EndingFacts
<1> DEFINE u == UpTo(n)
<1>3. /\ Len(w) = n + Len(end) /\ \A i \in 1 .. n : w[i] = i
      /\ \A i \in 1 .. Len(end) : w[n + i] = end[i]
  <2>1. u \in Seq(Frame) /\ Len(u) = n /\ (\A i \in 1 .. n : u[i] = i) /\ w = u \o end
    BY <1>1
  <2> HIDE DEF u
  <2>2. /\ Len(u \o end) = Len(u) + Len(end)
        /\ \A i \in 1 .. Len(u) : (u \o end)[i] = u[i]
        /\ \A i \in 1 .. Len(end) : (u \o end)[Len(u) + i] = end[i]
    BY <1>2, <2>1, Joined
  <2>. QED  BY <2>1, <2>2
<1>4. Len(end) = 1 => w[n + 1] = end[1]
  BY <1>3
<1>. QED
  BY <1>1, <1>2, <1>3, <1>4

\* A frame in a stream stands at its position, with the length of what is
\* before and behind it.
LEMMA Placed ==
  ASSUME NEW f \in Frame, NEW s \in Seq(Frame), NEW t \in Seq(Frame),
         NEW w, w = (s \o <<f>>) \o t
  PROVE  /\ Len(s) \in Nat /\ Len(t) \in Nat /\ Len(w) = Len(s) + 1 + Len(t)
         /\ w[Len(s) + 1] = f
         /\ \A i \in 1 .. Len(s) : w[i] = s[i]
<1> DEFINE e == <<f>>
           a == s \o e
<1>1. e \in Seq(Frame) /\ Len(e) = 1 /\ e[1] = f
  OBVIOUS
<1> HIDE DEF e
<1>2. /\ a \in Seq(Frame) /\ Len(a) = Len(s) + 1 /\ Len(s) \in Nat
      /\ \A i \in 1 .. Len(s) : a[i] = s[i]
      /\ a[Len(s) + 1] = f
  <2>1. \A i \in 1 .. Len(e) : a[Len(s) + i] = e[i]
    BY <1>1, Joined
  <2>2. /\ a \in Seq(Frame) /\ Len(a) = Len(s) + Len(e) /\ Len(s) \in Nat
        /\ \A i \in 1 .. Len(s) : a[i] = s[i]
    BY <1>1, Joined
  <2>. QED  BY <1>1, <2>1, <2>2
<1> HIDE DEF a
<1>3. w = a \o t
  BY DEF a, e
<1>4. /\ Len(w) = Len(a) + Len(t) /\ Len(t) \in Nat
      /\ \A i \in 1 .. Len(a) : w[i] = a[i]
  BY <1>2, <1>3, Joined
<1>5. w[Len(s) + 1] = a[Len(s) + 1] /\ \A i \in 1 .. Len(s) : w[i] = a[i]
  BY <1>2, <1>4
<1>. QED
  BY <1>2, <1>4, <1>5

\* In a stream a terminal frame comes last, after every chunk.
LEMMA TerminalIsLast ==
  ASSUME NEW n \in 0 .. Chunks, NEW end \in Ending, NEW f \in Terminal,
         NEW s \in Seq(Frame), NEW t \in Seq(Frame), (s \o <<f>>) \o t = UpTo(n) \o end
  PROVE  t = <<>> /\ end = <<f>> /\ s = UpTo(n)
<1> DEFINE w == (s \o <<f>>) \o t
<1>1. f \in Frame /\ f \in Int /\ f <= 0
  BY FrameFacts DEF Terminal, Done, Error
<1>2. w = (s \o <<f>>) \o t /\ w = UpTo(n) \o end
  OBVIOUS
<1> HIDE DEF w
<1>3. /\ Len(s) \in Nat /\ Len(t) \in Nat /\ Len(w) = Len(s) + 1 + Len(t)
      /\ w[Len(s) + 1] = f
      /\ \A i \in 1 .. Len(s) : w[i] = s[i]
  BY <1>1, <1>2, Placed
<1>4. /\ n \in Nat /\ Len(w) = n + Len(end) /\ Len(end) \in {0, 1}
      /\ \A i \in 1 .. n : w[i] = i
      /\ Len(end) = 1 => w[n + 1] = end[1]
  BY <1>2, Positions
<1>5. Len(s) + 1 > n
  <2>1. SUFFICES ASSUME Len(s) + 1 <= n PROVE FALSE
    BY <1>3, <1>4
  <2>2. w[Len(s) + 1] = Len(s) + 1
    BY <2>1, <1>3, <1>4
  <2>. QED  BY <2>2, <1>1, <1>3
<1>6. Len(s) = n /\ Len(t) = 0 /\ Len(end) = 1
  <2>1. Len(s) + 1 + Len(t) = n + Len(end) /\ Len(end) \in {0, 1}
    BY <1>3, <1>4
  <2>2. Len(s) \in Nat /\ Len(t) \in Nat /\ n \in Nat
    BY <1>3, <1>4
  <2>3. CASE Len(end) = 0
    BY <2>1, <2>2, <2>3, <1>5
  <2>4. CASE Len(end) = 1
    BY <2>1, <2>2, <2>4, <1>5
  <2>. QED  BY <2>1, <2>3, <2>4
<1>7. t = <<>> /\ end = <<f>>
  BY <1>3, <1>4, <1>6, EmptySeq, EndingFacts
<1>8. s = UpTo(n)
  <2>1. UpTo(n) \in Seq(Frame) /\ Len(UpTo(n)) = n /\ \A i \in 1 .. n : UpTo(n)[i] = i
    BY UpToFacts
  <2>2. \A i \in 1 .. Len(s) : s[i] = UpTo(n)[i]
    BY <1>3, <1>4, <1>6, <2>1
  <2>. QED  BY <1>6, <2>1, <2>2, SeqEqual
<1>. QED
  BY <1>7, <1>8

LEMMA LastPlace ==
  ASSUME NEW a \in Nat, NEW b \in Nat, NEW n \in Nat, NEW e \in {0, 1},
         a + 1 + b = n + e, a + 1 > n
  PROVE  a = n /\ e = 1
OBVIOUS

\* In a stream the next chunk has the next number.
LEMMA ChunkIsNext ==
  ASSUME NEW n \in 0 .. Chunks, NEW end \in Ending, NEW c \in Chunk,
         NEW s \in Seq(Frame), NEW t \in Seq(Frame), (s \o <<c>>) \o t = UpTo(n) \o end
  PROVE  c = Len(s) + 1 /\ c <= n
<1> DEFINE w == (s \o <<c>>) \o t
<1>1. c \in Frame /\ c \notin Terminal
  BY FrameFacts
<1>2. w = (s \o <<c>>) \o t /\ w = UpTo(n) \o end
  OBVIOUS
<1> HIDE DEF w
<1>3. /\ Len(s) \in Nat /\ Len(t) \in Nat /\ Len(w) = Len(s) + 1 + Len(t)
      /\ w[Len(s) + 1] = c
  BY <1>1, <1>2, Placed
<1>4. /\ n \in Nat /\ Len(w) = n + Len(end) /\ Len(end) \in {0, 1}
      /\ \A i \in 1 .. n : w[i] = i
      /\ Len(end) = 1 => w[n + 1] = end[1]
  BY <1>2, Positions
<1>5. Len(s) + 1 <= n
  <2>1. SUFFICES ASSUME Len(s) + 1 > n PROVE FALSE
    BY <1>3, <1>4
  <2>2. Len(s) \in Nat /\ Len(t) \in Nat /\ Len(s) + 1 + Len(t) = n + Len(end)
    BY <1>3, <1>4
  <2>3. n \in Nat /\ Len(end) \in {0, 1}
    BY <1>4
  <2>4. Len(s) = n /\ Len(end) = 1
    BY <2>1, <2>2, <2>3, LastPlace
  <2>. QED  BY <2>4, <1>1, <1>3, <1>4, EndingFacts
<1>6. w[Len(s) + 1] = Len(s) + 1
  BY <1>3, <1>4, <1>5
<1>. QED
  BY <1>3, <1>5, <1>6

\* A stream of chunks only has no ending.
LEMMA ChunksHaveNoEnd ==
  ASSUME NEW n \in 0 .. Chunks, NEW end \in Ending, NEW s \in Seq(Chunk), s = UpTo(n) \o end
  PROVE  end = <<>>
<1>1. /\ n \in Nat /\ Len(s) = n + Len(end) /\ Len(end) \in {0, 1}
      /\ Len(end) = 1 => s[n + 1] = end[1]
  BY Positions
<1>2. Len(end) # 1
  <2>1. SUFFICES ASSUME Len(end) = 1 PROVE FALSE
    OBVIOUS
  <2>2. s[n + 1] \in Chunk
    BY <1>1, <2>1, ElementOfSeq
  <2>. QED  BY <1>1, <2>1, <2>2, FrameFacts, EndingFacts
<1>. QED
  BY <1>1, <1>2, EndingFacts

\* One more chunk.
LEMMA NextChunk ==
  ASSUME NEW n \in 0 .. Chunks, n < Chunks
  PROVE  UpTo(n) \o <<n + 1>> = UpTo(n + 1)
<1>1. n \in Nat /\ n + 1 \in 0 .. Chunks /\ n + 1 \in Frame
  BY FrameFacts DEF Frame, Chunk
<1>2. <<n + 1>> \in Seq(Frame) /\ Len(<<n + 1>>) = 1 /\ <<n + 1>>[1] = n + 1
  BY <1>1
<1> DEFINE u == UpTo(n)
           v == UpTo(n + 1)
           e == <<n + 1>>
<1>3. /\ u \in Seq(Frame) /\ Len(u) = n /\ \A i \in 1 .. n : u[i] = i
  BY UpToFacts
<1>4. /\ v \in Seq(Frame) /\ Len(v) = n + 1 /\ \A i \in 1 .. n + 1 : v[i] = i
  BY <1>1, UpToFacts
<1>5. e \in Seq(Frame) /\ Len(e) = 1 /\ e[1] = n + 1
  BY <1>2
<1> HIDE DEF u, v, e
<1>6. /\ u \o e \in Seq(Frame) /\ Len(u \o e) = Len(u) + Len(e)
      /\ \A i \in 1 .. Len(u) : (u \o e)[i] = u[i]
      /\ \A i \in 1 .. Len(e) : (u \o e)[Len(u) + i] = e[i]
  BY <1>3, <1>5, Joined
<1>7. (u \o e)[n + 1] = n + 1 /\ Len(u \o e) = n + 1
  BY <1>3, <1>5, <1>6
<1>8. \A i \in 1 .. Len(v) : v[i] = (u \o e)[i]
  BY <1>1, <1>3, <1>4, <1>6, <1>7
<1>9. u \o e = v
  <2>1. Len(v) = Len(u \o e)
    BY <1>4, <1>7
  <2>. QED  BY <1>4, <1>6, <1>8, <2>1, SeqEqual
<1>. QED
  BY <1>9 DEF u, v, e

LEMMA NothingAdded == \A s \in Seq(Frame) : s \o <<>> = s /\ <<>> \o s = s
BY ConcatEmptySeq

LEMMA OneMore ==
  ASSUME NEW s \in Seq(Chunk), NEW c \in Chunk
  PROVE  /\ Append(s, c) \in Seq(Chunk) /\ Append(s, c) = s \o <<c>>
         /\ Len(Append(s, c)) = Len(s) + 1
BY AppendProperties, AppendIsConcat

\* The parts of the stream are sequences of frames.
LEMMA Parts ==
  ASSUME TypeInv
  PROVE  /\ client.got \in Seq(Chunk) /\ client.got \in Seq(Frame)
         /\ client.terminal \in Ending /\ client.terminal \in Seq(Frame)
         /\ wire \in Seq(Frame) /\ channel \in Seq(Frame)
         /\ handler.frame \in Single \cup {<<>>} /\ handler.frame \in Seq(Frame)
         /\ producer.event \in Single \cup {<<>>} /\ producer.event \in Seq(Frame)
         /\ upstream.sent \in 0 .. Chunks /\ upstream.sent \in Nat
         /\ Len(client.got) \in Nat
<1>1. client.got \in Seq(Chunk) /\ client.terminal \in Ending
  BY DEF TypeInv
<1>2. handler.frame \in Single \cup {<<>>} /\ producer.event \in Single \cup {<<>>}
  BY DEF TypeInv
<1>3. wire \in Seq(Frame) /\ channel \in Seq(Frame) /\ upstream.sent \in 0 .. Chunks
  BY DEF TypeInv
<1>4. client.got \in Seq(Frame) /\ Len(client.got) \in Nat
  BY <1>1, ChunkSeq, LenProperties
<1>5. client.terminal \in Seq(Frame)
  BY <1>1, EndingFacts
<1>6. handler.frame \in Seq(Frame) /\ producer.event \in Seq(Frame)
  BY <1>2, SingleFacts, EmptySeq
<1>. QED
  BY <1>1, <1>2, <1>3, <1>4, <1>5, <1>6, FrameFacts

\* Everything but the event that the reader goroutine is sending.
Written == client.got \o client.terminal \o wire \o handler.frame \o channel

LEMMA WrittenParts ==
  ASSUME TypeInv
  PROVE  /\ client.got \o client.terminal \in Seq(Frame)
         /\ client.got \o client.terminal \o wire \in Seq(Frame)
         /\ client.got \o client.terminal \o wire \o handler.frame \in Seq(Frame)
         /\ Written \in Seq(Frame) /\ Whole = Written \o producer.event
<1>1. client.got \o client.terminal \in Seq(Frame)
  BY Parts, Joined
<1>2. client.got \o client.terminal \o wire \in Seq(Frame)
  BY <1>1, Parts, Joined
<1>3. client.got \o client.terminal \o wire \o handler.frame \in Seq(Frame)
  BY <1>2, Parts, Joined
<1>4. Written \in Seq(Frame)
  BY <1>3, Parts, Joined DEF Written
<1>. QED
  BY <1>1, <1>2, <1>3, <1>4 DEF Whole, Written

\* What is behind the frame the browser reads can be taken as a whole.
LEMMA Regrouped ==
  ASSUME TypeInv
  PROVE  \A g, t \in Seq(Frame) :
           (((g \o t) \o handler.frame) \o channel) \o producer.event
             = g \o (((t \o handler.frame) \o channel) \o producer.event)
<1> SUFFICES ASSUME NEW g \in Seq(Frame), NEW t \in Seq(Frame)
             PROVE  (((g \o t) \o handler.frame) \o channel) \o producer.event
                      = g \o (((t \o handler.frame) \o channel) \o producer.event)
  OBVIOUS
<1> DEFINE c == handler.frame
           d == channel
           e == producer.event
<1>1. c \in Seq(Frame)
  BY Parts
<1>2. d \in Seq(Frame)
  BY Parts
<1>3. e \in Seq(Frame)
  BY Parts
<1> DEFINE tc == t \o c
           td == tc \o d
<1> HIDE DEF c, d, e
<1>4. (g \o t) \o c = g \o tc
  BY <1>1, Associative, ZenonT(60)
<1>5. tc \in Seq(Frame)
  BY <1>1, Joined
<1> HIDE DEF tc
<1>6. (g \o tc) \o d = g \o td
  BY <1>2, <1>5, Associative, ZenonT(60)
<1>7. td \in Seq(Frame)
  BY <1>2, <1>5, Joined
<1> HIDE DEF td
<1>8. (g \o td) \o e = g \o (td \o e)
  BY <1>3, <1>7, Associative, ZenonT(60)
<1>9. (((g \o t) \o c) \o d) \o e = g \o (td \o e)
  BY <1>4, <1>6, <1>8, Zenon
<1>. QED
  BY <1>9 DEF tc, td, c, d, e
-----------------------------------------------------------------------------
(* The reader goroutine *)

LEMMA InvInit == Init => Inv
<1> SUFFICES ASSUME Init PROVE Inv
  OBVIOUS
<1>1. TypeInv
  BY EmptySeq, FrameFacts DEF Init, TypeInv, None, Ending
<1>2. UpTo(0) = <<>>
  <2>1. UpTo(0) \in Seq(Frame) /\ Len(UpTo(0)) = 0
    BY UpToFacts, FrameFacts
  <2>. QED  BY <2>1, EmptySeq
<1>3. Shown /\ Following /\ Flowing /\ Returned /\ Ended
  BY <1>2, EmptySeq, FrameFacts DEF Init, None, Shown, Following, Flowing, Returned, Ended
<1>4. Whole = UpTo(0) \o <<>>
  BY <1>2, NothingAdded, EmptySeq DEF Init, None, Whole
<1>5. Complete
  BY <1>4 DEF Init, None, Complete, EndsWith, Ending
<1>. QED
  BY <1>1, <1>3, <1>5 DEF Inv

\* While the reader goroutine reads, everything it has read has been passed on,
\* and the handler is there.
LEMMA AllPassedOn ==
  ASSUME Inv, producer.pc = "read", connected
  PROVE  Written = UpTo(upstream.sent) /\ handler.pc # "returned"
<1>1. handler.pc # "returned" /\ upstream.end = "open"
  BY DEF Inv, Returned, Following
<1>2. Whole = UpTo(upstream.sent) \o <<>> /\ producer.event = <<>>
  BY <1>1 DEF Inv, Complete, EndsWith, TypeInv
<1>3. UpTo(upstream.sent) \in Seq(Frame)
  BY Parts, UpToFacts DEF Inv
<1>. QED
  BY <1>1, <1>2, <1>3, WrittenParts, NothingAdded DEF Inv

\* The reader goroutine has read something it will send.
LEMMA Reads ==
  ASSUME Inv, producer.pc = "read", NEW f \in Frame, Sends(f),
         upstream' \in [sent : 0 .. Chunks, end : {"open", "done", "error", "eof", "drop"}],
         upstream'.sent >= upstream.sent, f \in Chunk <=> upstream'.end = "open",
         UNCHANGED <<channel, handler, wire, connected, client>>,
         NEW end \in Ending, UpTo(upstream.sent) \o <<f>> = UpTo(upstream'.sent) \o end,
         handler.pc # "returned" => EndsWith(end)'
  PROVE  Inv'
<1>1. TypeInv' /\ producer'.pc = "send" /\ producer'.event = <<f>>
  BY DEF Inv, TypeInv, Sends, Single
<1>2. Shown'
  BY <1>1, Parts DEF Inv, Shown, TypeInv
<1>3. Following'
  BY <1>1 DEF Inv, Following
<1>4. Complete'
  <2>1. SUFFICES ASSUME connected PROVE \E e \in Ending : EndsWith(e)' /\ Whole' = UpTo(upstream'.sent) \o e
    BY DEF Complete
  <2>2. Whole' = Written \o <<f>>
    BY <1>1 DEF Whole, Written
  <2>. QED
    BY <2>1, <2>2, AllPassedOn
<1>5. Flowing' /\ Returned' /\ Ended'
  BY AllPassedOn DEF Inv, Flowing, Returned, Ended
<1>. QED
  BY <1>1, <1>2, <1>3, <1>4, <1>5 DEF Inv

LEMMA ReadChunkStep == ASSUME Inv, ReadChunk PROVE Inv'
<1> DEFINE n == upstream.sent
<1>1. /\ producer.pc = "read" /\ upstream.end = "open" /\ n < Chunks /\ Sends(n + 1)
      /\ upstream' = [upstream EXCEPT !.sent = n + 1]
      /\ UNCHANGED <<channel, handler, wire, connected, client>>
  BY DEF ReadChunk, unchangedByProducer
<1>2. n \in 0 .. Chunks /\ n \in Nat /\ Chunks \in Nat
  BY Parts, FrameFacts DEF Inv
<1>3. n + 1 \in Chunk /\ n + 1 \in Frame /\ n + 1 \in 0 .. Chunks
  BY <1>1, <1>2 DEF Chunk, Frame
<1>4. /\ upstream' \in [sent : 0 .. Chunks, end : {"open", "done", "error", "eof", "drop"}]
      /\ upstream'.sent = n + 1 /\ upstream'.end = "open"
  BY <1>1, <1>3 DEF Inv, TypeInv
<1>5. UpTo(n) \o <<n + 1>> = UpTo(n + 1) \o <<>> /\ <<>> \in Ending
  <2>1. UpTo(n + 1) \in Seq(Frame)
    BY <1>3, UpToFacts
  <2>. QED  BY <1>1, <1>2, <2>1, NextChunk, NothingAdded DEF Ending
<1>6. handler.pc # "returned" => EndsWith(<<>>)'
  BY <1>1, <1>4 DEF EndsWith
<1>7. /\ upstream'.sent >= upstream.sent
      /\ n + 1 \in Chunk <=> upstream'.end = "open"
  BY <1>2, <1>3, <1>4
<1>8. UpTo(upstream.sent) \o <<n + 1>> = UpTo(upstream'.sent) \o <<>>
  BY <1>4, <1>5
<1> DEFINE f == n + 1
<1>9. /\ f \in Frame /\ Sends(f)
      /\ f \in Chunk <=> upstream'.end = "open"
      /\ UpTo(upstream.sent) \o <<f>> = UpTo(upstream'.sent) \o <<>>
  BY <1>1, <1>3, <1>7, <1>8
<1> HIDE DEF f, n
<1>. QED
  BY <1>1, <1>4, <1>5, <1>6, <1>7, <1>9, Reads

LEMMA ReadEndStep == ASSUME Inv, ReadDone \/ ReadError PROVE Inv'
<1>1. /\ producer.pc = "read"
      /\ UNCHANGED <<channel, handler, wire, connected, client>>
      /\ \E f \in Terminal, end \in {"done", "error", "drop"} :
           Sends(f) /\ upstream' = [upstream EXCEPT !.end = end] /\ (f = Done <=> end = "done")
  BY FrameFacts DEF ReadDone, ReadError, unchangedByProducer, Terminal
<1>2. PICK f \in Terminal, end \in {"done", "error", "drop"} :
        Sends(f) /\ upstream' = [upstream EXCEPT !.end = end] /\ (f = Done <=> end = "done")
  BY <1>1
<1>3. f \in Frame /\ f \notin Chunk /\ <<f>> \in Ending /\ <<f>> # <<>> /\ <<f>> = <<IF end = "done" THEN Done ELSE Error>>
  BY <1>2, FrameFacts DEF Ending, Terminal
<1>4. /\ upstream' \in [sent : 0 .. Chunks, end : {"open", "done", "error", "eof", "drop"}]
      /\ upstream'.sent = upstream.sent /\ upstream'.end = end
  BY <1>2 DEF Inv, TypeInv
<1>5. EndsWith(<<f>>)'
  BY <1>3, <1>4 DEF EndsWith
<1>6. upstream.sent \in Nat
  BY Parts DEF Inv
<1>7. /\ upstream'.sent >= upstream.sent
      /\ f \in Chunk <=> upstream'.end = "open"
      /\ UpTo(upstream.sent) \o <<f>> = UpTo(upstream'.sent) \o <<f>>
  BY <1>3, <1>4, <1>6
<1>. QED
  BY <1>1, <1>2, <1>3, <1>4, <1>5, <1>7, Reads

LEMMA ReadEOFStep == ASSUME Inv, ReadEOF PROVE Inv'
<1>1. /\ producer.pc = "read" /\ upstream.end = "open"
      /\ UNCHANGED <<channel, handler, wire, connected, client>>
      /\ upstream' = [upstream EXCEPT !.end = "eof"]
      /\ producer' = [pc |-> "closed", event |-> <<>>]
  BY DEF ReadEOF, unchangedByProducer, None
<1>2. TypeInv' /\ upstream'.sent = upstream.sent /\ upstream'.end = "eof" /\ producer'.pc = "closed"
  BY <1>1 DEF Inv, TypeInv
<1>3. Shown' /\ Following' /\ Flowing' /\ Returned' /\ Ended'
  BY <1>1, <1>2, AllPassedOn DEF Inv, Shown, Following, Flowing, Returned, Ended
<1>4. Complete'
  <2>1. SUFFICES ASSUME connected PROVE EndsWith(<<>>)' /\ Whole' = UpTo(upstream.sent) \o <<>>
    BY <1>1, <1>2 DEF Complete, Ending
  <2>2. handler.pc # "returned" /\ Written = UpTo(upstream.sent)
    BY <1>1, <2>1, AllPassedOn
  <2>3. Whole' = Written \o <<>>
    BY <1>1 DEF Whole, Written
  <2>. QED
    BY <1>1, <1>2, <2>2, <2>3 DEF EndsWith
<1>. QED
  BY <1>2, <1>3, <1>4 DEF Inv

LEMMA SendStep == ASSUME Inv, Send PROVE Inv'
<1> DEFINE f == producer.event[1]
           pc == IF f \in Terminal THEN "closed" ELSE "read"
<1>1. /\ producer.pc = "send" /\ channel' = channel \o producer.event
      /\ producer' = [pc |-> pc, event |-> <<>>]
      /\ UNCHANGED <<upstream, handler, wire, connected, client>>
  BY DEF Send, AfterSend, unchangedByProducer, None
<1>2. producer.event = <<f>> /\ f \in Frame /\ producer.event \in Seq(Frame)
  BY <1>1, SingleFacts DEF Inv, TypeInv
<1>3. channel' \in Seq(Frame)
  BY <1>1, <1>2, Joined DEF Inv, TypeInv
<1>4. TypeInv' /\ producer'.pc \in {"closed", "read"} /\ producer'.event = <<>>
  BY <1>1, <1>3 DEF Inv, TypeInv
<1>5. producer'.pc = "read" <=> upstream.end = "open"
  BY <1>1, <1>2, FrameFacts DEF Inv, Following
<1>6. Shown' /\ Following' /\ Flowing' /\ Returned' /\ Ended'
  BY <1>1, <1>4, <1>5 DEF Inv, Shown, Following, Flowing, Returned, Ended
<1>7. Whole' = Whole
  <2> DEFINE p == client.got \o client.terminal \o wire \o handler.frame
  <2>1. channel' \o <<>> = channel \o producer.event
    BY <1>1, <1>3, NothingAdded
  <2>2. p \in Seq(Frame) /\ channel \in Seq(Frame) /\ <<>> \in Seq(Frame)
    BY WrittenParts, Parts, EmptySeq DEF Inv
  <2>3. Whole = (p \o channel) \o producer.event /\ Whole' = (p \o channel') \o <<>>
    BY <1>1, <1>4 DEF Whole
  <2> DEFINE e == producer.event
  <2> HIDE DEF p
  <2>4. (p \o channel) \o e = p \o (channel \o e)
    BY <1>2, <2>2, Associative, ZenonT(60)
  <2>5. (p \o channel') \o <<>> = p \o (channel' \o <<>>)
    BY <1>3, <2>2, Associative, ZenonT(60)
  <2>. QED
    BY <2>1, <2>3, <2>4, <2>5, Zenon
<1>8. Complete'
  BY <1>1, <1>4, <1>7 DEF Inv, Complete, EndsWith
<1>. QED
  BY <1>4, <1>6, <1>8 DEF Inv
-----------------------------------------------------------------------------
(* The handler *)

LEMMA OpenStep == ASSUME Inv, OpenStream \/ OpenFails PROVE Inv'
<1>1. /\ handler.pc = "open" /\ producer.pc = "off"
      /\ UNCHANGED <<upstream, connected, client, channel, wire>>
      /\ \/ /\ handler' = [handler EXCEPT !.pc = "receive"]
            /\ producer' = [producer EXCEPT !.pc = "read"]
         \/ handler' = [handler EXCEPT !.pc = "returned"] /\ producer' = producer
  BY DEF Inv, Following, OpenStream, OpenFails, unchangedByHandler
<1>2. /\ handler \in [pc : {"open", "receive", "returned"}, frame : {<<>>}]
      /\ producer \in [pc : {"off", "read", "closed"}, event : {<<>>}]
  BY <1>1 DEF Inv, TypeInv
<1>3. /\ handler' \in [pc : {"open", "receive", "returned"}, frame : {<<>>}]
      /\ producer' \in [pc : {"off", "read", "closed"}, event : {<<>>}]
      /\ handler'.frame = handler.frame /\ producer'.event = producer.event
      /\ \/ handler'.pc = "receive" /\ producer'.pc = "read"
         \/ handler'.pc = "returned" /\ producer'.pc = "off"
  BY <1>1, <1>2
<1>4. TypeInv'
  BY <1>1, <1>3 DEF Inv, TypeInv
<1>5. Shown' /\ Following' /\ Flowing' /\ Returned' /\ Ended'
  BY <1>1, <1>3 DEF Inv, Shown, Following, Flowing, Returned, Ended
<1>6. Whole' = Whole
  BY <1>1, <1>3 DEF Whole
<1>7. Complete'
  BY <1>1, <1>3, <1>6 DEF Inv, Complete, EndsWith, Following
<1>. QED
  BY <1>4, <1>5, <1>7 DEF Inv

LEMMA ReceiveStep == ASSUME Inv, Receive PROVE Inv'
<1> DEFINE h == Head(channel)
<1>1. /\ handler.pc = "receive" /\ channel # <<>> /\ channel' = Tail(channel)
      /\ handler' = [pc |-> "write", frame |-> <<h>>]
      /\ UNCHANGED <<upstream, producer, connected, client, wire>>
  BY DEF Receive, Writes, unchangedByHandler
<1>2. /\ h \in Frame /\ channel' \in Seq(Frame) /\ <<h>> \in Seq(Frame)
      /\ channel = <<h>> \o channel' /\ channel \in Seq(Frame)
  BY <1>1, HeadMoves DEF Inv, TypeInv
<1> HIDE DEF h
<1>3. TypeInv' /\ handler'.pc = "write" /\ handler'.frame = <<h>> /\ handler.frame = <<>>
  <2>1. <<h>> \in Single
    BY <1>2 DEF Single
  <2>. QED  BY <1>1, <1>2, <2>1 DEF Inv, TypeInv
<1>4. Shown' /\ Following' /\ Flowing' /\ Returned' /\ Ended'
  BY <1>1, <1>3 DEF Inv, Shown, Following, Flowing, Returned, Ended
<1>5. Whole' = Whole
  <2> DEFINE p == client.got \o client.terminal \o wire
  <2>1. p \in Seq(Frame)
    BY WrittenParts DEF Inv
  <2>2. /\ Whole = ((p \o <<>>) \o channel) \o producer.event
        /\ Whole' = ((p \o <<h>>) \o channel') \o producer.event
    BY <1>1, <1>3 DEF Whole
  <2> HIDE DEF p
  <2>3. p \o <<>> = p
    BY <2>1, NothingAdded
  <2>4. (p \o <<h>>) \o channel' = p \o (<<h>> \o channel')
    BY <2>1, <1>2, Associative, ZenonT(60)
  <2>5. (p \o <<h>>) \o channel' = p \o channel
    BY <2>4, <1>2, Zenon
  <2>. QED
    BY <2>2, <2>3, <2>5, Zenon
<1>6. Complete'
  BY <1>1, <1>3, <1>5 DEF Inv, Complete, EndsWith
<1>. QED
  BY <1>3, <1>4, <1>6 DEF Inv

\* The channel ends without a terminal event only if the body did.
LEMMA ChannelEndsStep == ASSUME Inv, ChannelEnds PROVE Inv'
<1>1. /\ handler.pc = "receive" /\ channel = <<>> /\ producer.pc = "closed"
      /\ handler' = [pc |-> "write", frame |-> <<Error>>]
      /\ UNCHANGED <<upstream, producer, connected, client, wire, channel>>
  BY DEF ChannelEnds, Writes, unchangedByHandler
<1>2. TypeInv' /\ handler'.pc = "write" /\ handler'.frame = <<Error>> /\ handler.frame = <<>>
  <2>1. <<Error>> \in Single
    BY FrameFacts DEF Single
  <2>. QED  BY <1>1, <2>1 DEF Inv, TypeInv
<1>3. Shown' /\ Following' /\ Flowing' /\ Returned' /\ Ended'
  BY <1>1, <1>2 DEF Inv, Shown, Following, Flowing, Returned, Ended
<1>4. Complete'
  <2>1. SUFFICES ASSUME connected PROVE EndsWith(<<Error>>)' /\ Whole' = UpTo(upstream.sent) \o <<Error>>
    BY <1>1 DEF Complete, Ending
  <2>2. PICK end \in Ending : EndsWith(end) /\ Whole = UpTo(upstream.sent) \o end
    BY <2>1 DEF Inv, Complete
  <2>3. client.terminal = <<>> /\ wire \in Seq(Chunk) /\ producer.event = <<>>
    BY <1>1, <2>1 DEF Inv, Flowing, TypeInv
  <2> DEFINE s == client.got \o wire
  <2>4. s \in Seq(Chunk) /\ s \in Seq(Frame)
    BY <2>3, Parts, ConcatProperties, ChunkSeq DEF Inv
  <2>5. /\ Whole = (((client.got \o <<>>) \o wire) \o <<>> \o <<>>) \o <<>>
        /\ Whole' = (((client.got \o <<>>) \o wire) \o <<Error>> \o <<>>) \o <<>>
    BY <1>1, <1>2, <2>3 DEF Whole
  <2>6. client.got \o <<>> = client.got
    BY Parts, NothingAdded DEF Inv
  <2>7. Whole = s /\ Whole' = s \o <<Error>>
    <3>1. s \o <<Error>> \in Seq(Frame)
      <4>1. <<Error>> \in Seq(Frame)
        BY FrameFacts
      <4>. QED  BY <2>4, <4>1, Joined
    <3>2. Whole = ((s \o <<>>) \o <<>>) \o <<>> /\ Whole' = ((s \o <<Error>>) \o <<>>) \o <<>>
      BY <2>5, <2>6, Zenon
    <3> HIDE DEF s
    <3>. QED  BY <2>4, <3>1, <3>2, NothingAdded
  <2> HIDE DEF s
  <2>8. end = <<>>
    BY <2>2, <2>4, <2>7, Parts, ChunksHaveNoEnd DEF Inv
  <2>9. UpTo(upstream.sent) \in Seq(Frame)
    BY Parts, UpToFacts DEF Inv
  <2>10. Whole' = UpTo(upstream.sent) \o <<Error>>
    BY <2>2, <2>7, <2>8, <2>9, NothingAdded
  <2>11. upstream.end = "eof"
    BY <1>1, <2>2, <2>8 DEF EndsWith, Inv, TypeInv, Following
  <2>12. EndsWith(<<Error>>)'
    BY <1>1, <2>11, FrameFacts DEF EndsWith
  <2>. QED
    BY <2>10, <2>12
<1>. QED
  BY <1>2, <1>3, <1>4 DEF Inv

\* What a write leaves of the handler.
LEMMA AfterWriteFacts ==
  ASSUME Inv, handler.pc = "write", AfterWrite \/ handler' = [pc |-> "returned", frame |-> None]
  PROVE  /\ handler' \in [pc : {"open", "receive", "returned"}, frame : {<<>>}]
         /\ handler'.pc \in {"receive", "returned"}
BY DEF AfterWrite, None

LEMMA WriteStep == ASSUME Inv, Write PROVE Inv'
<1> DEFINE f == handler.frame[1]
<1>1. /\ handler.pc = "write" /\ connected /\ wire' = wire \o handler.frame
      /\ handler' = [pc |-> IF f \in Terminal THEN "returned" ELSE "receive", frame |-> <<>>]
      /\ UNCHANGED <<upstream, connected, client, producer, channel>>
  BY DEF Write, AfterWrite, None, unchangedByHandler
<1>2. handler.frame = <<f>> /\ f \in Frame /\ <<f>> \in Seq(Frame)
  BY <1>1, SingleFacts DEF Inv, TypeInv
<1>3. wire' \in Seq(Frame) /\ wire \in Seq(Frame) /\ wire' = wire \o <<f>>
  BY <1>1, <1>2, Joined DEF Inv, TypeInv
<1>4. /\ TypeInv' /\ handler'.frame = <<>> /\ handler'.pc \in {"receive", "returned"}
      /\ handler'.pc = "returned" <=> f \in Terminal
  <2>1. handler' \in [pc : {"open", "receive", "returned"}, frame : {<<>>}]
    BY <1>1
  <2>2. TypeInv'
    BY <1>1, <1>3, <2>1 DEF Inv, TypeInv
  <2>. QED
    BY <1>1, <2>2
<1> HIDE DEF f
<1>5. client.terminal = <<>> /\ wire \in Seq(Chunk) /\ producer.pc # "off"
  BY <1>1 DEF Inv, Flowing, Following
<1> DEFINE p == client.got \o client.terminal
<1>6. p \in Seq(Frame) /\ channel \in Seq(Frame) /\ producer.event \in Seq(Frame) /\ <<>> \in Seq(Frame)
  BY WrittenParts, Parts, EmptySeq DEF Inv
<1>7. Whole = (((p \o wire) \o <<f>>) \o channel) \o producer.event
  BY <1>2 DEF Whole
<1>8. Whole' = Whole
  <2>1. Whole' = (((p \o wire') \o <<>>) \o channel) \o producer.event
    BY <1>1, <1>4 DEF Whole
  <2> DEFINE e == <<f>>
  <2>2. e \in Seq(Frame) /\ wire \in Seq(Frame) /\ p \in Seq(Frame)
    BY <1>2, <1>3, <1>6
  <2> HIDE DEF p, e
  <2>3. (p \o wire) \o e = p \o (wire \o e)
    BY <2>2, Associative, ZenonT(60)
  <2>4. (p \o wire) \o <<f>> = p \o (wire \o <<f>>)
    BY <2>3 DEF e
  <2>5. (p \o wire') \o <<>> = p \o wire'
    <3>1. p \o wire' \in Seq(Frame)
      BY <1>3, <1>6, Joined
    <3>. QED  BY <3>1, NothingAdded, Zenon
  <2>. QED
    BY <1>3, <1>7, <2>1, <2>4, <2>5, Zenon
<1>9. PICK end \in Ending : EndsWith(end) /\ Whole = UpTo(upstream.sent) \o end
  BY <1>1 DEF Inv, Complete
<1>10. ASSUME f \in Terminal
       PROVE  end = <<f>> /\ channel = <<>> /\ producer.event = <<>>
  <2> DEFINE a == p \o wire
             t == channel \o producer.event
  <2>1. a \in Seq(Frame) /\ t \in Seq(Frame)
    BY <1>3, <1>6, Joined
  <2>2. a \o <<f>> \in Seq(Frame)
    BY <1>2, <2>1, Joined
  <2>3. Whole = ((a \o <<f>>) \o channel) \o producer.event
    BY <1>7
  <2> HIDE DEF a
  <2>4. ((a \o <<f>>) \o channel) \o producer.event = (a \o <<f>>) \o t
    BY <1>6, <2>2, Associative, ZenonT(60)
  <2>5. (a \o <<f>>) \o t = UpTo(upstream.sent) \o end
    BY <1>9, <2>3, <2>4, Zenon
  <2> HIDE DEF t
  <2>6. t = <<>> /\ end = <<f>>
    <3>1. upstream.sent \in 0 .. Chunks /\ end \in Ending
      BY <1>9, Parts DEF Inv
    <3>2. a \in Seq(Frame) /\ t \in Seq(Frame)
      BY <2>1
    <3>. QED  BY <1>10, <2>5, <3>1, <3>2, TerminalIsLast
  <2>. QED
    BY <1>6, <2>6, ConcatEqualIffEmpty DEF t
<1>11. f \in Terminal => producer.pc = "closed"
  <2>1. SUFFICES ASSUME f \in Terminal PROVE producer.pc = "closed"
    OBVIOUS
  <2>2. end # <<>> /\ producer.event = <<>>
    BY <1>10, <2>1
  <2>3. producer.pc # "send"
    BY <2>2, SingleFacts DEF Inv, TypeInv
  <2>4. producer.pc # "read"
    BY <1>9, <2>2 DEF EndsWith, Inv, Following
  <2>. QED
    BY <1>5, <2>3, <2>4 DEF Inv, TypeInv
<1>12. Complete'
  <2>1. f \in Terminal => end # <<>>
    BY <1>10
  <2>2. EndsWith(end)'
    BY <1>1, <1>4, <1>9, <2>1 DEF EndsWith
  <2>. QED
    BY <1>1, <1>8, <1>9, <2>2 DEF Complete
<1>13. Flowing'
  <2>1. SUFFICES ASSUME f \notin Terminal PROVE wire' \in Seq(Chunk)
    BY <1>1, <1>4, <1>5 DEF Flowing
  <2>2. f \in Chunk
    BY <1>2, <2>1, FrameFacts
  <2>3. wire' = Append(wire, f)
    BY <1>2, <1>3, AppendIsConcat
  <2>. QED
    BY <1>5, <2>2, <2>3, OneMore
<1>14. Returned'
  BY <1>1, <1>4, <1>10, <1>11 DEF Returned
<1>15. Shown' /\ Following' /\ Ended'
  BY <1>1, <1>4, <1>5 DEF Inv, Shown, Following, Ended
<1>. QED
  BY <1>4, <1>12, <1>13, <1>14, <1>15 DEF Inv

LEMMA LostStep == ASSUME Inv, WriteLost \/ WriteFails PROVE Inv'
<1>1. /\ handler.pc = "write" /\ ~connected
      /\ AfterWrite \/ handler' = [pc |-> "returned", frame |-> None]
      /\ UNCHANGED <<upstream, connected, client, producer, channel, wire>>
  BY DEF WriteLost, WriteFails, unchangedByHandler
<1>2. /\ handler' \in [pc : {"open", "receive", "returned"}, frame : {<<>>}]
      /\ handler'.pc \in {"receive", "returned"}
  BY <1>1, AfterWriteFacts
<1>3. TypeInv'
  BY <1>1, <1>2 DEF Inv, TypeInv
<1>. QED
  BY <1>1, <1>2, <1>3
     DEF Inv, Shown, Following, Complete, Flowing, Returned, Ended
-----------------------------------------------------------------------------
(* The browser *)

\* The client has changed nothing but what it is doing.
LEMMA WaitStep ==
  ASSUME Inv, Fetched \/ ReadEnd PROVE Inv'
<1>1. /\ UNCHANGED <<upstream, producer, channel, handler, wire, connected>>
      /\ \E pc \in {"read", "failed", "complete"} : client' = [client EXCEPT !.pc = pc]
  BY DEF Fetched, ReadEnd, unchangedByClient
<1>2. TypeInv' /\ client'.got = client.got /\ client'.terminal = client.terminal
  BY <1>1 DEF Inv, TypeInv
<1>3. Whole' = Whole
  BY <1>1, <1>2 DEF Whole
<1>. QED
  BY <1>1, <1>2, <1>3 DEF Inv, Shown, Following, Complete, EndsWith, Flowing, Returned, Ended

\* The frame the browser reads, and the stream around it.
LEMMA NextFrame ==
  ASSUME Inv, wire # <<>>
  PROVE  /\ connected /\ client.terminal = <<>>
         /\ Head(wire) \in Frame /\ Tail(wire) \in Seq(Frame)
         /\ Whole = (client.got \o <<Head(wire)>>)
                      \o (((Tail(wire) \o handler.frame) \o channel) \o producer.event)
         /\ ((Tail(wire) \o handler.frame) \o channel) \o producer.event \in Seq(Frame)
<1> DEFINE h == <<Head(wire)>>
           t == Tail(wire)
           a == client.got \o h
<1>1. connected /\ client.terminal = <<>>
  BY DEF Inv, Ended, TypeInv
<1>2. /\ Head(wire) \in Frame /\ t \in Seq(Frame) /\ h \in Seq(Frame) /\ wire = h \o t
  BY HeadMoves, Parts DEF Inv
<1>3. /\ client.got \in Seq(Frame) /\ handler.frame \in Seq(Frame) /\ channel \in Seq(Frame)
      /\ producer.event \in Seq(Frame)
  BY Parts DEF Inv
<1>4. Whole = (((client.got \o <<>>) \o wire) \o handler.frame \o channel) \o producer.event
  BY <1>1 DEF Whole
<1>5. client.got \o <<>> = client.got
  BY <1>3, NothingAdded
<1> HIDE DEF h, t
<1>6. a \in Seq(Frame) /\ client.got \o (h \o t) = a \o t
  <2> DEFINE g == client.got
  <2>1. g \in Seq(Frame)
    BY <1>3
  <2>2. h \in Seq(Frame)
    BY <1>2
  <2>3. t \in Seq(Frame)
    BY <1>2
  <2> HIDE DEF g
  <2>4. g \o h \in Seq(Frame)
    BY <2>1, <2>2, Joined
  <2>5. (g \o h) \o t = g \o (h \o t)
    BY <2>1, <2>2, <2>3, Associative, ZenonT(60)
  <2>. QED  BY <2>4, <2>5 DEF g
<1> HIDE DEF a
<1>7. Whole = (((a \o t) \o handler.frame) \o channel) \o producer.event
  BY <1>2, <1>4, <1>5, <1>6, Zenon
<1>8. (((a \o t) \o handler.frame) \o channel) \o producer.event
        = a \o (((t \o handler.frame) \o channel) \o producer.event)
  <2>1. t \in Seq(Frame)
    BY <1>2
  <2>2. TypeInv
    BY DEF Inv
  <2>. QED  BY <1>6, <2>1, <2>2, Regrouped, Zenon
<1>9. ((t \o handler.frame) \o channel) \o producer.event \in Seq(Frame)
  <2>1. t \o handler.frame \in Seq(Frame)
    BY <1>2, <1>3, Joined
  <2>2. (t \o handler.frame) \o channel \in Seq(Frame)
    BY <1>3, <2>1, Joined
  <2>. QED  BY <1>3, <2>2, Joined
<1>10. Whole = a \o (((t \o handler.frame) \o channel) \o producer.event)
  BY <1>7, <1>8, Zenon
<1>. QED
  BY <1>1, <1>2, <1>9, <1>10 DEF a, h, t

LEMMA ReadTokenStep == ASSUME Inv, ReadToken PROVE Inv'
<1> DEFINE h == Head(wire)
           t == ((Tail(wire) \o handler.frame) \o channel) \o producer.event
<1>1. /\ wire # <<>> /\ h \in Chunk /\ wire' = Tail(wire)
      /\ client' = [client EXCEPT !.got = Append(client.got, h)]
      /\ UNCHANGED <<upstream, producer, channel, handler, connected>>
  BY DEF ReadToken, unchangedByClient
<1>2. /\ connected /\ client.terminal = <<>> /\ Tail(wire) \in Seq(Frame)
      /\ Whole = (client.got \o <<h>>) \o t /\ t \in Seq(Frame)
  BY <1>1, NextFrame
<1>3. PICK end \in Ending : EndsWith(end) /\ Whole = UpTo(upstream.sent) \o end
  BY <1>2 DEF Inv, Complete
<1> HIDE DEF h, t
<1>4. h = Len(client.got) + 1 /\ h <= upstream.sent
  <2>1. (client.got \o <<h>>) \o t = UpTo(upstream.sent) \o end
    BY <1>2, <1>3, Zenon
  <2>2. client.got \in Seq(Frame) /\ upstream.sent \in 0 .. Chunks
    BY Parts DEF Inv
  <2>. QED  BY <1>1, <1>2, <1>3, <2>1, <2>2, ChunkIsNext
<1>5. /\ Append(client.got, h) \in Seq(Chunk) /\ Append(client.got, h) = client.got \o <<h>>
      /\ Len(Append(client.got, h)) = Len(client.got) + 1 /\ Len(client.got) \in Nat
  <2>1. client.got \in Seq(Chunk) /\ Len(client.got) \in Nat
    BY Parts DEF Inv
  <2>. QED  BY <1>1, <2>1, OneMore
<1>6. /\ TypeInv' /\ client'.got = client.got \o <<h>> /\ Len(client'.got) = Len(client.got) + 1
      /\ client'.terminal = <<>>
  BY <1>1, <1>2, <1>5 DEF Inv, TypeInv
<1>7. Shown'
  <2> DEFINE n == Len(client.got)
  <2>1. n \in 0 .. Chunks /\ n < Chunks /\ client.got = UpTo(n)
    <3>1. upstream.sent \in 0 .. Chunks
      BY Parts DEF Inv
    <3>2. Chunks \in Nat
      BY FrameFacts
    <3>. QED  BY <1>4, <1>5, <3>1, <3>2 DEF Inv, Shown
  <2>2. UpTo(n) \o <<n + 1>> = UpTo(n + 1)
    BY <2>1, NextChunk
  <2>3. client'.got = UpTo(Len(client'.got))
    BY <1>4, <1>6, <2>1, <2>2
  <2>. QED
    BY <1>1, <1>4, <1>6, <2>3 DEF Shown
<1>8. Whole' = Whole
  <2> DEFINE g == client.got \o <<h>>
  <2>1. g \in Seq(Frame)
    BY <1>5, ChunkSeq
  <2>2. Whole' = ((((g \o <<>>) \o Tail(wire)) \o handler.frame) \o channel) \o producer.event
    BY <1>1, <1>6 DEF Whole
  <2> HIDE DEF g
  <2>3. g \o <<>> = g
    BY <2>1, NothingAdded
  <2>4. handler.frame \in Seq(Frame) /\ channel \in Seq(Frame) /\ producer.event \in Seq(Frame)
        /\ Tail(wire) \in Seq(Frame)
    BY <1>2, Parts DEF Inv
  <2>5. (((g \o Tail(wire)) \o handler.frame) \o channel) \o producer.event
          = g \o (((Tail(wire) \o handler.frame) \o channel) \o producer.event)
    <3>1. TypeInv
      BY DEF Inv
    <3>. QED  BY <2>1, <2>4, <3>1, Regrouped, Zenon
  <2>6. Whole' = g \o t
    BY <2>2, <2>3, <2>5, Zenon DEF t
  <2>. QED
    BY <1>2, <2>6 DEF g
<1>9. Complete'
  BY <1>1, <1>8 DEF Inv, Complete, EndsWith
<1>10. Flowing'
  BY <1>1, <1>6, HeadTailProperties DEF Inv, Flowing
<1>11. Following' /\ Returned' /\ Ended'
  BY <1>1, <1>2, <1>6 DEF Inv, Following, Returned, Ended
<1>. QED
  BY <1>6, <1>7, <1>9, <1>10, <1>11 DEF Inv

\* [DONE], or the error frame the browser reads past.
LEMMA ReadTerminalStep == ASSUME Inv, ReadPastError \/ ReadMarker PROVE Inv'
<1> DEFINE h == Head(wire)
           t == ((Tail(wire) \o handler.frame) \o channel) \o producer.event
<1>1. /\ wire # <<>> /\ h \in Terminal /\ wire' = Tail(wire)
      /\ \E pc \in {"complete", client.pc} :
           client' = [client EXCEPT !.pc = pc, !.terminal = Append(client.terminal, h)]
      /\ UNCHANGED <<upstream, producer, channel, handler, connected>>
  <2>1. CASE ReadMarker
    BY <2>1 DEF ReadMarker, unchangedByClient, Terminal
  <2>2. CASE ReadPastError
    <3>1. client \in [pc : {"fetch", "read", "complete", "failed", "aborted"},
                      got : Seq(Chunk), terminal : Ending]
      BY DEF Inv, TypeInv
    <3>2. client' = [client EXCEPT !.terminal = Append(client.terminal, h)]
      BY <2>2 DEF ReadPastError
    <3>3. client' = [client EXCEPT !.pc = client.pc, !.terminal = Append(client.terminal, h)]
      BY <3>1, <3>2
    <3>. QED  BY <2>2, <3>3 DEF ReadPastError, unchangedByClient, Terminal
  <2>. QED  BY <2>1, <2>2
<1>2. /\ connected /\ client.terminal = <<>> /\ Tail(wire) \in Seq(Frame)
      /\ Whole = (client.got \o <<h>>) \o t /\ t \in Seq(Frame)
  BY <1>1, NextFrame
<1>3. PICK end \in Ending : EndsWith(end) /\ Whole = UpTo(upstream.sent) \o end
  BY <1>2 DEF Inv, Complete
<1> HIDE DEF h, t
<1>4. t = <<>>
  <2>1. (client.got \o <<h>>) \o t = UpTo(upstream.sent) \o end
    BY <1>2, <1>3, Zenon
  <2>2. client.got \in Seq(Frame) /\ upstream.sent \in 0 .. Chunks
    BY Parts DEF Inv
  <2>3. h \in Terminal /\ t \in Seq(Frame) /\ end \in Ending
    BY <1>1, <1>2, <1>3
  <2>. QED  BY <2>1, <2>2, <2>3, TerminalIsLast
<1>5. Tail(wire) = <<>> /\ handler.frame = <<>> /\ channel = <<>> /\ producer.event = <<>>
  <2>1. /\ Tail(wire) \in Seq(Frame) /\ handler.frame \in Seq(Frame)
        /\ channel \in Seq(Frame) /\ producer.event \in Seq(Frame)
    BY <1>2, Parts DEF Inv
  <2> DEFINE a == Tail(wire) \o handler.frame
             b == a \o channel
  <2>2. a \in Seq(Frame) /\ b \in Seq(Frame)
    BY <2>1, Joined
  <2>3. b \o producer.event = <<>>
    BY <1>4 DEF t
  <2> HIDE DEF b
  <2>4. b = <<>> /\ producer.event = <<>>
    BY <2>1, <2>2, <2>3, ConcatEqualIffEmpty
  <2> HIDE DEF a
  <2>5. a = <<>> /\ channel = <<>>
    BY <2>1, <2>2, <2>4, ConcatEqualIffEmpty DEF b
  <2>6. Tail(wire) = <<>> /\ handler.frame = <<>>
    BY <2>1, <2>5, ConcatEqualIffEmpty DEF a
  <2>. QED  BY <2>4, <2>5, <2>6
<1>6. Append(client.terminal, h) = <<h>> /\ <<h>> \in Ending
  BY <1>1, <1>2 DEF Ending, Terminal
<1>7. TypeInv' /\ client'.got = client.got /\ client'.terminal = <<h>> /\ wire' = <<>>
  BY <1>1, <1>2, <1>5, <1>6 DEF Inv, TypeInv
<1>8. handler.pc = "returned"
  <2>1. SUFFICES ASSUME handler.pc # "returned" PROVE FALSE
    OBVIOUS
  <2>2. wire \in Seq(Chunk)
    BY <1>2, <2>1 DEF Inv, Flowing
  <2>3. h \in Chunk
    BY <1>1, <2>2, HeadTailProperties DEF h
  <2>. QED
    BY <1>1, <2>3, FrameFacts
<1>9. Whole' = Whole
  <2> DEFINE g == client.got \o <<h>>
  <2>1. g \in Seq(Frame)
    <3>1. <<h>> \in Seq(Frame)
      BY <1>6, EndingFacts
    <3>. QED  BY <3>1, Parts, Joined DEF Inv
  <2>2. Whole' = (((g \o <<>>) \o <<>>) \o <<>>) \o <<>>
    BY <1>1, <1>5, <1>7 DEF Whole
  <2>3. Whole = g \o <<>>
    BY <1>2, <1>4
  <2> HIDE DEF g
  <2>. QED  BY <2>1, <2>2, <2>3, NothingAdded
<1>10. Complete'
  BY <1>1, <1>9 DEF Inv, Complete, EndsWith
<1>11. Shown' /\ Following' /\ Flowing' /\ Returned' /\ Ended'
  BY <1>1, <1>2, <1>7, <1>8 DEF Inv, Shown, Following, Flowing, Returned, Ended
<1>. QED
  BY <1>7, <1>10, <1>11 DEF Inv

\* Once the browser has read past a terminal frame, that was all.
LEMMA TerminalRead ==
  ASSUME Inv, connected, client.terminal # <<>>
  PROVE  /\ wire = <<>> /\ handler.frame = <<>> /\ channel = <<>> /\ producer.event = <<>>
         /\ client.got = UpTo(upstream.sent)
         /\ \A end \in Ending : Whole = UpTo(upstream.sent) \o end => client.terminal = end
<1>1. wire = <<>> /\ handler.pc = "returned"
  BY DEF Inv, Ended, Flowing
<1>2. handler.frame = <<>> /\ channel = <<>> /\ producer.event = <<>>
  BY <1>1 DEF Inv, TypeInv, Returned
<1>3. PICK f \in Terminal : client.terminal = <<f>>
  BY DEF Inv, TypeInv, Ending, Terminal
<1> DEFINE g == client.got \o <<f>>
<1>4. g \in Seq(Frame) /\ client.got \in Seq(Frame) /\ upstream.sent \in 0 .. Chunks
  BY <1>3, Parts, WrittenParts DEF Inv
<1>5. Whole = (((g \o <<>>) \o <<>>) \o <<>>) \o <<>>
  BY <1>1, <1>2, <1>3 DEF Whole
<1>6. Whole = g \o <<>>
  <2> HIDE DEF g
  <2>. QED  BY <1>4, <1>5, NothingAdded
<1>7. ASSUME NEW end \in Ending, Whole = UpTo(upstream.sent) \o end
      PROVE  end = <<f>> /\ client.got = UpTo(upstream.sent)
  <2>1. (client.got \o <<f>>) \o <<>> = UpTo(upstream.sent) \o end
    BY <1>6, <1>7
  <2>2. <<>> \in Seq(Frame)
    BY EmptySeq
  <2>. QED  BY <1>4, <2>1, <2>2, TerminalIsLast
<1>8. \E end \in Ending : Whole = UpTo(upstream.sent) \o end
  BY DEF Inv, Complete
<1>. QED
  BY <1>1, <1>2, <1>3, <1>7, <1>8

LEMMA DisconnectStep == ASSUME Inv, Disconnect PROVE Inv'
<1>1. /\ connected' = FALSE /\ wire' = <<>>
      /\ UNCHANGED <<upstream, producer, channel, handler>>
      /\ \E pc \in {"failed", "aborted"} : client' = [client EXCEPT !.pc = pc]
  BY DEF Disconnect, unchangedByClient
<1>2. TypeInv' /\ client'.got = client.got
  BY <1>1, EmptySeq DEF Inv, TypeInv
<1>. QED
  BY <1>1, <1>2 DEF Inv, Shown, Following, Complete, Flowing, Returned, Ended

LEMMA InvStutter == ASSUME Inv, UNCHANGED vars PROVE Inv'
<1>1. /\ upstream' = upstream /\ producer' = producer /\ channel' = channel
      /\ handler' = handler /\ wire' = wire /\ connected' = connected /\ client' = client
  BY DEF vars
<1>2. TypeInv'
  BY <1>1 DEF Inv, TypeInv
<1>3. Shown' /\ Following'
  BY <1>1 DEF Inv, Shown, Following
<1>4. Complete'
  BY <1>1 DEF Inv, Complete, EndsWith, Whole
<1>5. Flowing' /\ Returned' /\ Ended'
  BY <1>1 DEF Inv, Flowing, Returned, Ended
<1>. QED
  BY <1>2, <1>3, <1>4, <1>5 DEF Inv

LEMMA InvNext == Inv /\ [Next]_vars => Inv'
<1> SUFFICES ASSUME Inv, [Next]_vars PROVE Inv'
  OBVIOUS
<1>1. CASE ProducerStep
  BY <1>1, ReadChunkStep, ReadEndStep, ReadEOFStep, SendStep DEF ProducerStep, ReadReturns
<1>2. CASE HandlerStep
  BY <1>2, OpenStep, ReceiveStep, ChannelEndsStep, WriteStep, LostStep
     DEF HandlerStep, OpenReturns, Relays
<1>3. CASE ClientStep
  BY <1>3, WaitStep, ReadTokenStep, ReadTerminalStep DEF ClientStep
<1>4. CASE Disconnect
  BY <1>4, DisconnectStep
<1>5. CASE UNCHANGED vars
  BY <1>5, InvStutter
<1>. QED
  BY <1>1, <1>2, <1>3, <1>4, <1>5 DEF Next, Rest
-----------------------------------------------------------------------------
(* Theorems *)

\* What is shown is a beginning of what the upstream said, and while the browser
\* is there the rest is on its way, in its order and once
\* (src/providers/local.go:136-143, src/frontend/src/lib/api.ts:139-169): for
\* any number of chunks and whatever the channel and the connection hold.
THEOREM StreamIsKept == Spec => []NothingLost
<1>1. Inv => NothingLost
  <2> SUFFICES ASSUME Inv PROVE NothingLost
    OBVIOUS
  <2> DEFINE g == client.got
             n == upstream.sent
  <2>1. IsPrefix(g, UpTo(n))
    <3>1. /\ g \in Seq(Frame) /\ Len(g) \in Nat /\ Len(g) <= n /\ n \in 0 .. Chunks /\ n \in Nat
          /\ g = UpTo(Len(g))
      BY Parts DEF Inv, Shown
    <3>2. /\ UpTo(n) \in Seq(Frame) /\ Len(UpTo(n)) = n /\ \A i \in 1 .. n : UpTo(n)[i] = i
      BY <3>1, UpToFacts
    <3>3. \A i \in 1 .. Len(g) : g[i] = i
      <4>1. Len(g) \in 0 .. Chunks
        BY <3>1, FrameFacts
      <4>2. \A i \in 1 .. Len(g) : UpTo(Len(g))[i] = i
        BY <4>1, UpToFacts
      <4> HIDE DEF g
      <4>. QED  BY <3>1, <4>2
    <3> DEFINE u == UpTo(n)
               k == Len(g)
    <3>4. u \in Seq(Frame) /\ Len(u) = n /\ k \in Nat /\ k <= n /\ \A i \in 1 .. n : u[i] = i
      BY <3>1, <3>2
    <3> HIDE DEF u, g, n
    <3>5. \A i \in 1 .. k : u[i] \in Frame
      BY <3>1, <3>4, ElementOfSeq
    <3>6. /\ SubSeq(u, 1, k) \in Seq(Frame) /\ Len(SubSeq(u, 1, k)) = k
          /\ \A i \in 1 .. k : SubSeq(u, 1, k)[i] = u[i]
      BY <3>4, <3>5, SubSeqProperties
    <3>7. SubSeq(g, 1, k) = g
      BY <3>1, SubSeqFull
    <3>8. \A i \in 1 .. k : g[i] = SubSeq(u, 1, k)[i]
      BY <3>1, <3>3, <3>4, <3>6
    <3>9. g = SubSeq(u, 1, k)
      BY <3>1, <3>6, <3>8, SeqEqual
    <3>. QED
      BY <3>4, <3>7, <3>9 DEF IsPrefix, u
  <2>2. ASSUME connected
        PROVE  \E end \in Ending : Pipeline = UpTo(n) \o end
    <3>1. PICK end \in Ending : Whole = UpTo(n) \o end
      BY <2>2 DEF Inv, Complete
    <3>2. CASE client.terminal = <<>>
      <4>1. client.got \o <<>> = client.got
        BY Parts, NothingAdded DEF Inv
      <4>2. Whole = Pipeline
        BY <3>2, <4>1, Zenon DEF Whole, Pipeline
      <4>. QED  BY <3>1, <4>2
    <3>3. CASE client.terminal # <<>>
      <4>1. g = UpTo(n)
        BY <2>2, <3>3, TerminalRead
      <4>2. Pipeline = UpTo(n)
        <5>1. wire = <<>> /\ handler.frame = <<>> /\ channel = <<>> /\ producer.event = <<>>
          BY <2>2, <3>3, TerminalRead
        <5>2. Pipeline = (((g \o <<>>) \o <<>>) \o <<>>) \o <<>>
          BY <5>1 DEF Pipeline
        <5>3. g \in Seq(Frame)
          BY Parts DEF Inv
        <5> HIDE DEF g, n
        <5>. QED  BY <4>1, <5>2, <5>3, NothingAdded
      <4>3. UpTo(n) \o <<>> = UpTo(n)
        BY Parts, UpToFacts, NothingAdded DEF Inv
      <4>. QED  BY <4>2, <4>3 DEF Ending
    <3>. QED  BY <3>2, <3>3
  <2>. QED
    BY <2>1, <2>2 DEF NothingLost, Ending
<1>. QED
  BY InvInit, InvNext, <1>1, PTL DEF Spec

\* A response written to its end carries one terminal frame, after every chunk,
\* and it is [DONE] exactly if the upstream said so (src/gateway/handler.go,
\* lines 328-329), however the body ends and however slow the browser is.
THEOREM EndIsTold == Spec => []ResponseTellsTheEnd
<1>1. Inv => ResponseTellsTheEnd
  <2> DEFINE end == <<IF upstream.end = "done" THEN Done ELSE Error>>
  <2>1. SUFFICES ASSUME Inv, handler.pc = "returned", connected, producer.pc # "off"
                 PROVE  \/ client.terminal = <<>> /\ client.got \o wire = UpTo(upstream.sent) \o end
                        \/ client.terminal = end /\ wire = <<>> /\ client.got = UpTo(upstream.sent)
    BY DEF ResponseTellsTheEnd
  <2>2. PICK e \in Ending : EndsWith(e) /\ Whole = UpTo(upstream.sent) \o e
    BY <2>1 DEF Inv, Complete
  <2>3. upstream.end \in {"done", "error", "eof", "drop"} /\ producer.pc = "closed"
    BY <2>1 DEF Inv, TypeInv, Following, Returned
  <2>4. e = end
    BY <2>1, <2>2, <2>3 DEF EndsWith, Ending
  <2> HIDE DEF end
  <2>5. CASE client.terminal = <<>>
    <3>1. channel = <<>> /\ handler.frame = <<>> /\ producer.event = <<>>
      BY <2>1, <2>3 DEF Inv, Returned, TypeInv
    <3>2. client.got \o <<>> = client.got
      BY Parts, NothingAdded, <2>1 DEF Inv
    <3> DEFINE s == client.got \o wire
    <3>3. Whole = ((s \o <<>>) \o <<>>) \o <<>>
      BY <2>5, <3>1, <3>2, Zenon DEF Whole
    <3>4. s \in Seq(Frame)
      BY <2>1, Parts, Joined DEF Inv
    <3> HIDE DEF s
    <3>5. Whole = s
      BY <3>3, <3>4, NothingAdded
    <3>. QED
      BY <2>2, <2>4, <2>5, <3>5 DEF s
  <2>6. CASE client.terminal # <<>>
    BY <2>1, <2>2, <2>4, <2>6, TerminalRead
  <2>. QED
    BY <2>5, <2>6
<1>. QED
  BY InvInit, InvNext, <1>1, PTL DEF Spec
=============================================================================
