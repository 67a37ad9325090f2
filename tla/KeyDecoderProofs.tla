-------------------------- MODULE KeyDecoderProofs --------------------------
(***************************************************************************)
(* What reaches the search box and the confirm screen, for every set of    *)
(* known keys and any number of presses.                                   *)
(*                                                                         *)
(* The bytes not yet read, at the descriptor or still on the wire, are one *)
(* stream.  Every byte of it belongs to a press, and two neighbours are    *)
(* neighbours of one key or the end of a press and the start of the next.  *)
(* A byte in the middle of a key can only be the next one to read after    *)
(* the decoder gave up on that key, and then it has answered Escape.       *)
(***************************************************************************)
EXTENDS KeyDecoder, SequenceTheorems, TLAPS

stream == input \o wire

Bytes(k, n) == [i \in DOMAIN Sends(k) |-> [of |-> n, sym |-> Sends(k)[i]]]

\* Of the presses p, byte b is: one of the bytes sent, the first of its press, the last.
Sent(p, b) == b.of \in 1 .. Len(p) /\ \E i \in 1 .. Len(Sends(p[b.of])) : b.sym = Sends(p[b.of])[i]
Starts(p, b) == b.sym = Sends(p[b.of])[1]
Ends(p, b) == b.sym = Sends(p[b.of])[Len(Sends(p[b.of]))]

\* Byte b was sent right after byte a.
Within(p, a, b) ==
    /\ b.of = a.of
    /\ \E i \in 1 .. Len(Sends(p[a.of])) - 1 : a.sym = Sends(p[a.of])[i] /\ b.sym = Sends(p[a.of])[i + 1]
NextKey(p, a, b) == b.of = a.of + 1 /\ Ends(p, a) /\ Starts(p, b)
Follows(p, a, b) == Within(p, a, b) \/ NextKey(p, a, b)

\* The stream s goes on where byte a ends.
GoesOn(p, s, a) == IF s = << >> THEN a.of = Len(p) /\ Ends(p, a) ELSE Follows(p, a, s[1])

Flow(p, s) ==
    \A i \in 1 .. Len(s) :
        /\ Sent(p, s[i])
        /\ IF i = Len(s) THEN s[i].of = Len(p) /\ Ends(p, s[i]) ELSE Follows(p, s[i], s[i + 1])

InSequence == {"wait2", "second", "wait3", "third"}

\* The next byte is the first of a press.
AtKey == stream = << >> \/ Starts(pressed, stream[1])

\* Inside a sequence the call holds an Escape, or an Escape and a bracket, and the
\* stream goes on after them.
Holding ==
    /\ pc \in {"first", "second", "third"} => input # << >>
    /\ pc \in {"frame", "wait", "first"} => AtKey \/ screen \in {"OVERVIEW", "PROCESSES"}
    /\ pc \in {"wait", "first"} => read = << >>
    /\ pc \in {"wait2", "second"} => Len(read) = 1 /\ read[1].sym = "ESC"
    /\ pc \in {"wait3", "third"} => Len(read) = 2 /\ read[2].sym = "["
    /\ pc \in InSequence => Sent(pressed, read[Len(read)]) /\ GoesOn(pressed, stream, read[Len(read)])

\* A piece of a longer key is left behind only by an answer of Escape, or on a screen
\* where no piece means anything; and a letter that reaches a box was pressed itself.
Harmless ==
    /\ \/ AtKey
       \/ key = "ESCAPE"
       \/ screen \in {"OVERVIEW", "PROCESSES"} /\ key \notin {"k", "/", "ENTER"}
    /\ key \in Printable /\ screen \in {"SEARCH", "CONFIRM"}
         => read # << >> /\ read[1].sym = key /\ read[1].of \in 1 .. Len(pressed) /\ PressedItself(read[1])

SafeText ==
    /\ \A i \in 1 .. Len(search) : search[i].of \in 1 .. Len(pressed) /\ PressedItself(search[i])
    /\ \A i \in 1 .. Len(search_draft) :
          search_draft[i].of \in 1 .. Len(pressed) /\ PressedItself(search_draft[i])
    /\ sent # 0 => sent \in 1 .. Len(pressed) /\ pressed[sent] = "y"

DInv ==
    /\ TypeOK
    /\ Len(pressed) <= MaxKeys
    /\ key \in {"NONE", "ERROR"} \cup Printable \cup Named
    /\ Flow(pressed, stream)
    /\ Holding
    /\ pc = "act" => Harmless
    /\ SafeText

\* Undisturbed, the keys returned are the first ones pressed, and the next byte starts
\* the press after them, or continues the sequence of that press.
Undisturbed ==
    /\ Len(delivered) <= Len(pressed)
    /\ \A i \in 1 .. Len(delivered) : delivered[i] = pressed[i]
    /\ pc \notin InSequence =>
          IF stream = << >> THEN Len(delivered) = Len(pressed)
          ELSE stream[1].of = Len(delivered) + 1 /\ Starts(pressed, stream[1])
    /\ pc \in InSequence => read[Len(read)].of = Len(delivered) + 1
    /\ pc \in {"wait3", "third"} => Len(Sends(pressed[read[2].of])) > 2

FInv == DInv /\ delivered \in Seq({"NONE", "ERROR"} \cup Printable \cup Named) /\ (~disturbed => Undisturbed)
-----------------------------------------------------------------------------
Known == Printable \cup Named
Syms == Printable \cup {"ESC", "CR", "BACKSPACE"}
Rest == {"[", "A", "B", "3", "~", "O", "Q", "y"}

\* What a terminal sends for a key, once and for all.
LEMMA SendsForms ==
    ASSUME NEW k \in Known
    PROVE  \/ k = "ENTER" /\ Sends(k) = <<"CR">>
           \/ k = "ESCAPE" /\ Sends(k) = <<"ESC">>
           \/ k = "UP" /\ Sends(k) = <<"ESC", "[", "A">>
           \/ k = "DOWN" /\ Sends(k) = <<"ESC", "[", "B">>
           \/ k = "DELETE" /\ Sends(k) = <<"ESC", "[", "3", "~">>
           \/ k = "F2" /\ Sends(k) = <<"ESC", "O", "Q">>
           \/ k = "ALT_Y" /\ Sends(k) = <<"ESC", "y">>
           \/ k \in Printable \cup {"BACKSPACE"} /\ Sends(k) = <<k>>
<1>1. CASE k \in Named \ {"BACKSPACE"}
  BY <1>1 DEF Named, Sends
<1>2. CASE k \in Printable \cup {"BACKSPACE"}
  BY <1>2 DEF Printable, Sends
<1> QED
  BY <1>1, <1>2 DEF Known

\* It is one to four symbols.
LEMMA SendsType ==
    ASSUME NEW k \in Known
    PROVE  /\ Len(Sends(k)) \in 1 .. 4
           /\ DOMAIN Sends(k) = 1 .. Len(Sends(k))
           /\ \A i \in 1 .. Len(Sends(k)) : Sends(k)[i] \in Syms
<1>0. {"CR", "ESC", "[", "A", "B", "3", "~", "O", "Q", "y"} \subseteq Syms
  BY DEF Syms, Printable
<1>1. CASE k \in Printable \cup {"BACKSPACE"} /\ Sends(k) = <<k>>
  BY <1>1 DEF Syms
<1>2. CASE k = "ENTER" /\ Sends(k) = <<"CR">>
  BY <1>2, <1>0
<1>3. CASE k = "ESCAPE" /\ Sends(k) = <<"ESC">>
  BY <1>3, <1>0
<1>4. CASE k = "UP" /\ Sends(k) = <<"ESC", "[", "A">>
  BY <1>4, <1>0
<1>5. CASE k = "DOWN" /\ Sends(k) = <<"ESC", "[", "B">>
  BY <1>5, <1>0
<1>6. CASE k = "DELETE" /\ Sends(k) = <<"ESC", "[", "3", "~">>
  BY <1>6, <1>0
<1>7. CASE k = "F2" /\ Sends(k) = <<"ESC", "O", "Q">>
  BY <1>7, <1>0
<1>8. CASE k = "ALT_Y" /\ Sends(k) = <<"ESC", "y">>
  BY <1>8, <1>0
<1> QED
  BY <1>1, <1>2, <1>3, <1>4, <1>5, <1>6, <1>7, <1>8, SendsForms

\* Only the first symbol can be an Escape, a key that does not start with one is a
\* single symbol, and the others come from a short list.
LEMMA SendsShape ==
    ASSUME NEW k \in Known
    PROVE  /\ Sends(k)[1] # "ESC" => Len(Sends(k)) = 1
           /\ \A i \in 2 .. Len(Sends(k)) : Sends(k)[i] \in Rest
<1>1. CASE k \in Printable \cup {"BACKSPACE"} /\ Sends(k) = <<k>>
  BY <1>1
<1>2. CASE k = "ENTER" /\ Sends(k) = <<"CR">>
  BY <1>2
<1>3. CASE k = "ESCAPE" /\ Sends(k) = <<"ESC">>
  BY <1>3
<1>4. CASE k = "UP" /\ Sends(k) = <<"ESC", "[", "A">>
  BY <1>4 DEF Rest
<1>5. CASE k = "DOWN" /\ Sends(k) = <<"ESC", "[", "B">>
  BY <1>5 DEF Rest
<1>6. CASE k = "DELETE" /\ Sends(k) = <<"ESC", "[", "3", "~">>
  BY <1>6 DEF Rest
<1>7. CASE k = "F2" /\ Sends(k) = <<"ESC", "O", "Q">>
  BY <1>7 DEF Rest
<1>8. CASE k = "ALT_Y" /\ Sends(k) = <<"ESC", "y">>
  BY <1>8 DEF Rest
<1> QED
  BY <1>1, <1>2, <1>3, <1>4, <1>5, <1>6, <1>7, <1>8, SendsForms

\* After a bracket inside a sequence comes the letter of the arrow, or no arrow was
\* pressed; and no arrow ends in a bracket.
LEMMA SendsArrow ==
    ASSUME NEW k \in Known
    PROVE  /\ \A i \in 1 .. Len(Sends(k)) - 1 :
                Sends(k)[i] = "[" => /\ Sends(k)[i + 1] = "A" => k = "UP"
                                     /\ Sends(k)[i + 1] = "B" => k = "DOWN"
           /\ \A i \in 1 .. Len(Sends(k)) - 1 : Sends(k)[i] \notin {"A", "B"}
           /\ Len(Sends(k)) > 2 => Sends(k)[Len(Sends(k))] # "["
<1>1. CASE Len(Sends(k)) = 1
  BY <1>1
<1>4. CASE k = "UP" /\ Sends(k) = <<"ESC", "[", "A">>
  BY <1>4
<1>5. CASE k = "DOWN" /\ Sends(k) = <<"ESC", "[", "B">>
  BY <1>5
<1>6. CASE k = "DELETE" /\ Sends(k) = <<"ESC", "[", "3", "~">>
  BY <1>6
<1>7. CASE k = "F2" /\ Sends(k) = <<"ESC", "O", "Q">>
  BY <1>7
<1>8. CASE k = "ALT_Y" /\ Sends(k) = <<"ESC", "y">>
  BY <1>8
<1> QED
  BY <1>1, <1>4, <1>5, <1>6, <1>7, <1>8, SendsForms

\* A key with a bracket after its Escape has more after the bracket.
LEMMA SendsBracket ==
    ASSUME NEW k \in Known
    PROVE  \A i \in 1 .. Len(Sends(k)) - 1 : Sends(k)[i + 1] = "[" => Len(Sends(k)) > 2
<1>1. Len(Sends(k)) = 2 => Sends(k)[2] = "y"
  BY SendsForms
<1>2. Len(Sends(k)) \in 1 .. 4
  BY SendsType
<1>3. \A n \in 1 .. 4 : \A i \in 1 .. n - 1 : n > 2 \/ (n = 2 /\ i + 1 = 2)
  OBVIOUS
<1> SUFFICES ASSUME NEW i \in 1 .. Len(Sends(k)) - 1, ~(Len(Sends(k)) > 2)
             PROVE  Sends(k)[i + 1] # "["
    OBVIOUS
<1>4. Len(Sends(k)) = 2 /\ i + 1 = 2
  BY <1>2, <1>3
<1> QED
  BY <1>1, <1>4

\* A key of one symbol is known by it.
LEMMA SendsSingle ==
    ASSUME NEW k \in Known, Len(Sends(k)) = 1
    PROVE  /\ Sends(k)[1] = "CR" => k = "ENTER"
           /\ Sends(k)[1] = "ESC" => k = "ESCAPE"
           /\ Sends(k)[1] \notin {"CR", "ESC"} => k = Sends(k)[1]
           /\ Sends(k) = <<Sends(k)[1]>>
<1>1. CASE k \in Printable \cup {"BACKSPACE"} /\ Sends(k) = <<k>>
  BY <1>1 DEF Printable
<1>2. CASE k \notin Printable \cup {"BACKSPACE"}
  BY <1>2, SendsForms
<1> QED
  BY <1>1, <1>2, SendsForms
-----------------------------------------------------------------------------
\* A later press changes nothing about the bytes sent before it.
LEMMA PressKeepsBytes ==
    ASSUME NEW p \in Seq(Known), NEW k, NEW a, Sent(p, a)
    PROVE  /\ Sent(Append(p, k), a)
           /\ Starts(Append(p, k), a) <=> Starts(p, a)
           /\ Ends(Append(p, k), a) <=> Ends(p, a)
           /\ \A b : Within(p, a, b) <=> Within(Append(p, k), a, b)
<1>1. a.of \in 1 .. Len(p) /\ Append(p, k)[a.of] = p[a.of]
  BY DEF Sent
<1> QED
  BY <1>1 DEF Sent, Starts, Ends, Within

\* The bytes of a press are bytes, the first of them first and the last of them last.
LEMMA BytesOfPress ==
    ASSUME NEW p \in Seq(Known), NEW k \in Known, Len(p) < MaxKeys,
           NEW n, n = Len(p) + 1
    PROVE  /\ Bytes(k, n) \in Seq(Byte)
           /\ Len(Bytes(k, n)) = Len(Sends(k)) /\ Len(Sends(k)) > 0
           /\ \A i \in 1 .. Len(Sends(k)) : /\ Bytes(k, n)[i].of = n
                                            /\ Bytes(k, n)[i].sym = Sends(k)[i]
<1>1. Len(Sends(k)) \in 1 .. 4 /\ DOMAIN Sends(k) = 1 .. Len(Sends(k))
  BY SendsType
<1>2. n \in 1 .. MaxKeys
  BY LimitAssumption
<1>3. \A i \in 1 .. Len(Sends(k)) : [of |-> n, sym |-> Sends(k)[i]] \in Byte
  BY <1>2, SendsType DEF Byte, Syms
<1>4. Bytes(k, n) = [i \in 1 .. Len(Sends(k)) |-> [of |-> n, sym |-> Sends(k)[i]]]
  BY <1>1 DEF Bytes
<1>5. Bytes(k, n) \in Seq(Byte) /\ Len(Bytes(k, n)) = Len(Sends(k))
  BY <1>1, <1>3, <1>4
<1> QED
  BY <1>1, <1>4, <1>5

\* Reading the first byte of the stream leaves a stream that goes on after it.
LEMMA FlowTake ==
    ASSUME NEW p, NEW s \in Seq(Byte), s # << >>, Flow(p, s)
    PROVE  Flow(p, Tail(s)) /\ Sent(p, s[1]) /\ GoesOn(p, Tail(s), s[1])
<1> DEFINE u == Tail(s)
<1>1. Len(s) \in Nat \ {0} /\ Len(u) = Len(s) - 1 /\ u \in Seq(Byte)
  BY HeadTailProperties, LenProperties, EmptySeq
<1>2. \A i \in 1 .. Len(u) : u[i] = s[i + 1]
  BY HeadTailProperties
<1> HIDE DEF u
<1>3. Flow(p, u)
  <2> SUFFICES ASSUME NEW i \in 1 .. Len(u)
               PROVE  /\ Sent(p, u[i])
                      /\ IF i = Len(u) THEN u[i].of = Len(p) /\ Ends(p, u[i])
                         ELSE Follows(p, u[i], u[i + 1])
      BY DEF Flow
  <2>1. i + 1 \in 1 .. Len(s) /\ u[i] = s[i + 1]
      BY <1>1, <1>2
  <2>2. ASSUME i # Len(u) PROVE i + 1 # Len(s) /\ u[i + 1] = s[(i + 1) + 1]
    <3>1. i + 1 \in 1 .. Len(u) /\ i + 1 # Len(s)
      BY <1>1, <2>2
    <3> QED
      BY <3>1, <1>2
  <2>3. i = Len(u) => i + 1 = Len(s)
      BY <1>1
  <2> QED
      BY <2>1, <2>2, <2>3 DEF Flow
<1>4. 1 \in 1 .. Len(s)
  BY <1>1
<1>5. u = << >> => Len(s) = 1
  BY <1>1
<1>6. u # << >> => Len(s) # 1 /\ u[1] = s[1 + 1]
  BY <1>1, <1>2
<1> QED
  BY <1>3, <1>4, <1>5, <1>6 DEF Flow, GoesOn, u

\* A press adds its bytes to the end of the stream, in step with what is there.
LEMMA FlowPress ==
    ASSUME NEW p \in Seq(Known), NEW k \in Known, Len(p) < MaxKeys,
           NEW s \in Seq(Byte), Flow(p, s),
           NEW t, t = s \o Bytes(k, Len(p) + 1)
    PROVE  /\ t \in Seq(Byte) /\ t # << >> /\ Flow(Append(p, k), t)
           /\ IF s = << >> THEN t[1].of = Len(p) + 1 /\ Starts(Append(p, k), t[1])
              ELSE t[1] = s[1] /\ Sent(p, s[1])
<1> DEFINE q == Append(p, k)
           n == Len(p) + 1
           w == Bytes(k, n)
<1>1. w \in Seq(Byte) /\ Len(w) = Len(Sends(k)) /\ Len(w) \in Nat \ {0}
  BY BytesOfPress, SendsType
<1>2. \A i \in 1 .. Len(w) : w[i].of = n /\ w[i].sym = Sends(k)[i]
  BY <1>1, BytesOfPress
<1>3. Len(q) = n /\ n \in Nat \ {0} /\ q[n] = k
  OBVIOUS
<1> HIDE DEF w, n, q
<1>4. \A i \in 1 .. Len(w) :
          /\ Sent(q, w[i])
          /\ i = 1 => Starts(q, w[i])
          /\ i = Len(w) => Ends(q, w[i])
          /\ i # Len(w) => Within(q, w[i], w[i + 1])
  <2> SUFFICES ASSUME NEW i \in 1 .. Len(w)
               PROVE  /\ Sent(q, w[i])
                      /\ i = 1 => Starts(q, w[i])
                      /\ i = Len(w) => Ends(q, w[i])
                      /\ i # Len(w) => Within(q, w[i], w[i + 1])
      OBVIOUS
  <2>1. w[i].of = n /\ w[i].sym = Sends(k)[i] /\ q[w[i].of] = k
      BY <1>2, <1>3
  <2>2. Sent(q, w[i])
      BY <2>1, <1>1, <1>3 DEF Sent
  <2>3. (i = 1 => Starts(q, w[i])) /\ (i = Len(w) => Ends(q, w[i]))
      BY <2>1, <1>1 DEF Starts, Ends
  <2>4. ASSUME i # Len(w) PROVE Within(q, w[i], w[i + 1])
    <3>1. i \in 1 .. Len(Sends(k)) - 1 /\ i + 1 \in 1 .. Len(w)
      BY <2>4, <1>1
    <3>2. w[i + 1].of = n /\ w[i + 1].sym = Sends(k)[i + 1]
      BY <3>1, <1>2
    <3> QED
      BY <3>1, <3>2, <2>1 DEF Within
  <2> QED
      BY <2>2, <2>3, <2>4
<1>5. /\ t \in Seq(Byte) /\ Len(t) = Len(s) + Len(w) /\ Len(s) \in Nat
      /\ \A i \in 1 .. Len(s) : t[i] = s[i]
      /\ \A i \in 1 .. Len(w) : t[Len(s) + i] = w[i]
  <2>1. t = s \o w
      BY DEF w, n
  <2>2. Len(s) \in Nat
      OBVIOUS
  <2>3. /\ s \o w \in Seq(Byte)
        /\ Len(s \o w) = Len(s) + Len(w)
        /\ \A i \in 1 .. Len(s) + Len(w) : (s \o w)[i] = IF i <= Len(s) THEN s[i] ELSE w[i - Len(s)]
      BY <1>1, ConcatProperties
  <2>4. \A i \in 1 .. Len(s) : t[i] = s[i]
      BY <2>1, <2>2, <2>3, <1>1
  <2>5. ASSUME NEW i \in 1 .. Len(w) PROVE t[Len(s) + i] = w[i]
    <3>1. Len(s) + i \in 1 .. Len(s) + Len(w) /\ ~(Len(s) + i <= Len(s)) /\ (Len(s) + i) - Len(s) = i
      BY <2>2, <1>1
    <3> QED
      BY <3>1, <2>1, <2>3
  <2> QED
      BY <2>1, <2>2, <2>3, <2>4, <2>5
<1>6. \A a : Sent(p, a) => /\ Sent(q, a)
                           /\ Ends(q, a) <=> Ends(p, a)
                           /\ \A b : Within(p, a, b) <=> Within(q, a, b)
  BY PressKeepsBytes DEF q
<1>7. ASSUME NEW i \in 1 .. Len(s), i # Len(s)
      PROVE  Follows(q, s[i], s[i + 1])
  <2>1. Follows(p, s[i], s[i + 1]) /\ Sent(p, s[i]) /\ i + 1 \in 1 .. Len(s) /\ Sent(p, s[i + 1])
      BY <1>7, <1>5 DEF Flow
  <2>2. Starts(q, s[i + 1]) <=> Starts(p, s[i + 1])
      BY <2>1, PressKeepsBytes DEF q
  <2> QED
      BY <2>1, <2>2, <1>6 DEF Follows, NextKey
<1>8. Flow(q, t)
  <2> SUFFICES ASSUME NEW i \in 1 .. Len(t)
               PROVE  /\ Sent(q, t[i])
                      /\ IF i = Len(t) THEN t[i].of = Len(q) /\ Ends(q, t[i])
                         ELSE Follows(q, t[i], t[i + 1])
      BY DEF Flow
  <2>1. CASE i \in 1 .. Len(s) /\ i # Len(s)
    <3>1. t[i] = s[i] /\ t[i + 1] = s[i + 1] /\ i # Len(t)
      BY <2>1, <1>5, <1>1
    <3>2. Sent(q, s[i])
      BY <2>1, <1>6 DEF Flow
    <3> QED
      BY <3>1, <3>2, <1>7, <2>1
  <2>2. CASE i \in 1 .. Len(s) /\ i = Len(s)
    <3>1. t[i] = s[i] /\ i # Len(t) /\ t[i + 1] = w[1] /\ 1 \in 1 .. Len(w)
      BY <2>2, <1>5, <1>1
    <3>2. Sent(p, s[i]) /\ s[i].of = Len(p) /\ Ends(p, s[i])
      BY <2>2 DEF Flow
    <3>3. w[1].of = s[i].of + 1
      BY <3>1, <3>2, <1>2 DEF n
    <3>4. NextKey(q, s[i], w[1])
      BY <3>1, <3>2, <3>3, <1>4, <1>6 DEF NextKey
    <3> QED
      BY <3>1, <3>2, <3>4, <1>6 DEF Follows
  <2>3. CASE i \notin 1 .. Len(s)
    <3>1. PICK j \in 1 .. Len(w) : i = Len(s) + j
      <4>1. i - Len(s) \in 1 .. Len(w)
        BY <2>3, <1>5, <1>1
      <4> QED
        BY <4>1, <1>5
    <3>2. t[i] = w[j]
      BY <3>1, <1>5
    <3>3. i = Len(t) => j = Len(w)
      BY <3>1, <1>5, <1>1
    <3>4. ASSUME i # Len(t) PROVE j # Len(w) /\ t[i + 1] = w[j + 1]
      <4>1. j # Len(w) /\ j + 1 \in 1 .. Len(w) /\ i + 1 = Len(s) + (j + 1)
        BY <3>1, <3>4, <1>5, <1>1
      <4> QED
        BY <4>1, <1>5
    <3> QED
      BY <3>2, <3>3, <3>4, <1>2, <1>3, <1>4 DEF Follows
  <2> QED
      BY <2>1, <2>2, <2>3
<1>9. s = << >> => t[1] = w[1] /\ w[1].of = n /\ Starts(q, w[1])
  <2>1. 1 \in 1 .. Len(w)
      BY <1>1
  <2> QED
      BY <2>1, <1>2, <1>4, <1>5
<1>10. s # << >> => t[1] = s[1] /\ Sent(p, s[1])
  <2>1. s # << >> => 1 \in 1 .. Len(s)
      BY <1>5
  <2> QED
      BY <2>1, <1>5 DEF Flow
<1>11. t # << >>
  BY <1>5, <1>1
<1> QED
  BY <1>5, <1>8, <1>9, <1>10, <1>11 DEF n, q
-----------------------------------------------------------------------------
\* A byte that starts a press without an Escape is the whole press, and the next byte
\* starts the next press.
LEMMA SingleByte ==
    ASSUME NEW p \in Seq(Known), NEW h, Sent(p, h), Starts(p, h), h.sym # "ESC"
    PROVE  /\ Sends(p[h.of]) = <<h.sym>>
           /\ p[h.of] = IF h.sym = "CR" THEN "ENTER" ELSE h.sym
           /\ \A s : GoesOn(p, s, h) => IF s = << >> THEN h.of = Len(p)
                                        ELSE s[1].of = h.of + 1 /\ Starts(p, s[1])
<1>1. h.of \in 1 .. Len(p) /\ p[h.of] \in Known
  BY DEF Sent
<1>2. Sends(p[h.of])[1] = h.sym /\ Len(Sends(p[h.of])) = 1
  BY <1>1, SendsShape DEF Starts
<1>3. Sends(p[h.of]) = <<h.sym>>
  BY <1>1, <1>2, SendsSingle
<1>4. p[h.of] = IF h.sym = "CR" THEN "ENTER" ELSE h.sym
  BY <1>1, <1>2, SendsSingle
<1>5. \A b : ~Within(p, h, b)
  BY <1>2 DEF Within
<1> QED
  BY <1>3, <1>4, <1>5 DEF GoesOn, Follows, NextKey

\* A byte that starts no press is one of a few.
LEMMA MiddleByte ==
    ASSUME NEW p \in Seq(Known), NEW h, Sent(p, h), ~Starts(p, h)
    PROVE  h.sym \in Rest
<1>1. h.of \in 1 .. Len(p) /\ p[h.of] \in Known
  BY DEF Sent
<1>2. PICK i \in 1 .. Len(Sends(p[h.of])) : h.sym = Sends(p[h.of])[i]
  BY DEF Sent
<1>3. i # 1 /\ Len(Sends(p[h.of])) \in 1 .. 4
  BY <1>1, <1>2, SendsType DEF Starts
<1>4. i \in 2 .. Len(Sends(p[h.of]))
  BY <1>2, <1>3
<1> QED
  BY <1>1, <1>2, <1>4, SendsShape

\* The letter of an arrow ends its press.
LEMMA ArrowEnds ==
    ASSUME NEW p \in Seq(Known), NEW h, Sent(p, h), h.sym \in {"A", "B"}, NEW s, GoesOn(p, s, h)
    PROVE  IF s = << >> THEN h.of = Len(p) ELSE s[1].of = h.of + 1 /\ Starts(p, s[1])
<1>1. p[h.of] \in Known
  BY DEF Sent
<1>2. \A b : ~Within(p, h, b)
  BY <1>1, SendsArrow DEF Within
<1> QED
  BY <1>2 DEF GoesOn, Follows, NextKey

\* What is pressed is known, and the stream is made of bytes.
LEMMA StreamType ==
    ASSUME TypeOK
    PROVE  pressed \in Seq(Known) /\ stream \in Seq(Byte) /\ Len(pressed) \in Nat
<1>1. Keys \subseteq Known
  BY KeysAssumption DEF Known
<1>2. pressed \in Seq(Known)
  BY <1>1, SeqMonotonic DEF TypeOK
<1>3. stream \in Seq(Byte)
  BY ConcatProperties DEF TypeOK, stream
<1> QED
  BY <1>2, <1>3

\* Reading a byte.
LEMMA TakeStream ==
    ASSUME DInv, input # << >>, Take, UNCHANGED typing
    PROVE  /\ Head(input) = stream[1] /\ stream # << >> /\ Head(input) \in Byte
           /\ input' \in Seq(Byte) /\ stream' \in Seq(Byte)
           /\ read' \in Seq(Byte) /\ Len(read') = Len(read) + 1
           /\ read'[Len(read')] = Head(input)
           /\ \A i \in 1 .. Len(read) : read'[i] = read[i]
           /\ Sent(pressed, Head(input))
           /\ Flow(pressed', stream')
           /\ GoesOn(pressed', stream', Head(input))
<1>1. input \in Seq(Byte) /\ wire \in Seq(Byte) /\ read \in Seq(Byte)
  BY DEF DInv, TypeOK
<1>2. stream = input \o wire /\ stream' = Tail(input) \o wire
  BY DEF stream, Take, typing
<1>3. stream' = Tail(stream) /\ Head(input) = stream[1] /\ stream # << >>
  <2>1. Head(input) = input[1] /\ Len(input) \in Nat \ {0} /\ Len(wire) \in Nat
    BY <1>1, EmptySeq
  <2>2. Tail(input) \in Seq(Byte) /\ Len(Tail(input)) = Len(input) - 1
        /\ \A i \in 1 .. Len(Tail(input)) : Tail(input)[i] = input[i + 1]
    BY <1>1, HeadTailProperties
  <2>3. /\ stream \in Seq(Byte) /\ Len(stream) = Len(input) + Len(wire)
        /\ \A i \in 1 .. Len(input) + Len(wire) :
              stream[i] = IF i <= Len(input) THEN input[i] ELSE wire[i - Len(input)]
    BY <1>1, <1>2, ConcatProperties
  <2>4. stream # << >> /\ stream[1] = input[1]
    BY <2>1, <2>3
  <2> DEFINE u == Tail(input)
             v == Tail(stream)
             z == u \o wire
  <2>5. /\ z \in Seq(Byte) /\ Len(z) = Len(u) + Len(wire)
        /\ \A i \in 1 .. Len(u) + Len(wire) : z[i] = IF i <= Len(u) THEN u[i] ELSE wire[i - Len(u)]
    BY <1>1, <2>2, ConcatProperties
  <2>6. v \in Seq(Byte) /\ Len(v) = Len(stream) - 1 /\ \A i \in 1 .. Len(v) : v[i] = stream[i + 1]
    BY <2>3, <2>4, HeadTailProperties
  <2>7. Len(u) = Len(input) - 1 /\ \A i \in 1 .. Len(u) : u[i] = input[i + 1]
    BY <2>2
  <2>8. stream' = z
    BY <1>2
  <2> HIDE DEF u, v, z
  <2>9. Len(z) = Len(v)
    BY <2>1, <2>3, <2>5, <2>6, <2>7
  <2>10. ASSUME NEW i \in 1 .. Len(z) PROVE z[i] = v[i]
    <3>1. i \in 1 .. Len(u) + Len(wire) /\ i + 1 \in 1 .. Len(input) + Len(wire) /\ i \in 1 .. Len(v)
      BY <2>1, <2>5, <2>7, <2>9
    <3>2. CASE i <= Len(u)
      <4>1. i \in 1 .. Len(u) /\ i + 1 <= Len(input)
        BY <3>1, <3>2, <2>1, <2>7
      <4> QED
        BY <4>1, <3>1, <3>2, <2>3, <2>5, <2>6, <2>7
    <3>3. CASE ~(i <= Len(u))
      <4>1. ~(i + 1 <= Len(input)) /\ i - Len(u) = (i + 1) - Len(input)
        BY <3>1, <3>3, <2>1, <2>7
      <4>2. z[i] = wire[i - Len(u)]
        BY <3>1, <3>3, <2>5
      <4>3. v[i] = stream[i + 1]
        BY <3>1, <2>6
      <4>4. stream[i + 1] = wire[(i + 1) - Len(input)]
        BY <3>1, <4>1, <2>3
      <4> QED
        BY <4>1, <4>2, <4>3, <4>4
    <3> QED
      BY <3>2, <3>3
  <2>11. z = v
    BY <2>5, <2>6, <2>9, <2>10, SeqEqual
  <2> QED
    BY <2>1, <2>4, <2>8, <2>11 DEF v
<1>4. stream \in Seq(Byte) /\ Tail(stream) \in Seq(Byte) /\ input' \in Seq(Byte) /\ Head(input) \in Byte
  BY <1>1, <1>2, <1>3, ConcatProperties, HeadTailProperties DEF Take
<1>5. Flow(pressed, stream) /\ pressed' = pressed
  BY DEF DInv, typing
<1>6. Flow(pressed, Tail(stream)) /\ Sent(pressed, stream[1]) /\ GoesOn(pressed, Tail(stream), stream[1])
  BY <1>3, <1>4, <1>5, FlowTake
<1>7. /\ read' \in Seq(Byte) /\ Len(read') = Len(read) + 1
      /\ read'[Len(read')] = Head(input)
      /\ \A i \in 1 .. Len(read) : read'[i] = read[i]
  BY <1>1, <1>4 DEF Take
<1> QED
  BY <1>3, <1>4, <1>5, <1>6, <1>7
-----------------------------------------------------------------------------
\* What the program has not read does not depend on where it is: a step that neither
\* reads nor presses leaves the stream and what is known of it.
LEMMA SameStream ==
    ASSUME DInv, UNCHANGED <<pressed, input, wire>>
    PROVE  /\ stream' = stream /\ pressed' = pressed /\ (AtKey <=> AtKey')
           /\ Len(pressed') <= MaxKeys /\ Flow(pressed', stream')
           /\ pressed' \in Seq(Keys) /\ wire' \in Seq(Byte) /\ input' \in Seq(Byte)
BY DEF DInv, TypeOK, stream, AtKey

\* The bytes of a press go to the end of the stream.
LEMMA PressStream ==
    ASSUME DInv, NEW k \in Keys, Press(k)
    PROVE  /\ pressed \in Seq(Known) /\ stream \in Seq(Byte) /\ Len(pressed) \in Nat
           /\ pressed' = Append(pressed, k) /\ Len(pressed') = Len(pressed) + 1 /\ Len(pressed) < MaxKeys
           /\ input' = input /\ wire' \in Seq(Byte)
           /\ stream' \in Seq(Byte) /\ stream' # << >> /\ Flow(pressed', stream')
           /\ IF stream = << >> THEN stream'[1].of = Len(pressed) + 1 /\ Starts(pressed', stream'[1])
              ELSE stream'[1] = stream[1] /\ Sent(pressed, stream[1])
<1>1. pressed \in Seq(Known) /\ stream \in Seq(Byte) /\ Len(pressed) \in Nat /\ k \in Known
  BY StreamType, KeysAssumption DEF DInv, Known
<1>2. pressed' = Append(pressed, k) /\ Len(pressed') = Len(pressed) + 1 /\ Len(pressed) < MaxKeys
  BY <1>1 DEF Press
<1> DEFINE w == Bytes(k, Len(pressed) + 1)
<1>3. wire' = wire \o w /\ input' = input
  BY <1>2 DEF Press, Bytes, decoder
<1>4. w \in Seq(Byte)
  BY <1>1, <1>2, BytesOfPress
<1>5. input \in Seq(Byte) /\ wire \in Seq(Byte) /\ Flow(pressed, stream)
  BY DEF DInv, TypeOK
<1>6. stream' = stream \o w
  BY <1>3, <1>4, <1>5, ConcatAssociative DEF stream
<1>7. /\ stream' \in Seq(Byte) /\ stream' # << >> /\ Flow(pressed', stream')
      /\ IF stream = << >> THEN stream'[1].of = Len(pressed) + 1 /\ Starts(pressed', stream'[1])
         ELSE stream'[1] = stream[1] /\ Sent(pressed, stream[1])
  <2> HIDE DEF w
  <2>1. \A t : t = stream \o Bytes(k, Len(pressed) + 1) =>
          /\ t \in Seq(Byte) /\ t # << >> /\ Flow(Append(pressed, k), t)
          /\ IF stream = << >> THEN t[1].of = Len(pressed) + 1 /\ Starts(Append(pressed, k), t[1])
             ELSE t[1] = stream[1] /\ Sent(pressed, stream[1])
    BY <1>1, <1>2, <1>5, FlowPress
  <2>2. stream' = stream \o Bytes(k, Len(pressed) + 1)
    BY <1>6 DEF w
  <2> QED
    BY <2>1, <2>2, <1>2
<1>8. wire' \in Seq(Byte)
  BY <1>3, <1>4, <1>5, ConcatProperties
<1> QED
  BY <1>1, <1>2, <1>3, <1>7, <1>8

\* A press leaves every press before it, and what is known of their bytes.
LEMMA PressKeepsDInv ==
    ASSUME DInv, NEW k \in Keys, Press(k)
    PROVE  DInv'
<1>1. pressed \in Seq(Known) /\ stream \in Seq(Byte) /\ Len(pressed) \in Nat
  BY PressStream
<1>2. pressed' = Append(pressed, k) /\ Len(pressed') = Len(pressed) + 1 /\ Len(pressed) < MaxKeys
  BY PressStream
<1>3. input' = input /\ wire' \in Seq(Byte)
  BY PressStream
<1>7. /\ stream' \in Seq(Byte) /\ stream' # << >> /\ Flow(pressed', stream')
      /\ IF stream = << >> THEN stream'[1].of = Len(pressed) + 1 /\ Starts(pressed', stream'[1])
         ELSE stream'[1] = stream[1] /\ Sent(pressed, stream[1])
  BY PressStream
<1>8. TypeOK'
  <2>1. pressed' \in Seq(Keys)
    BY <1>2 DEF DInv, TypeOK
  <2> QED
    BY <2>1, <1>3 DEF DInv, TypeOK, Press, decoder, boxes
<1>9. Len(pressed') <= MaxKeys
  BY <1>1, <1>2, LimitAssumption
<1>10. AtKey => AtKey'
  <2>1. CASE stream = << >>
    BY <2>1, <1>7 DEF AtKey
  <2>2. CASE stream # << >>
    BY <2>2, <1>1, <1>2, <1>7, PressKeepsBytes DEF AtKey
  <2> QED
    BY <2>1, <2>2
<1>11. \A a : Sent(pressed, a) /\ GoesOn(pressed, stream, a)
              => Sent(pressed', a) /\ GoesOn(pressed', stream', a)
  <2> SUFFICES ASSUME NEW a, Sent(pressed, a), GoesOn(pressed, stream, a)
               PROVE  Sent(pressed', a) /\ GoesOn(pressed', stream', a)
      OBVIOUS
  <2>1. /\ Sent(pressed', a) /\ (Ends(pressed', a) <=> Ends(pressed, a))
        /\ \A b : Within(pressed, a, b) <=> Within(pressed', a, b)
    BY <1>1, <1>2, PressKeepsBytes
  <2>2. CASE stream = << >>
    BY <2>1, <2>2, <1>7 DEF GoesOn, Follows, NextKey
  <2>3. CASE stream # << >>
    <3>1. Starts(pressed', stream[1]) <=> Starts(pressed, stream[1])
      BY <2>3, <1>1, <1>2, <1>7, PressKeepsBytes
    <3> QED
      BY <3>1, <2>1, <2>3, <1>7 DEF GoesOn, Follows, NextKey
  <2> QED
    BY <2>1, <2>2, <2>3
<1>12. Holding'
  BY <1>3, <1>10, <1>11 DEF Press, decoder, DInv, Holding
<1>13. \A n : n \in 1 .. Len(pressed) => n \in 1 .. Len(pressed') /\ pressed'[n] = pressed[n]
  BY <1>1, <1>2
<1>14. pc' = "act" => Harmless'
  BY <1>10, <1>13 DEF Press, decoder, DInv, Harmless, PressedItself
<1>15. SafeText'
  BY <1>13 DEF Press, boxes, DInv, SafeText, PressedItself
<1> QED
  BY <1>7, <1>8, <1>9, <1>12, <1>14, <1>15 DEF Press, decoder, DInv

\* A byte that arrives stays where it was in the stream.
LEMMA ArriveStream ==
    ASSUME DInv, Arrive
    PROVE  /\ stream' = stream
           /\ wire' \in Seq(Byte) /\ input' \in Seq(Byte) /\ input' # << >>
<1>1. input \in Seq(Byte) /\ wire \in Seq(Byte) /\ wire # << >>
  BY DEF DInv, TypeOK, Arrive
<1>2. Head(wire) \in Byte /\ Tail(wire) \in Seq(Byte) /\ <<Head(wire)>> \in Seq(Byte)
  BY <1>1, HeadTailProperties
<1>3. input' = input \o <<Head(wire)>> /\ input' \in Seq(Byte) /\ input' # << >>
  BY <1>1, <1>2 DEF Arrive
<1>4. wire = <<Head(wire)>> \o Tail(wire)
  <2>1. /\ <<Head(wire)>> \o Tail(wire) \in Seq(Byte)
        /\ Len(<<Head(wire)>> \o Tail(wire)) = 1 + Len(Tail(wire))
        /\ \A i \in 1 .. 1 + Len(Tail(wire)) : (<<Head(wire)>> \o Tail(wire))[i] =
                IF i <= 1 THEN Head(wire) ELSE Tail(wire)[i - 1]
    <3>1. Len(<<Head(wire)>>) = 1 /\ <<Head(wire)>>[1] = Head(wire)
      OBVIOUS
    <3>2. \A i \in 1 .. 1 + Len(Tail(wire)) : i <= 1 => i = 1
      BY <1>2
    <3> QED
      BY <3>1, <3>2, <1>2, ConcatProperties
  <2>2. Len(Tail(wire)) = Len(wire) - 1 /\ \A i \in 1 .. Len(Tail(wire)) : Tail(wire)[i] = wire[i + 1]
    BY <1>1, HeadTailProperties
  <2>3. Len(wire) \in Nat \ {0} /\ Head(wire) = wire[1]
    BY <1>1
  <2> DEFINE u == Tail(wire)
             z == <<Head(wire)>> \o Tail(wire)
  <2>4. /\ z \in Seq(Byte) /\ Len(z) = 1 + Len(u)
        /\ \A i \in 1 .. 1 + Len(u) : z[i] = IF i <= 1 THEN wire[1] ELSE u[i - 1]
    BY <2>1, <2>3
  <2>5. Len(u) = Len(wire) - 1 /\ \A i \in 1 .. Len(u) : u[i] = wire[i + 1]
    BY <2>2
  <2> HIDE DEF u, z
  <2>6. ASSUME NEW i \in 1 .. Len(z) PROVE z[i] = wire[i]
    <3>1. CASE i = 1
      BY <3>1, <2>3, <2>4, <2>5
    <3>2. CASE i # 1
      <4>1. i - 1 \in 1 .. Len(u) /\ ~(i <= 1) /\ (i - 1) + 1 = i
        BY <3>2, <2>3, <2>4, <2>5
      <4> QED
        BY <4>1, <2>4, <2>5
    <3> QED
      BY <3>1, <3>2
  <2>7. z = wire
    BY <1>1, <2>3, <2>4, <2>5, <2>6, SeqEqual
  <2> QED
    BY <2>7 DEF z
<1>5. stream' = stream
  <2>1. (input \o <<Head(wire)>>) \o Tail(wire) = input \o (<<Head(wire)>> \o Tail(wire))
    BY <1>1, <1>2, ConcatAssociative
  <2> QED
    BY <2>1, <1>3, <1>4 DEF Arrive, stream
<1> QED
  BY <1>2, <1>3, <1>5 DEF Arrive

LEMMA ArriveKeepsDInv ==
    ASSUME DInv, Arrive
    PROVE  DInv'
<1>1. stream' = stream /\ wire' \in Seq(Byte) /\ input' \in Seq(Byte) /\ input' # << >>
  BY ArriveStream
<1>2. TypeOK'
  BY <1>1 DEF DInv, TypeOK, Arrive, boxes
<1> QED
  BY <1>1, <1>2 DEF DInv, Holding, Harmless, SafeText, PressedItself, AtKey, Arrive, boxes
-----------------------------------------------------------------------------
\* A step of the decoder touches neither the boxes nor what was pressed.
LEMMA ElsewhereKeeps ==
    ASSUME DInv, Elsewhere
    PROVE  /\ SafeText'
           /\ UNCHANGED <<pressed, wire, screen, search, search_draft, sent>>
           /\ pressed' \in Seq(Keys) /\ wire' \in Seq(Byte) /\ Len(pressed') <= MaxKeys
           /\ screen' \in Screens /\ search' \in Seq(Byte) /\ search_draft' \in Seq(Byte)
           /\ Len(search') < Limit /\ Len(search_draft') < Limit /\ sent' \in 0 .. MaxKeys
BY DEF Elsewhere, typing, boxes, DInv, TypeOK, SafeText, PressedItself

\* The first byte of a call: an Escape opens a sequence, anything else is a key.
LEMMA ReadFirstKeepsDInv ==
    ASSUME DInv, ReadFirst
    PROVE  DInv'
<1> DEFINE h == Head(input)
<1>1. /\ pc = "first" /\ Take /\ Elsewhere /\ UNCHANGED typing
      /\ input # << >> /\ read = << >>
  BY DEF ReadFirst, Elsewhere, DInv, Holding
<1>2. /\ h = stream[1] /\ stream # << >> /\ h \in Byte
      /\ input' \in Seq(Byte) /\ read' \in Seq(Byte) /\ Len(read') = 1 /\ read'[1] = h
      /\ Sent(pressed, h) /\ Flow(pressed', stream') /\ GoesOn(pressed', stream', h)
  <2>1. Len(read) = 0
    BY <1>1
  <2>2. Len(read') = Len(read) + 1 /\ read'[Len(read')] = Head(input)
    BY <1>1, TakeStream
  <2>3. Len(read') = 1 /\ read'[1] = h
    BY <2>1, <2>2
  <2> QED
    BY <1>1, <2>3, TakeStream
<1>3. pressed' = pressed /\ screen' = screen /\ pressed \in Seq(Known)
  BY <1>1, StreamType DEF Elsewhere, typing, DInv
<1> HIDE DEF h
<1>4. CASE h.sym = "ESC"
  <2>1. pc' = "wait2" /\ key' = key
    BY <1>4 DEF ReadFirst, Goto, h
  <2>2. TypeOK'
    BY <1>1, <1>2, <2>1, ElsewhereKeeps DEF TypeOK
  <2>3. Holding'
    BY <1>2, <1>3, <1>4, <2>1 DEF Holding, InSequence
  <2> QED
    BY <1>1, <1>2, <2>1, <2>2, <2>3, ElsewhereKeeps DEF DInv
<1>5. CASE h.sym # "ESC"
  <2>1. pc' = "act" /\ key' = IF h.sym = "CR" THEN "ENTER" ELSE h.sym
    BY <1>5 DEF ReadFirst, Return, h
  <2>2. key' \in Known
    BY <1>2, <1>5, <2>1 DEF Byte, Known, Named
  <2>3. TypeOK'
    BY <1>1, <1>2, <2>1, ElsewhereKeeps DEF TypeOK
  <2>4. Holding'
    BY <2>1 DEF Holding, InSequence
  <2>5. Harmless'
    <3>1. CASE Starts(pressed, h)
      <4>1. Sends(pressed[h.of]) = <<h.sym>> /\ AtKey'
        BY <1>2, <1>3, <1>5, <3>1, SingleByte DEF AtKey
      <4>2. key' \in Printable => h.sym = key'
        BY <2>1 DEF Printable
      <4>3. h.of \in 1 .. Len(pressed') /\ Sends(pressed'[h.of]) = <<h.sym>>
        BY <1>2, <1>3, <4>1 DEF Sent
      <4>4. read' # << >>
        <5>1. Len(read') = 1
          BY <1>2
        <5>2. Len(<< >>) = 0
          OBVIOUS
        <5> QED
          BY <5>1, <5>2
      <4> QED
        BY <4>1, <4>2, <4>3, <4>4, <1>2, <1>3 DEF Harmless, PressedItself
    <3>2. CASE ~Starts(pressed, h)
      <4>1. screen \in {"OVERVIEW", "PROCESSES"}
        BY <1>1, <1>2, <3>2 DEF DInv, Holding, AtKey
      <4>2. h.sym \in Rest
        BY <1>2, <1>3, <3>2, MiddleByte
      <4>3. key' \notin {"k", "/", "ENTER"}
        BY <2>1, <4>2 DEF Rest
      <4> QED
        BY <1>3, <4>1, <4>3 DEF Harmless
    <3> QED
      BY <3>1, <3>2
  <2> QED
    BY <1>1, <1>2, <2>1, <2>2, <2>3, <2>4, <2>5, ElsewhereKeeps DEF DInv, Known
<1> QED
  BY <1>4, <1>5

\* Giving up on a sequence answers Escape, wherever the stream is.
LEMMA EscapeKeepsDInv ==
    ASSUME DInv, Elsewhere, NotAnArrow, pressed' \in Seq(Known),
           input' \in Seq(Byte), read' \in Seq(Byte), Len(read') <= 3, Flow(pressed', stream')
    PROVE  DInv'
<1>1. pc' = "act" /\ key' = "ESCAPE"
  BY DEF NotAnArrow, Return
<1>2. TypeOK'
  BY <1>1, ElsewhereKeeps DEF TypeOK
<1>3. Holding' /\ Harmless'
  BY <1>1 DEF Holding, Harmless, InSequence, Printable
<1> QED
  BY <1>1, <1>2, <1>3, ElsewhereKeeps DEF DInv, Named

\* The second byte: a bracket goes on, anything else was no arrow.
LEMMA ReadSecondKeepsDInv ==
    ASSUME DInv, ReadSecond
    PROVE  DInv'
<1> DEFINE h == Head(input)
<1>1. /\ pc = "second" /\ Take /\ Elsewhere /\ UNCHANGED typing
      /\ input # << >> /\ Len(read) = 1
  BY DEF ReadSecond, Elsewhere, DInv, Holding
<1>2. /\ input' \in Seq(Byte) /\ read' \in Seq(Byte) /\ Len(read') = 2 /\ read'[2] = h
      /\ Sent(pressed, h) /\ Flow(pressed', stream') /\ GoesOn(pressed', stream', h)
  <2>1. Len(read') = Len(read) + 1 /\ read'[Len(read')] = Head(input)
    BY <1>1, TakeStream
  <2>2. Len(read') = 2 /\ read'[2] = h
    BY <1>1, <2>1
  <2> QED
    BY <1>1, <2>2, TakeStream
<1>3. pressed' = pressed /\ pressed' \in Seq(Known)
  BY <1>1, StreamType DEF Elsewhere, typing, DInv
<1>4. CASE h.sym = "["
  <2>1. pc' = "wait3" /\ key' = key
    BY <1>4 DEF ReadSecond, Goto
  <2>2. TypeOK'
    BY <1>1, <1>2, <2>1, ElsewhereKeeps DEF TypeOK
  <2>3. Holding'
    BY <1>2, <1>3, <1>4, <2>1 DEF Holding, InSequence
  <2> QED
    BY <1>1, <1>2, <2>1, <2>2, <2>3, ElsewhereKeeps DEF DInv
<1>5. CASE h.sym # "["
  <2>1. NotAnArrow
    BY <1>5 DEF ReadSecond
  <2> QED
    BY <1>1, <1>2, <1>3, <2>1, EscapeKeepsDInv
<1> QED
  BY <1>4, <1>5

\* The third byte: the letter of an arrow, which ends its press, or no arrow.
LEMMA ReadThirdKeepsDInv ==
    ASSUME DInv, ReadThird
    PROVE  DInv'
<1> DEFINE h == Head(input)
<1>1. /\ pc = "third" /\ Take /\ Elsewhere /\ UNCHANGED typing
      /\ input # << >> /\ Len(read) = 2
  BY DEF ReadThird, Elsewhere, DInv, Holding
<1>2. /\ input' \in Seq(Byte) /\ read' \in Seq(Byte) /\ Len(read') = 3 /\ read'[3] = h
      /\ Sent(pressed, h) /\ Flow(pressed', stream') /\ GoesOn(pressed', stream', h)
  <2>1. Len(read') = Len(read) + 1 /\ read'[Len(read')] = Head(input)
    BY <1>1, TakeStream
  <2>2. Len(read') = 3 /\ read'[3] = h
    BY <1>1, <2>1
  <2> QED
    BY <1>1, <2>2, TakeStream
<1>3. pressed' = pressed /\ pressed' \in Seq(Known)
  BY <1>1, StreamType DEF Elsewhere, typing, DInv
<1>4. CASE h.sym \in {"A", "B"}
  <2>1. pc' = "act" /\ key' \in {"UP", "DOWN"}
    BY <1>4 DEF ReadThird, Arrow, Return
  <2>2. TypeOK'
    BY <1>1, <1>2, <2>1, ElsewhereKeeps DEF TypeOK
  <2>3. Holding'
    BY <2>1 DEF Holding, InSequence
  <2>4. AtKey'
    BY <1>2, <1>3, <1>4, ArrowEnds DEF AtKey
  <2>5. Harmless'
    BY <2>1, <2>4 DEF Harmless, Printable
  <2> QED
    BY <1>1, <1>2, <2>1, <2>2, <2>3, <2>5, ElsewhereKeeps DEF DInv, Named
<1>5. CASE h.sym \notin {"A", "B"}
  <2>1. NotAnArrow
    BY <1>5 DEF ReadThird, Arrow
  <2> QED
    BY <1>1, <1>2, <1>3, <2>1, EscapeKeepsDInv
<1> QED
  BY <1>4, <1>5

\* Waiting and failing read nothing: the call goes on, answers no key, or gives up.
LEMMA WaitKeepsDInv ==
    ASSUME DInv, WaitKey \/ WaitRest \/ ReadFails
    PROVE  DInv'
<1>1. Elsewhere /\ UNCHANGED <<pressed, input, wire, read>>
  BY DEF WaitKey, WaitRest, ReadFails, Elsewhere, typing
<1>2. /\ stream' = stream /\ pressed' = pressed /\ (AtKey <=> AtKey') /\ Flow(pressed', stream')
      /\ input' \in Seq(Byte) /\ read' \in Seq(Byte) /\ Len(read') <= 3 /\ pressed' \in Seq(Known)
  BY <1>1, SameStream, StreamType DEF DInv, TypeOK
<1>3. CASE /\ input # << >> /\ key' = key
           /\ \/ pc = "wait" /\ pc' = "first"
              \/ pc = "wait2" /\ pc' = "second"
              \/ pc = "wait3" /\ pc' = "third"
  <2>1. TypeOK'
    BY <1>1, <1>2, <1>3, ElsewhereKeeps DEF TypeOK
  <2>2. Holding'
    BY <1>1, <1>2, <1>3, ElsewhereKeeps DEF DInv, Holding, InSequence
  <2> QED
    BY <1>1, <1>2, <1>3, <2>1, <2>2, ElsewhereKeeps DEF DInv
<1>4. CASE pc \in {"wait", "first"} /\ pc' = "act" /\ key' \in {"NONE", "ERROR"}
  <2>1. TypeOK'
    BY <1>1, <1>2, <1>4, ElsewhereKeeps DEF TypeOK
  <2>2. Holding'
    BY <1>4 DEF Holding, InSequence
  <2>3. Harmless'
    BY <1>1, <1>2, <1>4, ElsewhereKeeps DEF DInv, Holding, Harmless, Printable
  <2> QED
    BY <1>1, <1>2, <1>4, <2>1, <2>2, <2>3, ElsewhereKeeps DEF DInv
<1>5. CASE NotAnArrow
  BY <1>1, <1>2, <1>5, EscapeKeepsDInv
<1> QED
  BY <1>3, <1>4, <1>5 DEF WaitKey, WaitRest, ReadFails, Goto, Return, TimeLimit, NotAnArrow
\* What a screen does with a key: a letter for the search box was pressed itself, a
\* signal is sent for a 'y' that was, and from a screen where a letter matters a piece
\* of a longer key is never next.
LEMMA ActKeepsDInv ==
    ASSUME DInv, Act
    PROVE  DInv'
<1>1. pc = "act" /\ Harmless /\ pc' \in {"frame", "done"}
      /\ UNCHANGED <<pressed, wire, input, read, key, delivered, disturbed>>
  BY DEF Act, typing, decoder, DInv
<1>2. /\ stream' = stream /\ pressed' = pressed /\ (AtKey <=> AtKey') /\ Flow(pressed', stream')
      /\ Len(pressed') <= MaxKeys /\ pressed \in Seq(Known) /\ Len(pressed) \in Nat
  BY <1>1, SameStream, StreamType DEF DInv
<1>3. screen' \in NextScreens /\ Boxes
  BY DEF Act
<1> DEFINE typedOk(s) == \A i \in 1 .. Len(s) : s[i].of \in 1 .. Len(pressed) /\ PressedItself(s[i])
           box(s) == s \in Seq(Byte) /\ Len(s) < Limit /\ typedOk(s)
<1>4. box(search) /\ box(search_draft)
  BY DEF DInv, TypeOK, SafeText
<1>5. box(search_draft')
  <2>1. CASE UNCHANGED search_draft
    BY <2>1, <1>4
  <2>2. CASE search_draft' = search
    BY <2>2, <1>4
  <2>3. CASE search_draft' = Typed /\ On("SEARCH", Printable)
    <3>1. read # << >> /\ read[1] \in Byte /\ read[1].of \in 1 .. Len(pressed) /\ PressedItself(read[1])
      BY <1>1, <2>3 DEF Harmless, On, DInv, TypeOK
    <3>2. CASE Len(search_draft) + 1 < Limit
      <4>1. search_draft' = Append(search_draft, read[1])
        BY <2>3, <3>2 DEF Typed
      <4> QED
        BY <4>1, <3>1, <3>2, <1>4
    <3> QED
      BY <3>2, <2>3, <1>4 DEF Typed
  <2>4. CASE search_draft' = << >>
    BY <2>4, LimitAssumption
  <2>5. CASE search_draft' = Front(search_draft) /\ search_draft # << >>
    <3> DEFINE f == SubSeq(search_draft, 1, Len(search_draft) - 1)
    <3>1. Len(search_draft) \in Nat \ {0}
      BY <2>5, <1>4, EmptySeq
    <3>2. /\ f \in Seq(Byte) /\ Len(f) = Len(search_draft) - 1
          /\ \A i \in 1 .. Len(search_draft) - 1 : f[i] = search_draft[i]
      <4> DEFINE n == Len(search_draft) - 1
      <4>1. n \in Nat /\ 1 \in Int /\ \A i \in 1 .. n : search_draft[i] \in Byte
        BY <3>1, <1>4
      <4> HIDE DEF n
      <4>2. /\ SubSeq(search_draft, 1, n) \in Seq(Byte)
            /\ Len(SubSeq(search_draft, 1, n)) = IF 1 <= n THEN n - 1 + 1 ELSE 0
            /\ \A i \in 1 .. n - 1 + 1 : SubSeq(search_draft, 1, n)[i] = search_draft[1 + i - 1]
        BY <4>1, SubSeqProperties
      <4>3. Len(SubSeq(search_draft, 1, n)) = n
        BY <4>1, <4>2
      <4>4. ASSUME NEW i \in 1 .. n PROVE SubSeq(search_draft, 1, n)[i] = search_draft[i]
        <5>1. i \in 1 .. n - 1 + 1 /\ 1 + i - 1 = i
          BY <4>1
        <5> QED
          BY <5>1, <4>2
      <4> QED
        BY <4>2, <4>3, <4>4 DEF n
    <3>3. search_draft' = f
      BY <2>5 DEF Front
    <3> HIDE DEF f
    <3> QED
      BY <3>1, <3>2, <3>3, <1>4, LimitAssumption
  <2> QED
    BY <1>3, <2>1, <2>2, <2>3, <2>4, <2>5 DEF Boxes, Edit, boxes
<1>6. box(search')
  BY <1>3, <1>4 DEF Boxes, boxes
<1>7. sent' # 0 => sent' \in 1 .. Len(pressed) /\ pressed[sent'] = "y"
  <2>1. CASE sent' = sent
    BY <2>1 DEF DInv, SafeText
  <2>2. CASE sent' = read[1].of /\ On("CONFIRM", {"y"})
    <3>1. read[1].of \in 1 .. Len(pressed) /\ read[1].sym = "y" /\ PressedItself(read[1])
      BY <1>1, <2>2 DEF Harmless, On, Printable
    <3>2. pressed[read[1].of] \in Known /\ Sends(pressed[read[1].of]) = <<"y">>
      BY <3>1, <1>2 DEF PressedItself
    <3> QED
      BY <2>2, <3>1, <3>2, SendsSingle
  <2> QED
    BY <2>1, <2>2 DEF Act
<1>8. SafeText'
  BY <1>2, <1>5, <1>6, <1>7 DEF SafeText, PressedItself
<1>9. screen' \in Screens /\ sent' \in 0 .. MaxKeys
  <2>1. screen' \in Screens
    BY <1>3 DEF NextScreens, On, Screens, DInv, TypeOK
  <2>2. sent' \in 0 .. MaxKeys
    <3>1. sent' = 0 \/ sent' \in 1 .. Len(pressed)
      BY <1>7
    <3>2. Len(pressed) <= MaxKeys
      BY DEF DInv
    <3> QED
      BY <3>1, <3>2, <1>2, LimitAssumption
  <2> QED
    BY <2>1, <2>2
<1>10. TypeOK'
  BY <1>1, <1>5, <1>6, <1>9 DEF DInv, TypeOK
<1>11. Holding'
  <2>1. AtKey \/ screen' \in {"OVERVIEW", "PROCESSES"}
    BY <1>1, <1>3 DEF Harmless, NextScreens, On, DInv, TypeOK, Screens
  <2> QED
    BY <1>1, <1>2, <2>1 DEF Holding, InSequence
<1> QED
  BY <1>1, <1>2, <1>8, <1>10, <1>11 DEF DInv

\* A new frame, and the end, leave what is not read where it is.
LEMMA FrameKeepsDInv ==
    ASSUME DInv, Frame \/ Fail \/ UNCHANGED vars
    PROVE  DInv'
<1>1. UNCHANGED <<pressed, input, wire, key, search, search_draft, sent>>
  BY DEF Frame, Fail, vars, typing, decoder, boxes
<1>2. /\ stream' = stream /\ pressed' = pressed /\ (AtKey <=> AtKey') /\ Flow(pressed', stream')
      /\ Len(pressed') <= MaxKeys
  BY <1>1, SameStream
<1>3. SafeText'
  BY <1>1 DEF DInv, SafeText, PressedItself
<1>4. CASE Frame
  <2>1. read' = << >> /\ pc = "frame" /\ pc' \in {"wait", "frame"}
        /\ (screen' = screen \/ screen' = "PROCESSES")
    BY <1>4 DEF Frame
  <2>2. TypeOK'
    BY <1>1, <2>1 DEF DInv, TypeOK, Screens
  <2>3. Holding'
    BY <1>2, <2>1 DEF DInv, Holding, InSequence
  <2> QED
    BY <1>1, <1>2, <1>3, <2>1, <2>2, <2>3 DEF DInv
<1>5. CASE Fail \/ UNCHANGED vars
  <2>1. read' = read /\ screen' = screen /\ (pc' = pc \/ pc' = "done")
    BY <1>5 DEF Fail, vars, decoder
  <2>2. TypeOK'
    BY <1>1, <2>1 DEF DInv, TypeOK
  <2>3. Holding'
    BY <1>1, <1>2, <2>1 DEF DInv, Holding, InSequence
  <2>4. pc' = "act" => Harmless'
    BY <1>1, <1>2, <2>1 DEF DInv, Harmless, PressedItself
  <2> QED
    BY <1>1, <1>2, <1>3, <2>1, <2>2, <2>3, <2>4 DEF DInv
<1> QED
  BY <1>4, <1>5

LEMMA StepKeepsDInv == DInv /\ [Next]_vars => DInv'
BY PressKeepsDInv, ArriveKeepsDInv, ReadFirstKeepsDInv, ReadSecondKeepsDInv, ReadThirdKeepsDInv,
   WaitKeepsDInv, ActKeepsDInv, FrameKeepsDInv DEF Next, Program, Decoder

LEMMA InitDInv == Init => DInv
<1> SUFFICES ASSUME Init PROVE DInv
    OBVIOUS
<1>1. stream = << >> /\ Len(<< >>) = 0
  BY DEF Init, stream
<1>2. TypeOK
  <2>1. \A S : << >> \in Seq(S)
    OBVIOUS
  <2> QED
    BY <1>1, <2>1, LimitAssumption DEF Init, TypeOK
<1>3. Flow(pressed, stream) /\ AtKey
  BY <1>1 DEF Flow, AtKey
<1>4. Holding /\ SafeText
  BY <1>1, <1>3 DEF Init, Holding, SafeText, InSequence
<1>5. Len(pressed) <= MaxKeys
  BY <1>1, LimitAssumption DEF Init
<1> QED
  BY <1>2, <1>3, <1>4, <1>5 DEF Init, DInv

-----------------------------------------------------------------------------
LEMMA DInvAlways == Spec => []DInv
BY InitDInv, StepKeepsDInv, PTL DEF Spec

\* The keyboard's variables keep their types, and the bytes their order, whatever is
\* pressed and however it arrives.
THEOREM DecoderInvariance == Spec => []TypeOK
<1>1. DInv => TypeOK
  BY DEF DInv
<1> QED
  BY <1>1, DInvAlways, PTL

\* Only characters whose own keys were pressed get into the search text.
THEOREM SearchTextWasTyped == Spec => []SearchWasTyped
<1>1. DInv => SearchWasTyped
  <2> SUFFICES ASSUME DInv, NEW b \in ToSet(search) \cup ToSet(search_draft)
               PROVE  PressedItself(b)
      BY DEF SearchWasTyped
  <2>1. search \in Seq(Byte) /\ search_draft \in Seq(Byte)
    BY DEF DInv, TypeOK
  <2> QED
    BY <2>1 DEF ToSet, DInv, SafeText
<1> QED
  BY <1>1, DInvAlways, PTL

\* A signal is sent only when 'y' itself was pressed.
THEOREM SignalWasPressed == Spec => []SignalWasTyped
<1>1. DInv => SignalWasTyped
  BY DEF DInv, SafeText, SignalWasTyped
<1> QED
  BY <1>1, DInvAlways, PTL

-----------------------------------------------------------------------------
(* The keys returned are the keys pressed.                                 *)
\* Returning the next key pressed keeps the keys returned the first ones pressed.
LEMMA Delivered ==
    ASSUME FInv, Undisturbed, NEW n, n = Len(delivered) + 1, n \in 1 .. Len(pressed),
           NEW k \in Known, pressed[n] = k, delivered' = Append(delivered, k), pressed' = pressed,
           pc' = "act",
           IF stream' = << >> THEN n = Len(pressed)
           ELSE stream'[1].of = n + 1 /\ Starts(pressed, stream'[1])
    PROVE  Undisturbed'
<1>1. delivered \in Seq(Known \cup {"NONE", "ERROR"}) /\ Len(delivered) \in Nat /\ Len(delivered') = n
  BY DEF FInv, Known
<1>2. \A i \in 1 .. Len(delivered') : delivered'[i] = pressed'[i]
  BY <1>1 DEF Undisturbed
<1> QED
  BY <1>1, <1>2 DEF Undisturbed, InSequence

\* An Escape returned at the end of the time limit was pressed, unless the rest of its
\* sequence is still under way.
LEMMA TimeLimitUndisturbed ==
    ASSUME FInv, Undisturbed, WaitRest, TimeLimit, ~disturbed'
    PROVE  Undisturbed'
<1> DEFINE r == read[Len(read)]
<1>1. /\ pc \in {"wait2", "wait3"} /\ pc' = "act" /\ key' = "ESCAPE"
      /\ delivered' = Append(delivered, "ESCAPE") /\ UNCHANGED <<pressed, wire, input, read>>
      /\ input = << >>
  BY DEF WaitRest, TimeLimit, NotAnArrow, Return, Elsewhere, typing
<1>2. stream = wire /\ stream' = stream
  <2>1. wire \in Seq(Byte)
    BY DEF FInv, DInv, TypeOK
  <2> QED
    BY <1>1, <2>1, ConcatEmptySeq DEF stream
<1>3. wire = << >> \/ Head(wire).of # r.of
  <2>1. ~(wire # << >> /\ Head(wire).of = Last(read).of)
    BY <1>1 DEF WaitRest, Disturbed, TimeLimit, NotAnArrow, Goto, Return
  <2> QED
    BY <2>1 DEF Last
<1>4. Sent(pressed, r) /\ GoesOn(pressed, stream, r)
  BY <1>1 DEF FInv, DInv, Holding, InSequence
<1>5. pressed \in Seq(Known) /\ r.of \in 1 .. Len(pressed) /\ pressed[r.of] \in Known
  BY <1>4, StreamType DEF FInv, DInv, Sent
<1>6. /\ Ends(pressed, r)
      /\ IF stream = << >> THEN r.of = Len(pressed)
         ELSE stream[1].of = r.of + 1 /\ Starts(pressed, stream[1])
  <2>1. CASE stream = << >>
    BY <2>1, <1>4 DEF GoesOn
  <2>2. CASE stream # << >>
    <3>1. stream[1].of # r.of
      BY <2>2, <1>2, <1>3
    <3> QED
      BY <3>1, <2>2, <1>4 DEF GoesOn, Follows, Within, NextKey
  <2> QED
    BY <2>1, <2>2
<1>7. r.of = Len(delivered) + 1
  BY <1>1 DEF Undisturbed, InSequence
<1>8. CASE pc = "wait2"
  <2>1. r.sym = "ESC"
    BY <1>8 DEF FInv, DInv, Holding
  <2>2. Len(Sends(pressed[r.of])) \in 1 .. 4
    BY <1>5, SendsType
  <2>3. Len(Sends(pressed[r.of])) = 1
    <3>1. Sends(pressed[r.of])[Len(Sends(pressed[r.of]))] = "ESC"
      BY <1>6, <2>1 DEF Ends
    <3>2. Len(Sends(pressed[r.of])) \in 2 .. Len(Sends(pressed[r.of])) => "ESC" \in Rest
      BY <3>1, <1>5, SendsShape
    <3>3. "ESC" \notin Rest
      BY DEF Rest
    <3>4. \A n \in 1 .. 4 : n = 1 \/ n \in 2 .. n
      OBVIOUS
    <3> QED
      BY <3>2, <3>3, <3>4, <2>2
  <2>4. pressed[r.of] = "ESCAPE"
    BY <1>5, <1>6, <2>1, <2>3, SendsSingle DEF Ends
  <2> HIDE DEF r
  <2> QED
    BY <1>1, <1>2, <1>5, <1>6, <1>7, <2>4, Delivered
<1>9. CASE pc = "wait3"
  <2>1. r.sym = "[" /\ r = read[2]
    BY <1>9 DEF FInv, DInv, Holding
  <2>2. Len(Sends(pressed[r.of])) > 2
    BY <1>9, <2>1 DEF Undisturbed
  <2> QED
    BY <1>5, <1>6, <2>1, <2>2, SendsArrow DEF Ends
<1> QED
  BY <1>1, <1>8, <1>9

\* Reading a byte.
LEMMA ReadUndisturbed ==
    ASSUME FInv, DInv', Undisturbed, ReadFirst \/ ReadSecond \/ ReadThird, ~disturbed'
    PROVE  Undisturbed'
<1> DEFINE h == Head(input)
<1>1. Take /\ Elsewhere /\ UNCHANGED typing /\ input # << >>
  BY DEF ReadFirst, ReadSecond, ReadThird, Elsewhere, FInv, DInv, Holding
<1>2. /\ h = stream[1] /\ stream # << >> /\ h \in Byte
      /\ Len(read') = Len(read) + 1 /\ read'[Len(read')] = h
      /\ \A i \in 1 .. Len(read) : read'[i] = read[i]
      /\ Sent(pressed, h) /\ GoesOn(pressed', stream', h)
  BY <1>1, TakeStream DEF FInv
<1>3. pressed' = pressed /\ pressed \in Seq(Known) /\ h.of \in 1 .. Len(pressed) /\ pressed[h.of] \in Known
  BY <1>1, <1>2, StreamType DEF Elsewhere, typing, FInv, DInv, Sent
<1> HIDE DEF h
<1>4. CASE ReadFirst
  <2>1. pc = "first" /\ h.of = Len(delivered) + 1 /\ Starts(pressed, h)
    BY <1>2, <1>4 DEF ReadFirst, Undisturbed, InSequence
  <2>2. CASE h.sym = "ESC"
    <3>1. pc' = "wait2" /\ delivered' = delivered
      BY <1>4, <2>2 DEF ReadFirst, Goto, h
    <3> QED
      BY <3>1, <2>1, <1>2, <1>3 DEF Undisturbed, InSequence
  <2>3. CASE h.sym # "ESC"
    <3> DEFINE k == IF h.sym = "CR" THEN "ENTER" ELSE h.sym
    <3>1. k \in Known /\ k \notin {"NONE", "ERROR"}
      BY <1>2, <2>3 DEF Byte, Known, Named, Printable
    <3>2. pc' = "act" /\ delivered' = Append(delivered, k)
      BY <1>4, <2>3, <3>1 DEF ReadFirst, Return, h
    <3>3. pressed[h.of] = k
          /\ IF stream' = << >> THEN h.of = Len(pressed)
             ELSE stream'[1].of = h.of + 1 /\ Starts(pressed, stream'[1])
      BY <1>2, <1>3, <2>1, <2>3, SingleByte
    <3> HIDE DEF k
    <3> QED
      BY <1>3, <2>1, <3>1, <3>2, <3>3, Delivered
  <2> QED
    BY <2>2, <2>3
<1>5. CASE ReadSecond
  <2>1. pc = "second" /\ Len(read) = 1 /\ h.sym = "[" /\ h.of = read[1].of
    BY <1>5 DEF ReadSecond, Disturbed, OnePress, Last, FInv, DInv, Holding, h
  <2>2. pc' = "wait3" /\ delivered' = delivered
    BY <1>5, <2>1 DEF ReadSecond, Goto, h
  <2>3. h.of = Len(delivered) + 1
    BY <2>1 DEF Undisturbed, InSequence
  <2>4. Sent(pressed, read[1]) /\ GoesOn(pressed, stream, read[1])
    BY <2>1 DEF FInv, DInv, Holding, InSequence
  <2>5. Within(pressed, read[1], h)
    BY <2>1, <2>4, <1>2 DEF GoesOn, Follows, NextKey, Sent
  <2>6. Len(Sends(pressed[h.of])) > 2
    BY <1>3, <2>1, <2>5, SendsBracket DEF Within
  <2>7. Len(read') = 2 /\ read'[2] = h
    BY <1>2, <2>1
  <2> QED
    BY <1>3, <2>2, <2>3, <2>6, <2>7 DEF Undisturbed, InSequence
<1>6. CASE ReadThird
  <2>1. pc = "third" /\ Len(read) = 2 /\ h.sym \in {"A", "B"} /\ h.of = read[2].of /\ read[2].sym = "["
    BY <1>6 DEF ReadThird, Disturbed, OnePress, Last, FInv, DInv, Holding, h
  <2> DEFINE k == IF h.sym = "A" THEN "UP" ELSE "DOWN"
  <2>2. pc' = "act" /\ delivered' = Append(delivered, k)
    BY <1>6, <2>1 DEF ReadThird, Arrow, Return, h
  <2>3. h.of = Len(delivered) + 1
    BY <2>1 DEF Undisturbed, InSequence
  <2>4. Sent(pressed, read[2]) /\ GoesOn(pressed, stream, read[2])
    BY <2>1 DEF FInv, DInv, Holding, InSequence
  <2>5. Within(pressed, read[2], h)
    BY <2>1, <2>4, <1>2 DEF GoesOn, Follows, NextKey, Sent
  <2>6. pressed[h.of] = k /\ k \in Known
    <3>1. k \in Known
      BY DEF Known, Named
    <3>2. PICK i \in 1 .. Len(Sends(pressed[h.of])) - 1 :
              Sends(pressed[h.of])[i] = "[" /\ Sends(pressed[h.of])[i + 1] = h.sym
      BY <2>1, <2>5 DEF Within
    <3> QED
      BY <3>1, <3>2, <1>3, <2>1, SendsArrow
  <2>7. IF stream' = << >> THEN h.of = Len(pressed) ELSE stream'[1].of = h.of + 1 /\ Starts(pressed, stream'[1])
    BY <1>2, <1>3, <2>1, ArrowEnds
  <2> HIDE DEF k
  <2> QED
    BY <1>3, <2>2, <2>3, <2>6, <2>7, Delivered
<1> QED
  BY <1>4, <1>5, <1>6

LEMMA StepKeepsUndisturbed ==
    ASSUME FInv, DInv', [Next]_vars, ~disturbed'
    PROVE  Undisturbed'
<1>1. ~disturbed
  BY DEF Next, Press, Arrive, Program, Decoder, WaitKey, ReadFirst, WaitRest, ReadSecond, ReadThird,
         ReadFails, Frame, Act, Fail, Disturbed, vars, decoder
<1>2. Undisturbed
  BY <1>1 DEF FInv
<1>3. CASE \E k \in Keys : Press(k)
  <2>1. PICK k \in Keys : Press(k)
    BY <1>3
  <2>2. UNCHANGED <<pc, delivered, read>>
    BY <2>1 DEF Press, decoder
  <2>3. /\ pressed \in Seq(Known) /\ Len(pressed) \in Nat
        /\ pressed' = Append(pressed, k) /\ Len(pressed') = Len(pressed) + 1
        /\ stream' # << >>
        /\ IF stream = << >> THEN stream'[1].of = Len(pressed) + 1 /\ Starts(pressed', stream'[1])
           ELSE stream'[1] = stream[1] /\ Sent(pressed, stream[1])
    BY <2>1, PressStream DEF FInv
  <2>4. \A n \in 1 .. Len(pressed) : pressed'[n] = pressed[n]
    BY <2>3
  <2>5. Len(delivered) <= Len(pressed) /\ Len(delivered) \in Nat
    BY <1>2 DEF Undisturbed, FInv
  <2>6. Len(delivered') <= Len(pressed') /\ \A i \in 1 .. Len(delivered') : delivered'[i] = pressed'[i]
    BY <1>2, <2>2, <2>3, <2>4, <2>5 DEF Undisturbed
  <2>7. pc' \notin InSequence => stream'[1].of = Len(delivered') + 1 /\ Starts(pressed', stream'[1])
    <3>1. CASE stream = << >>
      BY <3>1, <1>2, <2>2, <2>3 DEF Undisturbed
    <3>2. CASE stream # << >>
      <4>1. Starts(pressed', stream[1]) <=> Starts(pressed, stream[1])
        BY <3>2, <2>3, PressKeepsBytes
      <4> QED
        BY <4>1, <3>2, <1>2, <2>2, <2>3 DEF Undisturbed
    <3> QED
      BY <3>1, <3>2
  <2>8. pc' \in {"wait3", "third"} => Len(Sends(pressed'[read'[2].of])) > 2
    <3>1. pc \in {"wait3", "third"} => read[2].of \in 1 .. Len(pressed)
      BY DEF FInv, DInv, Holding, InSequence, Sent
    <3> QED
      BY <3>1, <1>2, <2>2, <2>4 DEF Undisturbed
  <2> QED
    BY <1>2, <2>2, <2>3, <2>6, <2>7, <2>8 DEF Undisturbed
<1>4. CASE Arrive
  <2>1. stream' = stream /\ UNCHANGED <<pressed, pc, delivered, read>>
    BY <1>4, ArriveStream DEF Arrive, FInv
  <2> QED
    BY <2>1, <1>2 DEF Undisturbed
<1>5. CASE ReadFirst \/ ReadSecond \/ ReadThird
  BY <1>2, <1>5, ReadUndisturbed
<1>6. CASE WaitRest /\ TimeLimit
  BY <1>2, <1>6, TimeLimitUndisturbed
<1>7. CASE (WaitRest /\ ~TimeLimit) \/ WaitKey \/ ReadFails \/ Frame \/ Act \/ Fail \/ UNCHANGED vars
  <2>1. UNCHANGED <<pressed, wire, input, delivered>>
    BY <1>7 DEF WaitRest, WaitKey, ReadFails, Frame, Act, Fail, vars, typing, decoder, Elsewhere,
                Return, Goto, Disturbed, NotAnArrow
  <2>2. stream' = stream
    BY <2>1 DEF stream
  <2>3. \/ pc' \notin InSequence /\ pc \notin InSequence
        \/ /\ read' = read
           /\ pc \in InSequence /\ pc' \in InSequence
           /\ pc' \in {"wait3", "third"} => pc \in {"wait3", "third"}
    BY <1>7 DEF WaitRest, WaitKey, ReadFails, Frame, Act, Fail, vars, decoder,
                Return, Goto, Disturbed, NotAnArrow, InSequence, TimeLimit
  <2> QED
    BY <1>2, <2>1, <2>2, <2>3 DEF Undisturbed, InSequence
<1> QED
  BY <1>3, <1>4, <1>5, <1>6, <1>7 DEF Next, Program, Decoder

LEMMA StepKeepsFInv == FInv /\ [Next]_vars => FInv'
<1> SUFFICES ASSUME FInv, [Next]_vars PROVE FInv'
    OBVIOUS
<1>1. DInv'
  BY StepKeepsDInv DEF FInv
<1>2. delivered' \in Seq({"NONE", "ERROR"} \cup Printable \cup Named)
  <2>1. delivered' = delivered \/ delivered' = Append(delivered, key')
    BY DEF Next, Press, Arrive, Program, Decoder, WaitKey, ReadFirst, WaitRest, ReadSecond, ReadThird,
           ReadFails, Frame, Act, Fail, vars, decoder, Return, Goto, NotAnArrow, Arrow, TimeLimit
  <2>2. key' \in {"NONE", "ERROR"} \cup Printable \cup Named
    BY <1>1 DEF DInv
  <2> QED
    BY <2>1, <2>2 DEF FInv
<1> QED
  BY <1>1, <1>2, StepKeepsUndisturbed DEF FInv

\* Undisturbed, what the screens get is what was pressed, in order.
THEOREM KeysArriveAsPressed == Spec => []KeysAsPressed
<1>1. Init => FInv
  <2> SUFFICES ASSUME Init PROVE FInv
      OBVIOUS
  <2>1. stream = << >> /\ Len(<< >>) = 0
    BY DEF Init, stream
  <2>2. \A S : << >> \in Seq(S)
    OBVIOUS
  <2>3. delivered = << >> /\ pressed = << >> /\ pc = "frame"
    BY DEF Init
  <2>4. Undisturbed
    BY <2>1, <2>3 DEF Undisturbed, InSequence
  <2> QED
    BY <2>2, <2>3, <2>4, InitDInv DEF FInv
<1>2. FInv => KeysAsPressed
  <2> SUFFICES ASSUME FInv, ~disturbed PROVE IsPrefix(delivered, pressed)
      BY DEF KeysAsPressed
  <2> DEFINE S == {"NONE", "ERROR"} \cup Printable \cup Named
             n == Len(delivered)
  <2>1. /\ delivered \in Seq(S) /\ pressed \in Seq(S) /\ n \in Nat /\ n <= Len(pressed) /\ Len(pressed) \in Nat
        /\ \A i \in 1 .. n : delivered[i] = pressed[i]
    <3>1. pressed \in Seq(Known) /\ Len(pressed) \in Nat /\ Known \subseteq S
      BY StreamType DEF FInv, DInv, Known
    <3>2. pressed \in Seq(S)
      BY <3>1, SeqMonotonic
    <3> QED
      BY <3>1, <3>2 DEF FInv, Undisturbed
  <2> HIDE DEF S, n
  <2>2. /\ \A i \in 1 .. n : pressed[i] \in S
        /\ \A i \in 1 .. n : delivered[i] \in S
    BY <2>1 DEF n
  <2>3. /\ SubSeq(pressed, 1, n) \in Seq(S)
        /\ Len(SubSeq(pressed, 1, n)) = IF 1 <= n THEN n - 1 + 1 ELSE 0
        /\ \A i \in 1 .. n - 1 + 1 : SubSeq(pressed, 1, n)[i] = pressed[1 + i - 1]
    BY <2>1, <2>2, SubSeqProperties
  <2>4. /\ SubSeq(delivered, 1, n) \in Seq(S)
        /\ Len(SubSeq(delivered, 1, n)) = IF 1 <= n THEN n - 1 + 1 ELSE 0
        /\ \A i \in 1 .. n - 1 + 1 : SubSeq(delivered, 1, n)[i] = delivered[1 + i - 1]
    BY <2>1, <2>2, SubSeqProperties
  <2>5. Len(SubSeq(delivered, 1, n)) = n /\ Len(SubSeq(pressed, 1, n)) = n
    BY <2>1, <2>3, <2>4
  <2>6. ASSUME NEW i \in 1 .. n PROVE SubSeq(delivered, 1, n)[i] = SubSeq(pressed, 1, n)[i]
    <3>1. i \in 1 .. n - 1 + 1 /\ 1 + i - 1 = i
      BY <2>1
    <3> QED
      BY <3>1, <2>1, <2>3, <2>4
  <2>7. SubSeq(delivered, 1, n) = SubSeq(pressed, 1, n)
    BY <2>3, <2>4, <2>5, <2>6, SeqEqual
  <2> QED
    BY <2>1, <2>7 DEF IsPrefix, n
<1> QED
  BY <1>1, <1>2, StepKeepsFInv, PTL DEF Spec
=============================================================================
