----------------------------- MODULE AttachProofs -----------------------------
(***************************************************************************)
(* The theorems about Attach: the job is given what is typed for it, and   *)
(* nothing of it is held back, however the keys fall into chunks and       *)
(* however long the buffer, the terminal and the typing are.               *)
(*                                                                         *)
(* The argument: of what was typed a part has been handled, and chunk and  *)
(* tty are the rest, in order.  While the loop goes on, decoding the part  *)
(* handled gives exactly what was sent, with no half of a Ctrl-] left over *)
(* (Handled): forwardChunk never stops between the halves of a pair.       *)
(***************************************************************************)
EXTENDS Attach, SequenceTheorems, WellFoundedInduction, TLAPS

\* Induction over the naturals, from the existence of a least element.
LEMMA NatInd ==
  ASSUME NEW S, 0 \in S, \A n \in Nat : n \in S => n + 1 \in S
  PROVE  Nat \subseteq S
<1> DEFINE R == {p \in Nat \X Nat : p[1] < p[2]}
           T == {n \in Nat : n \notin S}
<1>1. IsWellFoundedOn(R, Nat)
  BY NatLessThanWellFounded DEF OpToRel
<1>2. \A x, y \in Nat : x < y => <<x, y>> \in R
  OBVIOUS
<1>3. SUFFICES ASSUME T # {} PROVE FALSE
  OBVIOUS
<1>4. PICK x \in T : \A y \in T : <<y, x>> \notin R
  <2>1. T \subseteq Nat
    OBVIOUS
  <2> HIDE DEF R, T
  <2>2. QED BY <1>1, <1>3, <2>1, WFMin
<1> HIDE DEF R
<1>5. x # 0 /\ x - 1 \in Nat /\ x - 1 \notin T
  <2>1. x # 0 /\ x - 1 \in Nat OBVIOUS
  <2>2. <<x - 1, x>> \in R BY <2>1, <1>2
  <2>3. QED BY <2>1, <2>2, <1>4
<1>6. QED BY <1>5

-----------------------------------------------------------------------------
(* Decoding key by key.                                                    *)

Decodings == [out : Seq(Keys), half : BOOLEAN, end : BOOLEAN]

Decodes(s, n, f) == f = [i \in 0 .. n |-> IF i = 0 THEN Undecoded ELSE Decode(f[i - 1], s[i])]

LEMMA DecodingExists ==
  ASSUME NEW s, NEW n \in Nat
  PROVE  \E f : Decodes(s, n, f)
<1> DEFINE S == {m \in Nat : \E f : Decodes(s, m, f)}
<1>1. 0 \in S
  <2>1. Decodes(s, 0, [i \in 0 .. 0 |-> Undecoded])
    BY DEF Decodes
  <2>2. QED BY <2>1
<1>2. ASSUME NEW m \in Nat, m \in S PROVE m + 1 \in S
  <2>1. PICK f : Decodes(s, m, f)
    BY <1>2
  <2> DEFINE g == [i \in 0 .. m + 1 |-> IF i = m + 1 THEN Decode(f[m], s[m + 1]) ELSE f[i]]
  <2>2. Decodes(s, m + 1, g)
    <3>1. \A i \in 0 .. m : f[i] = IF i = 0 THEN Undecoded ELSE Decode(f[i - 1], s[i])
      BY <2>1 DEF Decodes
    <3>2. \A i \in 0 .. m + 1 : g[i] = IF i = 0 THEN Undecoded ELSE Decode(g[i - 1], s[i])
      BY <3>1
    <3>3. QED BY <3>2 DEF Decodes
  <2>3. QED BY <2>2
<1>3. Nat \subseteq S
  <2> HIDE DEF S
  <2>1. QED BY <1>1, <1>2, NatInd
<1>4. QED BY <1>3

LEMMA DecodedFcn ==
  ASSUME NEW s \in Seq(Keys)
  PROVE  /\ Decoded(s)[0] = Undecoded
         /\ \A i \in 1 .. Len(s) : Decoded(s)[i] = Decode(Decoded(s)[i - 1], s[i])
<1>1. Decodes(s, Len(s), Decoded(s))
  <2>1. PICK f : Decodes(s, Len(s), f)
    BY DecodingExists
  <2>2. QED BY <2>1 DEF Decoded, Decodes
<1>2. QED BY <1>1 DEF Decodes

\* What the first keys mean does not depend on those that follow.
LEMMA DecodedAppend ==
  ASSUME NEW s \in Seq(Keys), NEW k \in Keys
  PROVE  \A i \in 0 .. Len(s) : Decoded(Append(s, k))[i] = Decoded(s)[i]
<1> DEFINE t == Append(s, k)
           S == {i \in Nat : i <= Len(s) => Decoded(t)[i] = Decoded(s)[i]}
<1>1. t \in Seq(Keys) /\ Len(t) = Len(s) + 1 /\ \A i \in 1 .. Len(s) : t[i] = s[i]
  OBVIOUS
<1> HIDE DEF t
<1>2. 0 \in S
  BY <1>1, DecodedFcn
<1>3. ASSUME NEW i \in Nat, i \in S PROVE i + 1 \in S
  <2> SUFFICES ASSUME i + 1 <= Len(s) PROVE Decoded(t)[i + 1] = Decoded(s)[i + 1]
    OBVIOUS
  <2>1. i + 1 \in 1 .. Len(s) /\ i + 1 \in 1 .. Len(t) /\ (i + 1) - 1 = i
    BY <1>1
  <2>2. Decoded(t)[i + 1] = Decode(Decoded(t)[i], t[i + 1])
    BY <1>1, <2>1, DecodedFcn
  <2>3. Decoded(s)[i + 1] = Decode(Decoded(s)[i], s[i + 1])
    BY <2>1, DecodedFcn
  <2>4. Decoded(t)[i] = Decoded(s)[i] /\ t[i + 1] = s[i + 1]
    BY <1>1, <1>3, <2>1
  <2>5. QED BY <2>2, <2>3, <2>4
<1>4. Nat \subseteq S
  <2> HIDE DEF S
  <2>1. QED BY <1>2, <1>3, NatInd
<1>5. QED BY <1>4 DEF t

LEMMA DecodeTyped ==
  ASSUME NEW d \in Decodings, NEW k \in Keys
  PROVE  /\ Decode(d, k) \in Decodings
         /\ Len(d.out) <= Len(Decode(d, k).out)
         /\ \A j \in 1 .. Len(d.out) : Decode(d, k).out[j] = d.out[j]
<1>1. /\ d = [out |-> d.out, half |-> d.half, end |-> d.end]
      /\ d.out \in Seq(Keys) /\ d.half \in BOOLEAN /\ d.end \in BOOLEAN
  BY DEF Decodings
<1>2. /\ Append(d.out, k) \in Seq(Keys) /\ Len(Append(d.out, k)) = Len(d.out) + 1
      /\ \A j \in 1 .. Len(d.out) : Append(d.out, k)[j] = d.out[j]
  BY <1>1
<1>3. PICK o, h, e : Decode(d, k) = [out |-> o, half |-> h, end |-> e]
                     /\ o \in {d.out, Append(d.out, k)} /\ h \in BOOLEAN /\ e \in BOOLEAN
  <2>1. CASE d.end
    BY <1>1, <2>1 DEF Decode
  <2>2. CASE ~d.end /\ d.half /\ k = DetachByte
    BY <1>1, <2>2 DEF Decode
  <2>3. CASE ~d.end /\ d.half /\ k # DetachByte
    BY <1>1, <2>3 DEF Decode
  <2>4. CASE ~d.end /\ ~d.half
    BY <1>1, <2>4 DEF Decode
  <2>5. QED BY <2>1, <2>2, <2>3, <2>4
<1>4. QED BY <1>1, <1>2, <1>3 DEF Decodings

\* What Decode does, field by field.
LEMMA DecodeOpen ==
  ASSUME NEW o, NEW h \in BOOLEAN, NEW k
  PROVE  LET d == [out |-> o, half |-> h, end |-> FALSE] IN
         /\ h /\ k = DetachByte =>
              Decode(d, k) = [out |-> Append(o, k), half |-> FALSE, end |-> FALSE]
         /\ ~h /\ k = DetachByte => Decode(d, k) = [out |-> o, half |-> TRUE, end |-> FALSE]
         /\ ~h /\ k # DetachByte =>
              Decode(d, k) = [out |-> Append(o, k), half |-> FALSE, end |-> FALSE]
BY DEF Decode

LEMMA MakeDecoding ==
  ASSUME NEW o \in Seq(Keys), NEW h \in BOOLEAN, NEW e \in BOOLEAN
  PROVE  [out |-> o, half |-> h, end |-> e] \in Decodings
BY DEF Decodings

\* What has been decoded is not taken back.
LEMMA DecodedGrows ==
  ASSUME NEW s \in Seq(Keys), NEW i \in 0 .. Len(s)
  PROVE  /\ Decoded(s)[i] \in Decodings
         /\ \A m \in i .. Len(s) :
              /\ Len(Decoded(s)[i].out) <= Len(Decoded(s)[m].out)
              /\ \A j \in 1 .. Len(Decoded(s)[i].out) : Decoded(s)[m].out[j] = Decoded(s)[i].out[j]
<1> DEFINE D == Decoded(s)
           T == {m \in Nat : m <= Len(s) => D[m] \in Decodings}
           G(m) == /\ Len(D[i].out) <= Len(D[m].out)
                   /\ \A j \in 1 .. Len(D[i].out) : D[m].out[j] = D[i].out[j]
           S == {m \in Nat : i + m <= Len(s) => G(i + m)}
<1>1. D[0] = Undecoded /\ \A m \in 1 .. Len(s) : D[m] = Decode(D[m - 1], s[m])
  BY DecodedFcn
<1> HIDE DEF D
<1>2. Nat \subseteq T
  <2>1. 0 \in T
    <3>1. <<>> \in Seq(Keys)
      OBVIOUS
    <3>2. Undecoded \in Decodings
      BY <3>1, MakeDecoding DEF Undecoded
    <3>3. QED BY <1>1, <3>2
  <2>2. ASSUME NEW m \in Nat, m \in T PROVE m + 1 \in T
    <3> SUFFICES ASSUME m + 1 <= Len(s) PROVE D[m + 1] \in Decodings
      OBVIOUS
    <3>1. D[m] \in Decodings /\ s[m + 1] \in Keys
      BY <2>2
    <3>2. D[m + 1] = Decode(D[m], s[m + 1])
      BY <1>1
    <3>3. QED BY <3>1, <3>2, DecodeTyped
  <2>3. QED
    <3> HIDE DEF T
    <3>1. QED BY <2>1, <2>2, NatInd
<1>3. \A m \in 0 .. Len(s) : D[m] \in Decodings
  BY <1>2
<1>4. Nat \subseteq S
  <2>1. 0 \in S
    BY <1>3 DEF Decodings
  <2>2. ASSUME NEW m \in Nat, m \in S PROVE m + 1 \in S
    <3> SUFFICES ASSUME i + (m + 1) <= Len(s) PROVE G(i + (m + 1))
      OBVIOUS
    <3>1. G(i + m)
      BY <2>2
    <3>2. D[i + m] \in Decodings /\ D[i] \in Decodings /\ s[i + m + 1] \in Keys
      BY <1>3
    <3>3. D[i + (m + 1)] = Decode(D[i + m], s[i + m + 1])
      BY <1>1
    <3>4. /\ Len(D[i + m].out) <= Len(D[i + (m + 1)].out)
          /\ \A j \in 1 .. Len(D[i + m].out) : D[i + (m + 1)].out[j] = D[i + m].out[j]
          /\ D[i + (m + 1)] \in Decodings
      BY <3>2, <3>3, DecodeTyped, ZenonT(30)
    <3>5. QED BY <3>1, <3>2, <3>4 DEF Decodings
  <2>3. QED
    <3> HIDE DEF S
    <3>1. QED BY <2>1, <2>2, NatInd
<1>5. ASSUME NEW m \in i .. Len(s) PROVE G(m)
  <2>1. m - i \in Nat /\ i + (m - i) = m
    OBVIOUS
  <2>2. m - i \in S
    BY <1>4, <2>1
  <2>3. QED BY <2>1, <2>2
<1>6. QED BY <1>3, <1>5 DEF D

-----------------------------------------------------------------------------
(* The invariant.                                                          *)

Loops == {"size", "resize", "watch", "read"}
Ends  == {"detached", "gone", "closed"}

\* How many keys are no longer waiting to be handled.
Count == Len(typed) - Len(chunk) - Len(tty)

TypedOK ==
  /\ typed \in Seq(Keys) /\ tty \in Seq(Keys) /\ chunk \in Seq(Keys) /\ sent \in Seq(Keys)
  /\ loop \in Loops \cup Ends
  /\ loop # "read" => chunk = <<>>

\* What waits is the rest of what was typed, in order.
RestWaits ==
  /\ Count \in Nat
  /\ \A i \in 1 .. Len(chunk) : chunk[i] = typed[Count + i]
  /\ \A i \in 1 .. Len(tty) : tty[i] = typed[Count + Len(chunk) + i]

\* What has been handled means what was sent, and nothing is left over of it.
Handled == Decoded(typed)[Count] = [out |-> sent, half |-> FALSE, end |-> FALSE]

Inv ==
  /\ TypedOK
  /\ ~Ended => RestWaits /\ Handled
  /\ Ended => SentIsMeant

LEMMA PrefixOf ==
  ASSUME NEW s \in Seq(Keys), NEW t \in Seq(Keys), Len(s) <= Len(t),
         \A j \in 1 .. Len(s) : t[j] = s[j]
  PROVE  IsPrefix(s, t)
BY DEF IsPrefix

\* While the loop goes on, what was sent begins what was meant.
LEMMA SentBeginsMeant ==
  ASSUME TypedOK, RestWaits, Handled
  PROVE  SentIsMeant
<1>1. Count \in 0 .. Len(typed)
  BY DEF TypedOK, RestWaits, Count
<1>2. /\ Decoded(typed)[Count].out = sent
      /\ Len(typed) \in Count .. Len(typed)
  BY <1>1 DEF Handled, TypedOK
<1>3. /\ Len(sent) <= Len(Meant.out)
      /\ \A j \in 1 .. Len(sent) : Meant.out[j] = sent[j]
      /\ Meant.out \in Seq(Keys)
  <2>1. typed \in Seq(Keys)
    BY DEF TypedOK
  <2>2. Meant \in Decodings
    BY <2>1, DecodedGrows DEF Meant
  <2>3. QED BY <1>1, <1>2, <2>1, <2>2, DecodedGrows DEF Meant, Decodings
<1>4. QED BY <1>3, PrefixOf DEF SentIsMeant, TypedOK

LEMMA InitInv == Init => Inv
<1> SUFFICES ASSUME Init PROVE Inv
  OBVIOUS
<1>1. <<>> \in Seq(Keys) /\ Len(<<>>) = 0
  OBVIOUS
<1>2. TypedOK
  BY <1>1 DEF Init, TypedOK, Loops
<1>6. Count = 0 /\ RestWaits
  <2>1. typed = <<>> /\ chunk = <<>> /\ tty = <<>>
    BY DEF Init
  <2>2. Count = 0
    <3>1. Len(typed) = 0 /\ Len(chunk) = 0 /\ Len(tty) = 0
      BY <1>1, <2>1
    <3>2. QED BY <3>1 DEF Count
  <2>3. 1 .. Len(chunk) = {} /\ 1 .. Len(tty) = {}
    BY <2>1, <1>1
  <2>4. QED BY <2>2, <2>3 DEF RestWaits
<1>3. Handled
  BY <1>1, <1>6, DecodedFcn DEF Init, Handled, Undecoded
<1>4. ~Ended
  BY DEF Init, Ended
<1>5. QED BY <1>2, <1>3, <1>4, <1>6 DEF Inv

\* A step that leaves the keys, what was sent and the loop alone, or goes from one
\* stage before the loop to the next, or out of a loop that has nothing to forward.
LEMMA KeysAlone ==
  ASSUME Inv, UNCHANGED <<typed, tty, chunk, sent>>, loop' \in Loops \cup Ends,
         loop' = loop \/ (~Ended /\ chunk = <<>>)
  PROVE  Inv'
<1>1. TypedOK'
  BY DEF Inv, TypedOK
<1>2. (RestWaits <=> RestWaits') /\ (Handled <=> Handled') /\ (SentIsMeant <=> SentIsMeant')
  BY DEF RestWaits, Handled, Count, SentIsMeant, Meant
<1>3. ~Ended => SentIsMeant
  BY SentBeginsMeant DEF Inv
<1>4. Ended' => SentIsMeant
  BY <1>3 DEF Inv
<1>5. ~Ended' => ~Ended
  BY DEF Ended
<1>6. QED BY <1>1, <1>2, <1>4, <1>5 DEF Inv

\* Forwarding hands on n keys of the chunk, whose meaning is k.
LEMMA Forwards ==
  ASSUME Inv, loop = "read", NEW n \in 1 .. Len(chunk), NEW k \in Keys,
         Decoded(typed)[Count + n] = [out |-> Append(sent, k), half |-> FALSE, end |-> FALSE],
         Writes(k, SubSeq(chunk, n + 1, Len(chunk))), UNCHANGED <<typed, tty>>
  PROVE  Inv'
<1>1. TypedOK /\ RestWaits /\ Handled /\ ~Ended
  BY DEF Inv, Ended
<1>2. CASE loop' = "gone" /\ chunk' = <<>> /\ sent' = sent
  <2>1. TypedOK'
    BY <1>1, <1>2 DEF TypedOK, Ends
  <2>2. SentIsMeant'
    BY <1>1, <1>2, SentBeginsMeant DEF SentIsMeant, Meant
  <2>3. Ended'
    BY <1>2 DEF Ended
  <2>4. QED BY <2>1, <2>2, <2>3 DEF Inv
<1>3. CASE sent' = Append(sent, k) /\ chunk' = SubSeq(chunk, n + 1, Len(chunk)) /\ loop' = loop
  <2>1. /\ chunk' \in Seq(Keys) /\ Len(chunk') = Len(chunk) - n
        /\ \A i \in 1 .. Len(chunk') : chunk'[i] = chunk[n + i]
    BY <1>1, <1>3 DEF TypedOK
  <2>2. sent' \in Seq(Keys)
    BY <1>1, <1>3 DEF TypedOK
  <2>3. Count' = Count + n
    BY <2>1, <1>1 DEF Count, TypedOK
  <2>4. TypedOK'
    BY <1>1, <1>3, <2>1, <2>2 DEF TypedOK
  <2>5. RestWaits'
    <3>1. Count \in Nat /\ Count' \in Nat
      BY <1>1, <2>3 DEF RestWaits
    <3>2. ASSUME NEW i \in 1 .. Len(chunk') PROVE chunk'[i] = typed'[Count' + i]
      <4>1. n + i \in 1 .. Len(chunk) /\ Count + (n + i) = Count' + i
        BY <1>1, <2>1, <2>3, <3>1 DEF TypedOK
      <4>2. QED BY <1>1, <2>1, <4>1 DEF RestWaits
    <3>3. Count + Len(chunk) = Count' + Len(chunk')
      BY <1>1, <2>1, <2>3, <3>1 DEF TypedOK
    <3>4. ASSUME NEW i \in 1 .. Len(tty) PROVE tty'[i] = typed'[Count' + Len(chunk') + i]
      BY <1>1, <3>3 DEF RestWaits
    <3>5. QED BY <3>1, <3>2, <3>4 DEF RestWaits
  <2>6. Handled'
    BY <1>3, <2>3 DEF Handled
  <2>7. ~Ended'
    BY <1>1, <1>3 DEF Ended
  <2>8. QED BY <2>4, <2>5, <2>6, <2>7 DEF Inv
<1>4. QED BY <1>2, <1>3 DEF Writes

LEMMA TypeKeeps == Inv /\ Type => Inv'
<1> SUFFICES ASSUME Inv, Type PROVE Inv'
  OBVIOUS
<1>1. PICK k \in Keys : typed' = Append(typed, k) /\ tty' = Append(tty, k)
  BY DEF Type
<1>2. TypedOK /\ RestWaits /\ Handled /\ ~Ended /\ UNCHANGED <<chunk, sent, loop>>
  BY DEF Inv, Type
<1>3. /\ typed' \in Seq(Keys) /\ Len(typed') = Len(typed) + 1
      /\ \A i \in 1 .. Len(typed) : typed'[i] = typed[i]
      /\ tty' \in Seq(Keys) /\ Len(tty') = Len(tty) + 1
      /\ \A i \in 1 .. Len(tty) : tty'[i] = tty[i]
      /\ typed'[Len(typed')] = k /\ tty'[Len(tty')] = k
  BY <1>1, <1>2 DEF TypedOK
<1>4. TypedOK' /\ Count' = Count
  BY <1>2, <1>3 DEF TypedOK, Count
<1>5. RestWaits'
  <2>1. Count + Len(chunk) + Len(tty) = Len(typed)
    BY <1>2 DEF TypedOK, Count
  <2>2. Count \in Nat /\ Len(chunk) \in Nat /\ Len(tty) \in Nat
    BY <1>2 DEF RestWaits, TypedOK
  <2>3. ASSUME NEW i \in 1 .. Len(chunk) PROVE chunk'[i] = typed'[Count' + i]
    <3>1. chunk[i] = typed[Count + i] /\ Count + i \in 1 .. Len(typed)
      BY <1>2, <2>1, <2>2 DEF RestWaits
    <3>2. QED BY <1>2, <1>3, <1>4, <3>1
  <2>4. ASSUME NEW i \in 1 .. Len(tty) PROVE tty'[i] = typed'[Count' + Len(chunk') + i]
    <3>1. tty[i] = typed[Count + Len(chunk) + i]
      BY <1>2 DEF RestWaits
    <3>2. Count + Len(chunk) + i \in 1 .. Len(typed)
      BY <2>1, <2>2
    <3>3. QED BY <1>2, <1>3, <1>4, <3>1, <3>2
  <2>5. tty'[Len(tty) + 1] = typed'[Count' + Len(chunk') + (Len(tty) + 1)]
    <3>1. Count' + Len(chunk') + (Len(tty) + 1) = Len(typed')
      BY <1>2, <1>3, <1>4, <2>1, <2>2
    <3>2. QED BY <1>3, <3>1
  <2>6. \A i \in 1 .. Len(tty') : i \in 1 .. Len(tty) \/ i = Len(tty) + 1
    BY <1>3, <2>2
  <2>7. QED BY <1>2, <1>4, <2>2, <2>3, <2>4, <2>5, <2>6 DEF RestWaits
<1>6. Handled'
  <2>1. Count \in 0 .. Len(typed)
    BY <1>2 DEF RestWaits, Count, TypedOK
  <2>2. Decoded(typed')[Count] = Decoded(typed)[Count]
    BY <1>1, <1>2, <2>1, DecodedAppend DEF TypedOK
  <2>3. QED BY <1>2, <1>4, <2>2 DEF Handled
<1>7. ~Ended'
  BY <1>2 DEF Ended
<1>8. QED BY <1>4, <1>5, <1>6, <1>7 DEF Inv

LEMMA ReadKeeps == Inv /\ Read => Inv'
<1> SUFFICES ASSUME Inv, Read PROVE Inv'
  OBVIOUS
<1> DEFINE n == IF Len(tty) < BufSize THEN Len(tty) ELSE BufSize
<1>1. /\ TypedOK /\ RestWaits /\ Handled /\ ~Ended /\ UNCHANGED <<typed, sent, loop>>
      /\ chunk = <<>> /\ loop = "read"
      /\ chunk' = SubSeq(tty, 1, n) /\ tty' = SubSeq(tty, n + 1, Len(tty))
  BY DEF Inv, Read, Reading, Ended
<1>2. n \in 0 .. Len(tty)
  BY <1>1, AttachAssumption DEF TypedOK
<1> HIDE DEF n
<1>3. /\ chunk' \in Seq(Keys) /\ Len(chunk') = n
      /\ tty' \in Seq(Keys) /\ Len(tty') = Len(tty) - n
      /\ \A i \in 1 .. n : chunk'[i] = tty[i]
      /\ \A i \in 1 .. Len(tty) - n : tty'[i] = tty[n + i]
  BY <1>1, <1>2 DEF TypedOK
<1>4. TypedOK' /\ Count' = Count
  <2>1. TypedOK'
    BY <1>1, <1>3 DEF TypedOK
  <2>2. Len(chunk) = 0 /\ Len(typed) \in Nat /\ Len(tty) \in Nat
    BY <1>1 DEF TypedOK
  <2>3. Len(tty') = Len(tty) - n /\ Len(chunk') = n /\ n \in Nat /\ Len(typed') = Len(typed)
    BY <1>1, <1>2, <1>3
  <2>4. Count' = Count
    BY <2>2, <2>3 DEF Count
  <2>5. QED BY <2>1, <2>4
<1>5. RestWaits'
  <2>1. /\ Count \in Nat /\ Len(chunk) = 0 /\ Len(tty) \in Nat /\ n \in Nat
        /\ \A i \in 1 .. Len(tty) : tty[i] = typed[Count + i]
    BY <1>1, <1>2 DEF RestWaits, TypedOK
  <2>2. ASSUME NEW i \in 1 .. Len(chunk') PROVE chunk'[i] = typed'[Count' + i]
    BY <1>1, <1>2, <1>3, <1>4, <2>1
  <2>3. ASSUME NEW i \in 1 .. Len(tty') PROVE tty'[i] = typed'[Count' + Len(chunk') + i]
    <3>1. n + i \in 1 .. Len(tty) /\ Count + (n + i) = Count' + Len(chunk') + i
      BY <1>2, <1>3, <1>4, <2>1
    <3>2. QED BY <1>1, <1>3, <2>1, <3>1
  <2>4. QED BY <1>4, <2>1, <2>2, <2>3 DEF RestWaits
<1>6. Handled' /\ ~Ended'
  BY <1>1, <1>4 DEF Handled, Ended
<1>7. QED BY <1>4, <1>5, <1>6 DEF Inv

LEMMA ForwardTextKeeps == Inv /\ ForwardText => Inv'
<1> SUFFICES ASSUME Inv, ForwardText PROVE Inv'
  OBVIOUS
<1>1. /\ TypedOK /\ RestWaits /\ Handled /\ loop = "read" /\ chunk # <<>> /\ chunk[1] # DetachByte
      /\ Writes(Head(chunk), Tail(chunk)) /\ UNCHANGED <<typed, tty>>
  BY DEF Inv, ForwardText, Ended, TypedOK
<1>2. /\ 1 \in 1 .. Len(chunk) /\ Head(chunk) = chunk[1] /\ chunk[1] \in Keys
      /\ Tail(chunk) = SubSeq(chunk, 1 + 1, Len(chunk))
      /\ Count + 1 \in 1 .. Len(typed)
  BY <1>1 DEF TypedOK, RestWaits, Count
<1>3. typed[Count + 1] = chunk[1] /\ (Count + 1) - 1 = Count /\ typed \in Seq(Keys)
  BY <1>1, <1>2 DEF RestWaits, TypedOK
<1>4. Decoded(typed)[Count + 1] = Decode(Decoded(typed)[Count], chunk[1])
  BY <1>2, <1>3, DecodedFcn
<1>5. Decoded(typed)[Count + 1] = [out |-> Append(sent, chunk[1]), half |-> FALSE, end |-> FALSE]
  BY <1>1, <1>4, DecodeOpen DEF Handled
<1>6. QED BY <1>1, <1>2, <1>5, Forwards

LEMMA ForwardEscapeKeeps == Inv /\ ForwardEscape => Inv'
<1> SUFFICES ASSUME Inv, ForwardEscape PROVE Inv'
  OBVIOUS
<1>1. /\ TypedOK /\ RestWaits /\ Handled /\ loop = "read" /\ chunk # <<>> /\ chunk[1] = DetachByte
      /\ Len(chunk) > 1 /\ chunk[2] = DetachByte
      /\ Writes(DetachByte, Tail(Tail(chunk))) /\ UNCHANGED <<typed, tty>>
  BY DEF Inv, ForwardEscape, Ended, TypedOK, Doubled
<1>2. /\ 2 \in 1 .. Len(chunk)
      /\ Tail(Tail(chunk)) = SubSeq(chunk, 2 + 1, Len(chunk))
      /\ Count + 1 \in 1 .. Len(typed) /\ Count + 2 \in 1 .. Len(typed)
  <2>1. Tail(Tail(chunk)) = SubSeq(chunk, 2 + 1, Len(chunk))
    BY <1>1 DEF TypedOK
  <2>2. QED BY <1>1, <2>1 DEF TypedOK, RestWaits, Count
<1>3. /\ typed[Count + 1] = DetachByte /\ (Count + 1) - 1 = Count /\ typed \in Seq(Keys)
      /\ typed[Count + 2] = DetachByte /\ (Count + 2) - 1 = Count + 1
  <2>1. Count \in Nat /\ typed \in Seq(Keys)
    BY <1>1 DEF RestWaits, TypedOK
  <2>2. 1 \in 1 .. Len(chunk) /\ 2 \in 1 .. Len(chunk)
    BY <1>2
  <2>3. chunk[1] = typed[Count + 1] /\ chunk[2] = typed[Count + 2]
    BY <1>1, <2>2 DEF RestWaits
  <2>4. QED BY <1>1, <2>1, <2>3
<1>4. /\ Decoded(typed)[Count + 1] = Decode(Decoded(typed)[Count], DetachByte)
      /\ Decoded(typed)[Count + 2] = Decode(Decoded(typed)[Count + 1], DetachByte)
  BY <1>2, <1>3, DecodedFcn
<1>5. Decoded(typed)[Count + 1] = [out |-> sent, half |-> TRUE, end |-> FALSE]
  BY <1>1, <1>4, DecodeOpen DEF Handled
<1>6. Decoded(typed)[Count + 2] = [out |-> Append(sent, DetachByte), half |-> FALSE, end |-> FALSE]
  BY <1>4, <1>5, DecodeOpen
<1>7. DetachByte \in Keys
  BY DEF Keys
<1>8. QED BY <1>1, <1>2, <1>6, <1>7, Forwards

LEMMA DetachKeeps == Inv /\ Detach => Inv'
<1> SUFFICES ASSUME Inv, Detach PROVE Inv'
  OBVIOUS
<1>1. /\ TypedOK /\ RestWaits /\ Handled /\ loop' = "detached" /\ chunk' = <<>>
      /\ UNCHANGED <<typed, tty, sent>>
  BY DEF Inv, Detach, Ended
<1>2. TypedOK'
  BY <1>1 DEF TypedOK, Ends
<1>3. SentIsMeant'
  BY <1>1, SentBeginsMeant DEF SentIsMeant, Meant
<1>4. Ended'
  BY <1>1 DEF Ended
<1>5. QED BY <1>2, <1>3, <1>4 DEF Inv

LEMMA InvKept == Inv /\ [Next]_vars => Inv'
<1> SUFFICES ASSUME Inv, [Next]_vars PROVE Inv'
  OBVIOUS
<1>1. loop \in Loops \cup Ends
  BY DEF Inv, TypedOK
<1>2. CASE HangUp \/ WindowChanges \/ JobReads \/ JobEnds \/ ResizerWakes \/ ResizerSets \/ UNCHANGED vars
  <2>1. UNCHANGED <<typed, tty, chunk, sent, loop>>
    BY <1>2 DEF HangUp, WindowChanges, JobReads, JobEnds, ResizerWakes, ResizerSets, vars, keyVars
  <2>2. QED BY <1>1, <2>1, KeysAlone
<1>3. CASE ReadSize \/ SetSize \/ Watch \/ InputEnds
  <2>1. UNCHANGED <<typed, tty, chunk, sent>> /\ loop' \in Loops \cup Ends /\ ~Ended
    BY <1>3 DEF ReadSize, SetSize, Watch, InputEnds, Reading, keyVars, Loops, Ends, Ended
  <2>2. chunk = <<>>
    BY <1>3 DEF ReadSize, SetSize, Watch, InputEnds, Reading, Inv, TypedOK
  <2>3. QED BY <2>1, <2>2, KeysAlone
<1>4. QED BY <1>2, <1>3, TypeKeeps, ReadKeeps, ForwardTextKeeps, ForwardEscapeKeeps, DetachKeeps DEF Next

-----------------------------------------------------------------------------

LEMMA AttachInv == Spec => []Inv
BY InitInv, InvKept, PTL DEF Spec

LEMMA InvSays == Inv => SentIsMeant /\ NothingHeldBack
<1> SUFFICES ASSUME Inv PROVE SentIsMeant /\ NothingHeldBack
  OBVIOUS
<1>1. SentIsMeant
  BY SentBeginsMeant DEF Inv
<1>2. ASSUME Reading, tty = <<>>
      PROVE  Meant = [out |-> sent, half |-> FALSE, end |-> FALSE]
  <2>1. ~Ended /\ Count = Len(typed)
    BY <1>2 DEF Reading, Ended, Inv, TypedOK, Count
  <2>2. QED BY <2>1 DEF Inv, Handled, Meant
<1>3. QED BY <1>1, <1>2 DEF NothingHeldBack

\* forwardChunk gives the job nothing but what is typed for it, in order, whatever chunks
\* the keys come in.
THEOREM JobGetsWhatIsMeant == Spec => []SentIsMeant
BY AttachInv, InvSays, PTL

\* When attachCopyLoop waits for a key, all that was typed has been forwarded.
THEOREM AllIsForwarded == Spec => []NothingHeldBack
BY AttachInv, InvSays, PTL
=============================================================================
