-------------------------- MODULE WireFormatProofs --------------------------
(***************************************************************************)
(* What the proofs about builders need of sequences and of messages.       *)
(***************************************************************************)
EXTENDS WireFormat, SequenceTheorems, TLAPS

\* The elements of a sequence are in its range.
LEMMA SequenceElements ==
    ASSUME NEW s, IsSequence(s)
    PROVE  /\ Len(s) \in Nat
           /\ DOMAIN s = 1 .. Len(s)
           /\ \A i \in 1 .. Len(s) : s[i] \in Elements(s)
  BY DEF IsSequence, Elements

\* A function on an initial segment of the naturals is a sequence.
LEMMA SegmentIsSequence ==
    ASSUME NEW n \in Nat, NEW f, f = [i \in 1 .. n |-> f[i]]
    PROVE  IsSequence(f) /\ Len(f) = n
  <1>1. f \in [1 .. n -> Elements(f)]
    BY DEF Elements
  <1>2. f \in Seq(Elements(f))
    BY <1>1, SeqDef
  <1>3. QED
    BY <1>1, <1>2 DEF IsSequence

\* So is a sequence of elements of some set.
LEMMA OfSet ==
    ASSUME NEW S, NEW t \in Seq(S)
    PROVE  IsSequence(t)
  <1>1. Len(t) \in Nat /\ t = [i \in 1 .. Len(t) |-> t[i]]
    BY LenProperties
  <1>2. QED
    BY <1>1, SegmentIsSequence

LEMMA EmptyIsSequence == IsSequence(<<>>) /\ Len(<<>>) = 0
  BY DEF IsSequence

\* What Append adds and what it keeps.
LEMMA Appended ==
    ASSUME NEW s, NEW e, IsSequence(s)
    PROVE  /\ IsSequence(Append(s, e))
           /\ Len(Append(s, e)) = Len(s) + 1
           /\ \A i \in 1 .. Len(s) : Append(s, e)[i] = s[i]
           /\ Append(s, e)[Len(s) + 1] = e
  <1> DEFINE t == Append(s, e)
  <1>1. s \in Seq(Elements(s)) /\ Len(s) \in Nat
    BY DEF IsSequence
  <1>2. s \in Seq(Elements(s) \cup {e})
    BY <1>1, SeqMonotonic
  <1>3. t \in Seq(Elements(s) \cup {e})
    BY <1>2
  <1>4. /\ Len(t) = Len(s) + 1
        /\ \A i \in 1 .. Len(s) : t[i] = s[i]
        /\ t[Len(s) + 1] = e
    BY <1>2
  <1>5. IsSequence(t)
    BY <1>3, OfSet
  <1>6. QED
    BY <1>4, <1>5

\* Changing an element keeps a sequence a sequence.
LEMMA Replaced ==
    ASSUME NEW s, NEW e, NEW k \in 1 .. Len(s), IsSequence(s),
           NEW t, t = [s EXCEPT ![k] = e]
    PROVE  /\ IsSequence(t)
           /\ Len(t) = Len(s)
           /\ t[k] = e
           /\ \A i \in 1 .. Len(s) \ {k} : t[i] = s[i]
  <1>1. Len(s) \in Nat /\ DOMAIN s = 1 .. Len(s)
    BY SequenceElements
  <1>2. t = [i \in 1 .. Len(s) |-> t[i]]
    BY <1>1
  <1>3. t[k] = e /\ \A i \in 1 .. Len(s) \ {k} : t[i] = s[i]
    BY <1>1
  <1>4. QED
    BY <1>1, <1>2, <1>3, SegmentIsSequence

\* What Message makes of a builder's fields.
LEMMA MessageFields ==
    ASSUME NEW r
    PROVE  /\ DOMAIN Message(r) = {g \in DOMAIN r : r[g] # Nil}
           /\ \A f \in DOMAIN Message(r) : Message(r)[f] = r[f]
  BY DEF Message

\* A nil pointer is not a message.
LEMMA MessageExists ==
    ASSUME NilIsNoMessage, NEW m, m = [x \in DOMAIN m |-> m[x]]
    PROVE  m # Nil
  BY DEF NilIsNoMessage
=============================================================================
