------------------------ MODULE AgentProviderSafety ------------------------
(***************************************************************************)
(* Theorems of AgentProtocol and AgentProvider, over conversations of any   *)
(* length, any answers and any number of clients: what the conversions keep *)
(* of the words of both sides, and what a client is sent.                   *)
(***************************************************************************)
EXTENDS AgentProvider, FiniteSetTheorems, SequenceTheorems, WellFoundedInduction, TLAPS

----------------------------------------------------------------------------
(* Induction up to a bound, for a set in place of a predicate.             *)

LEMMA UpTo ==
  ASSUME NEW n \in Nat, NEW S, 0 \in S, \A i \in 0 .. n - 1 : i \in S => i + 1 \in S
  PROVE  \A i \in 0 .. n : i \in S
<1> DEFINE T == {i \in 0 .. n : i \notin S}
<1>1. SUFFICES ASSUME T # {}
               PROVE  FALSE
  OBVIOUS
<1>2. T \subseteq Nat
  OBVIOUS
<1>3. PICK i \in T : \A j \in T : ~ (<<j, i>> \in OpToRel(<, Nat))
  BY <1>1, <1>2, NatLessThanWellFounded, WFMin
<1>4. \A j \in T : ~ (j < i)
  BY <1>2, <1>3 DEF OpToRel
<1>5. i \in 0 .. n /\ i \notin S /\ \A j \in 0 .. n : j \notin S => ~ (j < i)
  BY <1>3, <1>4
<1> HIDE DEF T
<1>6. i - 1 \in 0 .. n - 1 /\ i - 1 < i /\ i - 1 \in 0 .. n /\ i = i - 1 + 1
  BY <1>5
<1> QED
  BY <1>5, <1>6

----------------------------------------------------------------------------
(* The context optimizer.                                                  *)

\* The recursion of Kept is defined.
LEMMA KeptExists ==
  ASSUME NEW messages, Len(messages) \in Nat
  PROVE  \E f : f = [i \in 0 .. Len(messages) |->
                       IF i = 0 THEN <<>> ELSE Keep(f[i - 1], messages[i])]
<1> DEFINE n == Len(messages)
           Upto(m, f) == f = [i \in 0 .. m |-> IF i = 0 THEN <<>> ELSE Keep(f[i - 1], messages[i])]
           S == {m \in 0 .. n : \E f : Upto(m, f)}
<1>1. 0 \in S
  <2> DEFINE f == [i \in 0 .. 0 |-> <<>>]
  <2>1. Upto(0, f)
    OBVIOUS
  <2>2. 0 \in 0 .. n
    OBVIOUS
  <2> HIDE DEF Upto
  <2> QED
    BY <2>1, <2>2
<1>2. ASSUME NEW m \in 0 .. n - 1, m \in S
      PROVE  m + 1 \in S
  <2>1. PICK f : Upto(m, f)
    BY <1>2
  <2> DEFINE g == [i \in 0 .. m + 1 |-> IF i = m + 1 THEN Keep(f[m], messages[m + 1]) ELSE f[i]]
  <2>2. \A i \in 0 .. m + 1 : g[i] = IF i = 0 THEN <<>> ELSE Keep(g[i - 1], messages[i])
    <3> TAKE i \in 0 .. m + 1
    <3>1. CASE i = m + 1
      BY <3>1
    <3>2. CASE i # m + 1
      BY <2>1, <3>2
    <3> QED
      BY <3>1, <3>2
  <2>3. Upto(m + 1, g) /\ m + 1 \in 0 .. n
    BY <2>2
  <2> HIDE DEF Upto
  <2> QED
    BY <2>3
<1> HIDE DEF S
<1>3. n \in S
  <2>1. \A i \in 0 .. n : i \in S
    BY <1>1, <1>2, UpTo
  <2> QED
    BY <2>1
<1> QED
  BY <1>3 DEF S

LEMMA KeptSteps ==
  ASSUME NEW messages, Len(messages) \in Nat
  PROVE  /\ Kept(messages)[0] = <<>>
         /\ \A i \in 1 .. Len(messages) :
              Kept(messages)[i] = Keep(Kept(messages)[i - 1], messages[i])
<1> DEFINE f == Kept(messages)
<1>1. f = [i \in 0 .. Len(messages) |-> IF i = 0 THEN <<>> ELSE Keep(f[i - 1], messages[i])]
  BY KeptExists, Zenon DEF Kept
<1> HIDE DEF f
<1>2. f[0] = <<>> /\ \A i \in 1 .. Len(messages) : f[i] = Keep(f[i - 1], messages[i])
  BY <1>1
<1> QED
  BY <1>2 DEF f

\* What Keep does to the messages that are kept.
LEMMA KeepOne ==
  ASSUME NEW V, NEW kept \in Seq(V), NEW m, Normalized(m) \in V
  PROVE  /\ Keep(kept, m) \in Seq(V) /\ Len(Keep(kept, m)) \in Nat \ {0}
         /\ Keep(kept, m)[Len(Keep(kept, m))] = Normalized(m)
         /\ \A p \in 1 .. Len(kept) : Keep(kept, m)[p] = kept[p]
         /\ \/ Len(Keep(kept, m)) = Len(kept) + 1
            \/ Len(Keep(kept, m)) = Len(kept) /\ Deduplicable(m)
<1> DEFINE v == Normalized(m)
<1>1. Len(kept) \in Nat /\ (kept # <<>> => Len(kept) # 0)
  BY EmptySeq
<1>2. /\ Append(kept, v) \in Seq(V) /\ Len(Append(kept, v)) = Len(kept) + 1
      /\ Append(kept, v)[Len(kept) + 1] = v
      /\ \A p \in 1 .. Len(kept) : Append(kept, v)[p] = kept[p]
  BY AppendProperties
<1> HIDE DEF v
<1>3. CASE kept # <<>> /\ Deduplicable(m) /\ Last(kept) = v
  <2>1. Keep(kept, m) = kept
    BY <1>3 DEF Keep, v
  <2> QED
    BY <1>1, <1>3, <2>1 DEF Last, v
<1>4. CASE ~ (kept # <<>> /\ Deduplicable(m) /\ Last(kept) = v)
  <2>1. Keep(kept, m) = Append(kept, v)
    BY <1>4 DEF Keep, v
  <2> QED
    BY <1>1, <1>2, <2>1 DEF v
<1> QED
  BY <1>3, <1>4

\* The j-th message is where the messages that were kept up to it end. Every kept
\* message is one of those, and a message only shares its place with the one before
\* it when it may be removed.
Placed(messages, i) ==
  LET kept == Kept(messages) IN
    /\ kept[i] \in Seq({Normalized(messages[j]) : j \in 1 .. Len(messages)})
    /\ \A j \in 1 .. i : /\ Len(kept[j]) \in 1 .. Len(kept[i])
                         /\ kept[i][Len(kept[j])] = Normalized(messages[j])
    /\ \A p \in 1 .. Len(kept[i]) : \E j \in 1 .. i : Len(kept[j]) = p
    /\ i = 1 => Len(kept[i]) = 1
    /\ i > 1 => \/ Len(kept[i]) = Len(kept[i - 1]) + 1
                \/ Len(kept[i]) = Len(kept[i - 1]) /\ Deduplicable(messages[i])

LEMMA AllPlaced ==
  ASSUME NEW messages, Len(messages) \in Nat
  PROVE  \A i \in 0 .. Len(messages) : Placed(messages, i)
<1> DEFINE n == Len(messages)
           k == Kept(messages)
           V == {Normalized(messages[j]) : j \in 1 .. n}
           S == {i \in 0 .. n : Placed(messages, i)}
<1>1. k[0] = <<>> /\ \A i \in 1 .. n : k[i] = Keep(k[i - 1], messages[i])
  BY KeptSteps
<1>2. Placed(messages, 0)
  <2>1. k[0] \in Seq(V) /\ Len(k[0]) = 0
    BY <1>1
  <2> QED
    BY <2>1 DEF Placed
<1>3. ASSUME NEW i \in 0 .. n - 1, Placed(messages, i)
      PROVE  Placed(messages, i + 1)
  <2> DEFINE h == i + 1
             m == messages[h]
  <2>1. k[i] \in Seq(V) /\ Len(k[i]) \in Nat /\ h \in 1 .. n /\ Normalized(m) \in V
        /\ k[h] = Keep(k[i], m) /\ \A p \in 1 .. h : p = h \/ p \in 1 .. i
    BY <1>1, <1>3 DEF Placed
  <2>2. /\ k[h] \in Seq(V) /\ Len(k[h]) \in Nat \ {0} /\ k[h][Len(k[h])] = Normalized(m)
        /\ \A p \in 1 .. Len(k[i]) : k[h][p] = k[i][p]
        /\ \/ Len(k[h]) = Len(k[i]) + 1
           \/ Len(k[h]) = Len(k[i]) /\ Deduplicable(m)
    <3> HIDE DEF k, V, m
    <3>1. k[i] \in Seq(V) /\ Normalized(m) \in V
      BY <2>1
    <3>2. k[h] = Keep(k[i], m)
      BY <2>1
    <3> DEFINE next == Keep(k[i], m)
    <3>3. /\ next \in Seq(V) /\ Len(next) \in Nat \ {0} /\ next[Len(next)] = Normalized(m)
          /\ \A p \in 1 .. Len(k[i]) : next[p] = k[i][p]
          /\ Len(next) = Len(k[i]) + 1 \/ (Len(next) = Len(k[i]) /\ Deduplicable(m))
      BY <3>1, KeepOne
    <3> HIDE DEF next
    <3>4. k[h] = next
      BY <3>2 DEF next
    <3> HIDE DEF h
    <3> QED
      BY <3>3, <3>4
  <2>3. \A j \in 1 .. i : Len(k[j]) \in 1 .. Len(k[i]) /\ k[i][Len(k[j])] = Normalized(messages[j])
    BY <1>3 DEF Placed
  <2>4. \A p \in 1 .. Len(k[i]) : \E j \in 1 .. i : Len(k[j]) = p
    BY <1>3 DEF Placed
  <2> HIDE DEF k, V
  <2>5. ASSUME NEW j \in 1 .. h
        PROVE  Len(k[j]) \in 1 .. Len(k[h]) /\ k[h][Len(k[j])] = Normalized(messages[j])
    <3>1. CASE j = h
      BY <2>2, <3>1
    <3>2. CASE j \in 1 .. i
      <4>1. Len(k[j]) \in 1 .. Len(k[i]) /\ k[i][Len(k[j])] = Normalized(messages[j])
        BY <2>3, <3>2
      <4> HIDE DEF h, m
      <4> QED
        BY <2>1, <2>2, <4>1
    <3> QED
      BY <2>1, <3>1, <3>2
  <2>6. ASSUME NEW p \in 1 .. Len(k[h])
        PROVE  \E j \in 1 .. h : Len(k[j]) = p
    <3>1. CASE p = Len(k[h])
      BY <2>1, <3>1
    <3>2. CASE p # Len(k[h])
      <4>1. p \in 1 .. Len(k[i]) /\ \A j \in 1 .. i : j \in 1 .. h
        BY <2>1, <2>2, <3>2
      <4> QED
        BY <2>4, <4>1
    <3> QED
      BY <3>1, <3>2
  <2>7. i = 0 => Len(k[h]) = 1
    <3>1. i = 0 => Len(k[i]) = 0
      BY <1>1
    <3>2. Len(k[h]) \in Nat \ {0} /\ (Len(k[h]) = Len(k[i]) + 1 \/ Len(k[h]) = Len(k[i]))
      BY <2>2
    <3> DEFINE a == Len(k[i])
               b == Len(k[h])
    <3> HIDE DEF a, b
    <3>3. a = 0 /\ b \in Nat \ {0} /\ (b = a + 1 \/ b = a) => b = 1
      OBVIOUS
    <3> QED
      BY <3>1, <3>2, <3>3 DEF a, b
  <2> HIDE DEF h, m
  <2>8. /\ h = 1 => Len(k[h]) = 1
        /\ h > 1 => \/ Len(k[h]) = Len(k[h - 1]) + 1
                    \/ Len(k[h]) = Len(k[h - 1]) /\ Deduplicable(messages[h])
    BY <2>2, <2>7 DEF h, m
  <2>9. Placed(messages, h)
    BY <2>2, <2>5, <2>6, <2>8 DEF Placed, k, V
  <2> QED
    BY <2>9 DEF h
<1> QED
  <2>1. 0 \in S /\ \A i \in 0 .. n - 1 : i \in S => i + 1 \in S
    BY <1>2, <1>3
  <2> HIDE DEF S
  <2>2. \A i \in 0 .. n : i \in S
    BY <2>1, UpTo
  <2> QED
    BY <2>2 DEF S

\* Where the n messages are among the last of what is kept.
PlacesOf(messages, last, place) ==
  LET n == Len(messages) IN
    /\ last \in Seq({Normalized(messages[j]) : j \in 1 .. n})
    /\ place \in [1 .. n -> 1 .. Len(last)]
    /\ \A i \in 1 .. n : last[place[i]] = Normalized(messages[i])
    /\ \A p \in 1 .. Len(last) : \E i \in 1 .. n : place[i] = p
    /\ n > 0 => place[1] = 1 /\ place[n] = Len(last)
    /\ \A i \in 1 .. n \ {1} : \/ place[i] = place[i - 1] + 1
                               \/ place[i] = place[i - 1] /\ Deduplicable(messages[i])
    /\ \A j \in 1 .. n : \A i \in 1 .. j : place[i] <= place[j]

LEMMA PlacesExist ==
  ASSUME NEW messages, Len(messages) \in Nat
  PROVE  \E place : PlacesOf(messages, Kept(messages)[Len(messages)], place)
<1> DEFINE n == Len(messages)
           k == Kept(messages)
           place == [i \in 1 .. n |-> Len(k[i])]
<1>1. \A i \in 0 .. n : Placed(messages, i)
  BY AllPlaced
<1>2. k[n] \in Seq({Normalized(messages[j]) : j \in 1 .. n}) /\ n \in 0 .. n
  BY <1>1 DEF Placed
<1>3. ASSUME NEW j \in 1 .. n
      PROVE  /\ \A i \in 1 .. j : Len(k[i]) \in 1 .. Len(k[j])
             /\ j = 1 => Len(k[j]) = 1
             /\ j > 1 => \/ Len(k[j]) = Len(k[j - 1]) + 1
                         \/ Len(k[j]) = Len(k[j - 1]) /\ Deduplicable(messages[j])
  <2>1. Placed(messages, j)
    BY <1>1
  <2> QED
    BY <2>1 DEF Placed
<1>4. /\ \A i \in 1 .. n : Len(k[i]) \in 1 .. Len(k[n]) /\ k[n][Len(k[i])] = Normalized(messages[i])
      /\ \A p \in 1 .. Len(k[n]) : \E i \in 1 .. n : Len(k[i]) = p
  BY <1>1, <1>2 DEF Placed
<1> HIDE DEF k
<1>5. PlacesOf(messages, k[n], place)
  <2>1. place \in [1 .. n -> 1 .. Len(k[n])]
    BY <1>4
  <2>2. \A i \in 1 .. n : k[n][place[i]] = Normalized(messages[i])
    BY <1>4
  <2>3. \A p \in 1 .. Len(k[n]) : \E i \in 1 .. n : place[i] = p
    BY <1>4
  <2>4. n > 0 => place[1] = 1 /\ place[n] = Len(k[n])
    BY <1>3
  <2>5. ASSUME NEW i \in 1 .. n \ {1}
        PROVE  \/ place[i] = place[i - 1] + 1
               \/ place[i] = place[i - 1] /\ Deduplicable(messages[i])
    BY <1>3
  <2>6. \A j \in 1 .. n : \A i \in 1 .. j : place[i] <= place[j]
    BY <1>3
  <2> HIDE DEF place
  <2> QED
    BY <1>2, <2>1, <2>2, <2>3, <2>4, <2>5, <2>6 DEF PlacesOf
<1> QED
  BY <1>5 DEF k

LEMMA CallSequence ==
  ASSUME NEW calls \in RawCalls
  PROVE  /\ DOMAIN calls = 1 .. Len(calls) /\ Len(calls) \in Nat /\ calls = [k \in 1 .. Len(calls) |-> calls[k]]
         /\ \A k \in DOMAIN calls : calls[k] \in [id : STRING, name : STRING, args : RawArguments]
         /\ Len(calls) = 0 <=> calls = <<>>
<1> DEFINE R == [id : STRING, name : STRING, args : RawArguments]
<1>1. calls \in Seq(R)
  BY DEF RawCalls
<1> HIDE DEF R
<1>2. DOMAIN calls = 1 .. Len(calls) /\ Len(calls) \in Nat /\ \A k \in DOMAIN calls : calls[k] \in R
  BY <1>1
<1>3. calls = [k \in 1 .. Len(calls) |-> calls[k]]
  BY <1>1, <1>2
<1>4. Len(calls) = 0 <=> calls = <<>>
  BY <1>1, EmptySeq
<1> QED
  BY <1>2, <1>3, <1>4 DEF R

\* The calls of a message, in canonical form.
LEMMA CallsCanonical ==
  ASSUME NEW calls \in RawCalls
  PROVE  /\ CallIds(Calls(calls)) = CallIds(calls) /\ CallNames(Calls(calls)) = CallNames(calls)
         /\ DOMAIN Calls(calls) = DOMAIN calls /\ Len(Calls(calls)) = Len(calls)
         /\ \A k \in DOMAIN calls :
              Calls(calls)[k] = [id |-> calls[k].id, name |-> calls[k].name, args |-> Argument(calls[k].args)]
         /\ Calls(calls) \in RawCalls
         /\ CallsOK(calls) => CallsOK(Calls(calls)) /\ Calls(Calls(calls)) = Calls(calls)
<1> DEFINE d == Calls(calls)
<1>1. /\ DOMAIN calls = 1 .. Len(calls) /\ Len(calls) \in Nat
      /\ \A k \in DOMAIN calls : calls[k] \in [id : STRING, name : STRING, args : RawArguments]
  BY CallSequence
<1>2. \A a \in RawArguments : Argument(a) \in RawArguments
  BY DEF Argument, RawArguments
<1>3. /\ DOMAIN d = DOMAIN calls
      /\ \A k \in DOMAIN calls :
           /\ d[k] = [id |-> calls[k].id, name |-> calls[k].name, args |-> Argument(calls[k].args)]
           /\ d[k] \in [id : STRING, name : STRING, args : RawArguments]
           /\ d[k].id = calls[k].id /\ d[k].name = calls[k].name /\ d[k].args = Argument(calls[k].args)
  BY <1>1, <1>2 DEF Calls
<1> HIDE DEF d
<1>4. d \in RawCalls /\ Len(d) = Len(calls)
  <2>1. d = [k \in 1 .. Len(calls) |-> d[k]]
    BY <1>1 DEF d, Calls
  <2> QED
    BY <1>1, <1>3, <2>1 DEF RawCalls
<1>5. CallIds(d) = CallIds(calls) /\ CallNames(d) = CallNames(calls)
  BY <1>3 DEF CallIds, CallNames
<1>6. ASSUME CallsOK(calls) PROVE CallsOK(d) /\ Calls(d) = d
  <2>1. \A a \in RawArguments : ArgumentsOK(a) => ArgumentsOK(Argument(a)) /\ Argument(Argument(a)) = Argument(a)
    BY DEF ArgumentsOK, Argument, RawArguments
  <2>2. d # <<>> /\ Distinct(d)
    <3>1. calls # <<>> /\ Cardinality(CallIds(calls)) = Len(calls)
      BY <1>6 DEF CallsOK, Distinct
    <3>2. Len(calls) # 0
      BY <3>1, EmptySeq DEF RawCalls
    <3> QED
      BY <1>4, <1>5, <3>1, <3>2 DEF Distinct
  <2>3. \A k \in DOMAIN d : d[k].id # "" /\ d[k].name # "" /\ ArgumentsOK(d[k].args) /\ Argument(d[k].args) = d[k].args
    BY <1>1, <1>3, <1>6, <2>1 DEF CallsOK
  <2>4. ASSUME NEW k \in DOMAIN d PROVE [d[k] EXCEPT !.args = Argument(@)] = d[k]
    BY <1>3, <2>3
  <2>5. d = [k \in DOMAIN d |-> d[k]]
    BY <1>3 DEF d, Calls
  <2>6. Calls(d) = d
    BY <2>4, <2>5 DEF Calls
  <2> QED
    BY <2>2, <2>3, <2>6 DEF CallsOK
<1> QED
  BY <1>3, <1>4, <1>5, <1>6 DEF d

----------------------------------------------------------------------------
(* A request, decoded and optimized.                                       *)

\* The messages that a program sends, as the provider can read them.
Readable(sent) ==
  /\ sent \in Seq(RawMessageRecords) /\ \A i \in DOMAIN sent : CallsGiven(sent[i])
  /\ MessagesOK(sent)

Decoded(sent) == [i \in DOMAIN sent |-> Message(sent[i])]

LEMMA SentMessages ==
  ASSUME NEW sent, Readable(sent)
  PROVE  /\ Len(sent) \in Nat \ {0} /\ DOMAIN sent = 1 .. Len(sent)
         /\ Len(Decoded(sent)) = Len(sent)
         /\ \A i \in 1 .. Len(sent) :
              /\ Decoded(sent)[i] = Message(sent[i]) /\ sent[i] \in RawMessageRecords
              /\ CallsGiven(sent[i]) /\ MessageOK(sent[i], Known(sent, i))
              /\ CallIds(sent[i].calls) \cap Known(sent, i) = {}
<1>1. sent \in Seq(RawMessageRecords) /\ sent # <<>>
  BY DEF Readable, MessagesOK
<1>2. Len(sent) \in Nat \ {0} /\ DOMAIN sent = 1 .. Len(sent) /\ \A i \in 1 .. Len(sent) : sent[i] \in RawMessageRecords
  <2> HIDE DEF RawMessageRecords
  <2> QED
    BY <1>1, EmptySeq
<1>3. Decoded(sent) \in Seq({Message(sent[i]) : i \in 1 .. Len(sent)})
  BY <1>2 DEF Decoded
<1>4. Len(Decoded(sent)) = Len(sent)
  <2>1. DOMAIN Decoded(sent) = 1 .. Len(sent)
    BY <1>2 DEF Decoded
  <2> QED
    BY <1>2, <1>3, <2>1, LenProperties
<1> QED
  BY <1>2, <1>4 DEF Decoded, Readable, MessagesOK

\* What is kept of one message, whose result may have been normalized.
LEMMA KeptMessage ==
  ASSUME NEW m \in RawMessageRecords, CallsGiven(m), NEW known, MessageOK(m, known)
  PROVE  LET v == Normalized(Message(m)) IN
           /\ v.role = m.role /\ v.calls = Calls(m.calls) /\ v.ref = Message(m).ref
           /\ Message(m).role = m.role
           /\ MeansSame(m, v)
           /\ m.role \in Roles /\ m.calls \in RawCalls
           /\ IF m.role = "tool" THEN v.ref = m.ref /\ m.ref \in known ELSE v.ref = ""
           /\ m.calls # <<>> => m.role = "assistant" /\ CallsOK(m.calls)
<1> DEFINE w == Message(m)
           v == Normalized(w)
<1>1. /\ w.role = m.role /\ w.calls = Calls(m.calls)
      /\ w.ref = (IF m.role = "tool" THEN m.ref ELSE "")
      /\ w = [role |-> w.role, content |-> w.content, calls |-> w.calls, ref |-> w.ref]
  BY DEF Message
<1>2. m.role \in Roles /\ m.calls \in RawCalls /\ (m.role = "tool" => m.ref \in known)
  BY DEF RawMessageRecords, MessageOK
<1>3. m.calls # <<>> => m.role = "assistant" /\ CallsOK(m.calls)
  BY DEF CallsGiven, MessageOK
<1> HIDE DEF w
<1>4. /\ v.role = w.role /\ v.calls = w.calls /\ v.ref = w.ref
      /\ v.content = w.content \/ (w.role = "tool" /\ w.content = "JSON" /\ v.content = "json")
  BY <1>1 DEF Normalized
<1> HIDE DEF v
<1>5. MeansSame(m, v)
  BY <1>1, <1>4 DEF MeansSame, Meaning, w
<1> QED
  BY <1>1, <1>2, <1>3, <1>4, <1>5 DEF v, w

\* What WordsKept says of the messages of one request.
WordsOf(sent, kept) ==
  \E place \in [DOMAIN sent -> DOMAIN kept] :
    /\ place[1] = 1 /\ place[Len(sent)] = Len(kept)
    /\ \A i \in DOMAIN sent : MeansSame(sent[i], kept[place[i]])
    /\ \A i \in DOMAIN sent \ {1} :
         \/ place[i] = place[i - 1] + 1
         \/ place[i] = place[i - 1] /\ sent[i].role \notin {"user", "assistant"}

LEMMA OptimizerKeepsWords ==
  ASSUME NEW sent, Readable(sent)
  PROVE  WordsOf(sent, Kept(Decoded(sent))[Len(Decoded(sent))])
<1> DEFINE messages == Decoded(sent)
           n == Len(messages)
           last == Kept(messages)[n]
<1>1. n \in Nat \ {0} /\ DOMAIN sent = 1 .. n /\ Len(sent) = n
  BY SentMessages
<1>10. ASSUME NEW i \in 1 .. n
       PROVE  /\ messages[i] = Message(sent[i]) /\ messages[i].role = sent[i].role
              /\ MeansSame(sent[i], Normalized(messages[i]))
  <2>1. /\ messages[i] = Message(sent[i]) /\ sent[i] \in RawMessageRecords
        /\ CallsGiven(sent[i]) /\ MessageOK(sent[i], Known(sent, i))
    BY SentMessages, <1>1
  <2> HIDE DEF messages
  <2> QED
    BY <2>1, KeptMessage
<1>2. PICK place : PlacesOf(messages, last, place)
  BY <1>1, PlacesExist
<1> HIDE DEF last
<1>3. DOMAIN last = 1 .. Len(last)
  BY <1>2 DEF PlacesOf
<1>4. \A i \in 1 .. n : Deduplicable(messages[i]) => sent[i].role \notin {"user", "assistant"}
  BY <1>10 DEF Deduplicable
<1> HIDE DEF messages, n
<1>5. place \in [DOMAIN sent -> DOMAIN last]
  BY <1>1, <1>2, <1>3 DEF PlacesOf, n
<1>6. \A i \in 1 .. n : MeansSame(sent[i], last[place[i]])
  BY <1>1, <1>2, <1>10 DEF PlacesOf, n
<1>7. place[1] = 1 /\ place[n] = Len(last)
  BY <1>1, <1>2 DEF PlacesOf, n
<1>8. \A i \in 1 .. n \ {1} : \/ place[i] = place[i - 1] + 1
                              \/ place[i] = place[i - 1] /\ sent[i].role \notin {"user", "assistant"}
  BY <1>2, <1>4 DEF PlacesOf, n
<1>9. WordsOf(sent, last)
  BY <1>1, <1>5, <1>6, <1>7, <1>8 DEF WordsOf
<1> QED
  BY <1>9 DEF last, n, messages

\* What validateCanonicalConversation asks of the p-th message.
MessageEncodable(messages, p) ==
  LET m == messages[p] IN
    /\ m.role \in Roles
    /\ m.role = "tool" => m.ref \in Known(messages, p)
    /\ m.role # "tool" => m.ref = ""
    /\ m.calls # <<>> => m.role = "assistant" /\ Distinct(m.calls)
    /\ CallIds(m.calls) \cap Known(messages, p) = {}
    /\ "" \notin CallIds(m.calls) \cup CallNames(m.calls)

LEMMA KeptEncodable ==
  ASSUME NEW sent, Readable(sent), NEW place, NEW last, PlacesOf(Decoded(sent), last, place),
         NEW p \in 1 .. Len(last)
  PROVE  MessageEncodable(last, p)
<1> DEFINE n == Len(sent)
           Same(i) == /\ last[place[i]].role = sent[i].role
                      /\ last[place[i]].calls = Calls(sent[i].calls)
                      /\ sent[i].calls \in RawCalls
<1>1. /\ n \in Nat \ {0} /\ Len(Decoded(sent)) = n
      /\ \A i \in 1 .. n :
              /\ Decoded(sent)[i] = Message(sent[i]) /\ sent[i] \in RawMessageRecords
              /\ CallsGiven(sent[i]) /\ MessageOK(sent[i], Known(sent, i))
              /\ CallIds(sent[i].calls) \cap Known(sent, i) = {}
  BY SentMessages
<1>2. /\ place \in [1 .. n -> 1 .. Len(last)] /\ Len(last) \in Nat
      /\ \A i \in 1 .. n : last[place[i]] = Normalized(Decoded(sent)[i])
      /\ \A q \in 1 .. Len(last) : \E i \in 1 .. n : place[i] = q
      /\ \A j \in 1 .. n : \A i \in 1 .. j : place[i] <= place[j]
  BY <1>1 DEF PlacesOf
<1> HIDE DEF n
<1>3. ASSUME NEW i \in 1 .. n
      PROVE  /\ Same(i)
             /\ sent[i].role \in Roles
             /\ IF sent[i].role = "tool" THEN last[place[i]].ref = sent[i].ref /\ sent[i].ref \in Known(sent, i)
                                         ELSE last[place[i]].ref = ""
             /\ sent[i].calls # <<>> => sent[i].role = "assistant" /\ CallsOK(sent[i].calls)
             /\ CallIds(last[place[i]].calls) = CallIds(sent[i].calls)
             /\ CallIds(sent[i].calls) \cap Known(sent, i) = {}
  <2>1. /\ last[place[i]] = Normalized(Message(sent[i])) /\ sent[i] \in RawMessageRecords
        /\ CallsGiven(sent[i]) /\ MessageOK(sent[i], Known(sent, i))
    BY <1>1, <1>2
  <2>2. /\ Same(i) /\ sent[i].role \in Roles
        /\ IF sent[i].role = "tool" THEN last[place[i]].ref = sent[i].ref /\ sent[i].ref \in Known(sent, i)
                                    ELSE last[place[i]].ref = ""
        /\ sent[i].calls # <<>> => sent[i].role = "assistant" /\ CallsOK(sent[i].calls)
    BY <2>1, KeptMessage
  <2> QED
    BY <1>1, <2>2, CallsCanonical
<1>4. PICK i \in 1 .. n : place[i] = p
  BY <1>2
<1> DEFINE m == last[p]
<1>5. m.role = sent[i].role /\ m.calls = Calls(sent[i].calls) /\ CallIds(m.calls) = CallIds(sent[i].calls)
      /\ sent[i].calls \in RawCalls
  BY <1>3, <1>4
<1>6. m.role \in Roles /\ (m.role # "tool" => m.ref = "")
  BY <1>3, <1>4
<1>7. ASSUME m.role = "tool" PROVE m.ref \in Known(last, p)
  <2>1. m.ref = sent[i].ref /\ sent[i].ref \in Known(sent, i)
    BY <1>3, <1>4, <1>7
  <2>2. PICK j \in 1 .. i - 1 : sent[i].ref \in CallIds(sent[j].calls)
    BY <2>1 DEF Known
  <2>3. j \in 1 .. n /\ j \in 1 .. i
    BY <1>1 DEF n
  <2>4. sent[j].calls # <<>>
    BY <2>2 DEF CallIds
  <2>5. place[j] <= p /\ place[j] \in 1 .. Len(last)
    BY <1>2, <1>4, <2>3
  <2>6. place[j] # p
    BY <1>3, <1>7, <2>3, <2>4
  <2>7. place[j] \in 1 .. p - 1
    BY <1>2, <2>5, <2>6
  <2>8. CallIds(last[place[j]].calls) = CallIds(sent[j].calls)
    BY <1>3, <2>3
  <2>9. m.ref \in CallIds(last[place[j]].calls)
    BY <2>1, <2>2, <2>8
  <2> QED
    BY <2>7, <2>9 DEF Known
<1>8. m.calls # <<>> => /\ m.role = "assistant" /\ Distinct(m.calls)
                        /\ sent[i].calls # <<>> /\ CallsOK(m.calls)
  <2>1. ASSUME sent[i].calls = <<>> PROVE m.calls = <<>>
    BY <1>5, <2>1, CallsCanonical, EmptySeq DEF RawCalls
  <2>2. CASE sent[i].calls # <<>>
    <3>1. sent[i].role = "assistant" /\ CallsOK(m.calls)
      BY <1>3, <1>5, <2>2, CallsCanonical
    <3> QED
      BY <1>5, <2>2, <3>1 DEF CallsOK
  <2> QED
    BY <2>1, <2>2
<1>9. ASSUME NEW x \in CallIds(m.calls), x \in Known(last, p) PROVE FALSE
  <2>1. PICK q \in 1 .. p - 1 : x \in CallIds(last[q].calls)
    BY <1>9 DEF Known
  <2>2. PICK j \in 1 .. n : place[j] = q
    BY <1>2, <2>1
  <2>3. j \in 1 .. i - 1
    <3>1. ~ (i \in 1 .. j)
      BY <1>2, <1>4, <2>1, <2>2
    <3> QED
      BY <1>1, <3>1 DEF n
  <2>4. x \in CallIds(sent[j].calls)
    BY <1>3, <2>1, <2>2
  <2>5. x \in Known(sent, i)
    BY <2>3, <2>4 DEF Known
  <2> QED
    BY <1>3, <1>5, <1>9, <2>5
<1>10. "" \notin CallIds(m.calls) \cup CallNames(m.calls)
  <2>1. CASE m.calls = <<>>
    BY <2>1 DEF CallIds, CallNames
  <2>2. CASE m.calls # <<>>
    BY <1>8, <2>2 DEF CallsOK, CallIds, CallNames
  <2> QED
    BY <2>1, <2>2
<1> QED
  BY <1>6, <1>7, <1>8, <1>9, <1>10 DEF MessageEncodable

LEMMA OptimizerEncodable ==
  ASSUME NEW raw \in RawRequestRecords, \A i \in DOMAIN raw.messages : CallsGiven(raw.messages[i]),
         Decodable(raw)
  PROVE  LET conversation == Optimize(DecodeRequest(raw)) IN
           /\ Readable(raw.messages)
           /\ conversation.messages = Kept(Decoded(raw.messages))[Len(Decoded(raw.messages))]
           /\ Encodable(conversation)
<1> DEFINE sent == raw.messages
           messages == Decoded(sent)
           last == Kept(messages)[Len(messages)]
           conversation == Optimize(DecodeRequest(raw))
<1>1. Readable(sent) /\ ToolsOK(raw.tools)
  BY DEF Readable, RawRequestRecords, Decodable
<1>2. conversation.messages = last /\ conversation.tools = raw.tools
  BY DEF Optimize, DecodeRequest, Decoded
<1> HIDE DEF conversation, last
<1>3. Len(sent) \in Nat \ {0} /\ Len(messages) = Len(sent)
  BY <1>1, SentMessages
<1>4. PICK place : PlacesOf(messages, last, place)
  BY <1>3, PlacesExist DEF last
<1>5. DOMAIN last = 1 .. Len(last) /\ last # <<>>
  <2>1. DOMAIN last = 1 .. Len(last) /\ place[1] \in 1 .. Len(last)
    BY <1>3, <1>4 DEF PlacesOf
  <2> QED
    BY <2>1
<1>6. \A p \in DOMAIN last : MessageEncodable(last, p)
  BY <1>1, <1>4, <1>5, KeptEncodable
<1>7. Encodable(conversation)
  BY <1>1, <1>2, <1>5, <1>6 DEF Encodable, MessageEncodable
<1> QED
  BY <1>1, <1>2, <1>7 DEF conversation, last

----------------------------------------------------------------------------
(* A completion, as a body and as a stream.                                *)

\* What DecodeBridgeCompletion makes of an answer it accepts.
Canonical(c) ==
  /\ c = [content |-> c.content, calls |-> c.calls, finish |-> c.finish]
  /\ c.calls \in RawCalls /\ AnyContent(c.content) = c.content
  /\ c.calls # <<>> => CallsOK(c.calls) /\ c.finish = "tool_calls"
  /\ Calls(c.calls) = c.calls
  /\ c.calls = <<>> => c.content # ""
  /\ c.finish \in {"stop", "tool_calls", "length", "content_filter"}

LEMMA CompletionCanonical ==
  ASSUME NEW a \in RawAnswers, CallsGiven(a), AnswerOK(a)
  PROVE  Canonical(Completion(a))
<1> DEFINE c == Completion(a)
<1>1. /\ c = [content |-> c.content, calls |-> c.calls, finish |-> c.finish]
      /\ c.content = AnyContent(a.content) /\ c.calls = Calls(a.calls)
      /\ c.finish = IF a.finish # "" THEN a.finish ELSE IF a.called THEN "tool_calls" ELSE "stop"
  BY DEF Completion
<1>2. a.calls \in RawCalls /\ a.called \in BOOLEAN /\ a.content \in RawContents
  BY DEF RawAnswers
<1> HIDE DEF c
<1>3. AnyContent(c.content) = c.content
  BY <1>1, <1>2 DEF AnyContent, RawContents
<1>4. c.calls \in RawCalls /\ Len(c.calls) = Len(a.calls)
  BY <1>1, <1>2, CallsCanonical
<1>5. ASSUME a.called PROVE Canonical(c)
  <2>0. CallsOK(a.calls)
    BY <1>5 DEF AnswerOK
  <2>1. CallsOK(c.calls) /\ Calls(c.calls) = c.calls
    BY <1>1, <1>2, <2>0, CallsCanonical
  <2>3. c.calls # <<>>
    BY <2>1 DEF CallsOK
  <2>2. c.finish = "tool_calls"
    BY <1>1, <1>5 DEF AnswerOK
  <2> QED
    BY <1>1, <1>3, <1>4, <2>1, <2>2, <2>3 DEF Canonical
<1>6. ASSUME ~a.called PROVE Canonical(c)
  <2>1. a.calls = <<>> /\ c.content # ""
    BY <1>1, <1>6 DEF CallsGiven, AnswerOK
  <2>2. c.calls = <<>> /\ Calls(c.calls) = <<>>
    <3>1. Len(c.calls) = 0
      BY <1>4, <2>1
    <3>2. c.calls = <<>>
      BY <1>4, <3>1, EmptySeq DEF RawCalls
    <3> QED
      BY <1>1, <2>1, <3>2
  <2>3. c.finish \in {"stop", "tool_calls", "length", "content_filter"}
    BY <1>1, <1>6 DEF AnswerOK
  <2> QED
    BY <1>1, <1>3, <1>4, <2>1, <2>2, <2>3 DEF Canonical
<1> QED
  BY <1>2, <1>5, <1>6 DEF c

\* A body is read as the completion it was made of.
LEMMA BodyHeard ==
  ASSUME NEW c, Canonical(c)
  PROVE  AnswerOK(EncodeCompletion(c)) /\ Completion(EncodeCompletion(c)) = c
<1> DEFINE a == EncodeCompletion(c)
<1>1. a.content = c.content /\ a.calls = c.calls /\ a.finish = c.finish /\ (a.called <=> c.calls # <<>>)
  BY DEF EncodeCompletion
<1> HIDE DEF a
<1>2. AnswerOK(a)
  BY <1>1 DEF AnswerOK, Canonical
<1>3. Completion(a) = [content |-> c.content, calls |-> c.calls, finish |-> c.finish]
  BY <1>1 DEF Completion, Canonical
<1> QED
  BY <1>2, <1>3 DEF a, Canonical

\* The chunks of c, field by field.
ChunksOf(c, chunks) ==
  /\ DOMAIN chunks = {1, 2}
  /\ chunks[1].content = c.content /\ chunks[1].finish = ""
  /\ chunks[1].calls = [k \in DOMAIN c.calls |->
       [index |-> k - 1, id |-> c.calls[k].id, name |-> c.calls[k].name, args |-> c.calls[k].args]]
  /\ chunks[2].content = "" /\ chunks[2].finish = c.finish /\ chunks[2].calls = <<>>

LEMMA OnlyOne ==
  ASSUME NEW v PROVE Only({v}) = v /\ Cardinality({v}) = 1
BY FS_Singleton DEF Only

\* A text that came in one fragment.
LEMMA JoinedOne ==
  ASSUME NEW texts, NEW p \in DOMAIN texts, \A q \in DOMAIN texts : q # p => texts[q] = ""
  PROVE  Joined(texts) = texts[p]
<1> DEFINE parts == {k \in DOMAIN texts : texts[k] # ""}
<1>1. CASE texts[p] = ""
  BY <1>1 DEF Joined
<1>2. CASE texts[p] # ""
  <2>1. parts = {p}
    BY <1>2
  <2>2. parts # {} /\ Cardinality(parts) = 1 /\ Only(parts) = p
    BY <2>1, OnlyOne
  <2> QED
    BY <2>2, Zenon DEF Joined
<1> QED
  BY <1>1, <1>2

\* The numbers up to n, in their order.
LEMMA NthIndex ==
  ASSUME NEW n \in Nat, NEW k \in 1 .. n
  PROVE  Nth(0 .. n - 1, k) = k - 1
<1>1. \A i \in 0 .. n - 1 : {j \in 0 .. n - 1 : j < i} = 0 .. i - 1
  OBVIOUS
<1>2. \A i \in 0 .. n - 1 : Cardinality(0 .. i - 1) = i
  BY FS_Interval
<1>3. \A i \in 0 .. n - 1 : Cardinality({j \in 0 .. n - 1 : j < i}) = i
  BY <1>1, <1>2
<1>4. k - 1 \in 0 .. n - 1
  OBVIOUS
<1> QED
  BY <1>3, <1>4 DEF Nth

\* What a client joins of the chunks of a completion is that completion.
LEMMA ChunksAssemble ==
  ASSUME NEW c, Canonical(c), NEW chunks, ChunksOf(c, chunks)
  PROVE  Assembles(chunks) /\ Assembled(chunks) = EncodeCompletion(c)
<1> DEFINE calls == c.calls
           n == Len(calls)
           indexes == Indexes(chunks)
           Delta(k) == [index |-> k - 1, id |-> calls[k].id, name |-> calls[k].name, args |-> calls[k].args]
<1>0. calls \in RawCalls /\ Calls(calls) = calls /\ (calls # <<>> => CallsOK(calls))
  BY DEF Canonical
<1>1. n \in Nat /\ DOMAIN calls = 1 .. n /\ calls = [k \in 1 .. n |-> calls[k]] /\ (n = 0 <=> calls = <<>>)
  <2> HIDE DEF calls
  <2> QED
    BY <1>0, CallSequence
<1>3. DOMAIN chunks = {1, 2} /\ chunks[1].calls = [k \in 1 .. n |-> Delta(k)] /\ chunks[2].calls = <<>>
  BY <1>1 DEF ChunksOf
<1> HIDE DEF calls, n
<1>2. \A k \in 1 .. n :
        /\ calls[k] = [id |-> calls[k].id, name |-> calls[k].name, args |-> calls[k].args]
        /\ calls[k].id # "" /\ calls[k].name # ""
  <2>1. \A k \in DOMAIN calls :
          Calls(calls)[k] = [id |-> calls[k].id, name |-> calls[k].name, args |-> Argument(calls[k].args)]
    BY <1>0, CallsCanonical
  <2>2. ASSUME NEW k \in 1 .. n
        PROVE  calls[k] = [id |-> calls[k].id, name |-> calls[k].name, args |-> calls[k].args]
    <3> DEFINE v == calls[k]
               w == Argument(v.args)
    <3>1. v = [id |-> v.id, name |-> v.name, args |-> w]
      BY <1>0, <1>1, <2>1
    <3> HIDE DEF v, w
    <3> QED
      BY <3>1 DEF v
  <2>3. ASSUME NEW k \in 1 .. n
        PROVE  calls[k].id # "" /\ calls[k].name # ""
    <3>1. CallsOK(calls)
      <4>1. n # 0
        BY <1>1
      <4> QED
        BY <1>0, <1>1, <4>1
    <3> QED
      BY <1>1, <3>1 DEF CallsOK
  <2> QED
    BY <2>2, <2>3
<1>20. Places(chunks) = {<<1, k>> : k \in 1 .. n}
  <2>1. DOMAIN chunks[1].calls = 1 .. n /\ DOMAIN chunks[2].calls = {}
    BY <1>3
  <2>2. Places(chunks) = ({1} \X DOMAIN chunks[1].calls) \cup ({2} \X DOMAIN chunks[2].calls)
    BY <1>3 DEF Places
  <2> QED
    BY <2>1, <2>2
<1>4. ASSUME NEW k \in 1 .. n
      PROVE  /\ Fragment(chunks, <<1, k>>) = Delta(k)
             /\ Delta(k).index = k - 1 /\ Delta(k).id = calls[k].id /\ Delta(k).name = calls[k].name
             /\ Delta(k).args = calls[k].args
  BY <1>3 DEF Fragment
<1> HIDE DEF Delta
<1>5. indexes = 0 .. n - 1
  <2>1. indexes = {Fragment(chunks, <<1, k>>).index : k \in 1 .. n}
    BY <1>20, Zenon DEF Indexes
  <2>2. \A i : i \in indexes <=> \E k \in 1 .. n : i = k - 1
    BY <1>4, <2>1
  <2>3. \A i : (\E k \in 1 .. n : i = k - 1) <=> i \in 0 .. n - 1
    <3>1. ASSUME NEW i \in 0 .. n - 1 PROVE \E k \in 1 .. n : i = k - 1
      <4>1. i + 1 \in 1 .. n /\ i = i + 1 - 1
        BY <1>1
      <4> QED
        BY <4>1
    <3>2. \A k \in 1 .. n : k - 1 \in 0 .. n - 1
      BY <1>1
    <3> QED
      BY <3>1, <3>2
  <2> QED
    BY <2>2, <2>3
<1>6. ASSUME NEW k \in 1 .. n
      PROVE  OfCall(chunks, k - 1) = {<<1, k>>}
  <2>1. ASSUME NEW i \in 1 .. n
        PROVE  Fragment(chunks, <<1, i>>).index = k - 1 <=> i = k
    <3>1. Fragment(chunks, <<1, i>>).index = i - 1
      BY <1>4
    <3> QED
      BY <1>1, <3>1
  <2> QED
    BY <1>20, <2>1 DEF OfCall
<1>7. ASSUME NEW k \in 1 .. n
      PROVE  /\ Values(chunks, k - 1, "id") = {calls[k].id}
             /\ Values(chunks, k - 1, "name") = {calls[k].name}
  <2>1. \A field : Values(chunks, k - 1, field) = {Fragment(chunks, <<1, k>>)[field]} \ {""}
    BY <1>6 DEF Values
  <2>2. Fragment(chunks, <<1, k>>)["id"] = calls[k].id /\ Fragment(chunks, <<1, k>>)["name"] = calls[k].name
    BY <1>4
  <2> QED
    BY <1>2, <2>1, <2>2
<1>8. ASSUME NEW k \in 1 .. n
      PROVE  AssembledCall(chunks, k - 1) = calls[k]
  <2> DEFINE texts == [p \in OfCall(chunks, k - 1) |-> Fragment(chunks, p).args]
  <2>1. Only(Values(chunks, k - 1, "id")) = calls[k].id /\ Only(Values(chunks, k - 1, "name")) = calls[k].name
    BY <1>7, OnlyOne
  <2>2. DOMAIN texts = {<<1, k>>} /\ texts[<<1, k>>] = calls[k].args
    BY <1>4, <1>6
  <2> HIDE DEF texts
  <2>3. Joined(texts) = calls[k].args
    BY <2>2, JoinedOne
  <2>4. AssembledCall(chunks, k - 1) = [id |-> calls[k].id, name |-> calls[k].name, args |-> calls[k].args]
    BY <2>1, <2>3 DEF AssembledCall, texts
  <2> QED
    BY <1>2, <2>4
<1> HIDE DEF indexes
<1>9. Cardinality(indexes) = n /\ \A k \in 1 .. n : Nth(indexes, k) = k - 1
  <2>1. Cardinality(0 .. n - 1) = n
    BY <1>1, FS_Interval
  <2>2. \A k \in 1 .. n : Nth(0 .. n - 1, k) = k - 1
    BY <1>1, NthIndex
  <2> QED
    BY <1>5, <2>1, <2>2
<1>10. [k \in 1 .. Cardinality(indexes) |-> AssembledCall(chunks, Nth(indexes, k))] = calls
  BY <1>1, <1>8, <1>9
<1>11. (indexes # {}) = (calls # <<>>)
  <2>1. 0 .. n - 1 = {} <=> n = 0
    BY <1>1
  <2> QED
    BY <1>1, <1>5, <2>1
<1>12. Joined([i \in DOMAIN chunks |-> chunks[i].content]) = c.content
  <2> DEFINE texts == [i \in DOMAIN chunks |-> chunks[i].content]
  <2>1. 1 \in DOMAIN texts /\ texts[1] = c.content /\ \A q \in DOMAIN texts : q # 1 => texts[q] = ""
    BY DEF ChunksOf
  <2> HIDE DEF texts
  <2>2. Joined(texts) = c.content
    BY <2>1, JoinedOne
  <2> QED
    BY <2>2 DEF texts
<1>13. Finishes(chunks) = {c.finish}
  <2>1. {chunks[i].finish : i \in DOMAIN chunks} = {chunks[1].finish, chunks[2].finish}
    BY <1>3
  <2>2. chunks[1].finish = "" /\ chunks[2].finish = c.finish /\ c.finish # ""
    BY DEF ChunksOf, Canonical
  <2> QED
    BY <2>1, <2>2 DEF Finishes
<1>14. Finishes(chunks) # {} /\ Only(Finishes(chunks)) = c.finish /\ Cardinality(Finishes(chunks)) = 1
  BY <1>13, OnlyOne
<1>15. Assembled(chunks) = EncodeCompletion(c)
  BY <1>10, <1>11, <1>12, <1>14 DEF Assembled, EncodeCompletion, indexes, calls
<1>16. ASSUME NEW i \in Indexes(chunks)
       PROVE  Cardinality(Values(chunks, i, "id")) = 1 /\ Cardinality(Values(chunks, i, "name")) = 1
  <2>1. PICK k \in 1 .. n : i = k - 1
    <3>1. i \in 0 .. n - 1
      BY <1>5 DEF indexes
    <3>2. i + 1 \in 1 .. n
      BY <1>1, <3>1
    <3> WITNESS i + 1 \in 1 .. n
    <3> QED
      BY <1>1, <3>1
  <2> QED
    BY <1>7, <2>1, OnlyOne
<1> QED
  BY <1>14, <1>15, <1>16, BodyHeard DEF Assembles

----------------------------------------------------------------------------
(* The invariant. Of one client: p is the promise to it, at where its        *)
(* handler stands, w its waiter, more what is still to be written to it, got *)
(* what it has got, and left whether it has left.                           *)

Live == {"open", "settled", "failed"}

\* A completion comes with settling and stays; the answer is it or none.
PromiseOK(p) ==
  /\ p \in Broker!Promises
  /\ p.phase = "new" => p = Broker!New
  /\ p.phase \in {"new", "open", "failed"} => p.completion = NoCompletion
  /\ p.phase = "settled" => p.completion # NoCompletion
  /\ p.phase # "answered" => p.answer = NoCompletion
  /\ p.answer # NoCompletion => p.answer = p.completion

\* The errors there are. One that is not for giving up is for a request that got no
\* completion.
Codes(p) ==
  {"gave up"} \cup (IF p.completion = NoCompletion THEN {"bad request", "unavailable", "busy", "failed"} ELSE {})

\* The waiter of a stream waits for what the broker has promised, and puts in the
\* channel what was answered.
WaiterOK(p, w) ==
  /\ w \in {"none", "waiting"} \cup WaitResults
  /\ w = "waiting" => p.phase \in Live
  /\ w \in WaitResults => p.phase = "answered"
  /\ w = "answered" => p.answer # NoCompletion
  /\ w \in {"failed", "gave up"} => p.answer = NoCompletion /\ w \in Codes(p)

\* The replies there are: each of them is one of these scripts.
Opening == Event("open", "")
Done == Event("done", "")
ErrorScripts(p) ==
  {<<Event("error", code)>> : code \in Codes(p)}
    \cup {<<Opening, Event("error", code), Done>> : code \in Codes(p)}
BodyScript(c) == <<Event("body", EncodeCompletion(c))>>
StreamScript(c) ==
  <<Opening, Event("chunk", EncodeStreamChunk(Chunks(c)[1])), Event("chunk", EncodeStreamChunk(Chunks(c)[2])), Done>>

Scripts(p) ==
  IF p.phase \notin {"new", "answered"} THEN {}
  ELSE IF p.answer = NoCompletion THEN ErrorScripts(p)
  ELSE {BodyScript(p.answer), StreamScript(p.answer)}

\* n events of the script s are written, of which the client has got the first m.
Part(s, n, m, more, got, left) ==
  /\ more = SubSeq(s, n + 1, Len(s)) /\ got = SubSeq(s, 1, m)
  /\ m <= n /\ (~left => m = n)
Written(p, more, got, left) ==
  \E s \in Scripts(p) : \E n, m \in 0 .. Len(s) : Part(s, n, m, more, got, left)

Stage(p, at, w, more, got, left) ==
  /\ PromiseOK(p) /\ WaiterOK(p, w)
  /\ at \in {"idle", "reading", "waiting", "opening", "selecting", "writing", "over"}
  /\ at \in {"idle", "reading"} => p = Broker!New
  /\ at \in {"waiting", "opening"} => p.phase \in Live
  /\ at \in {"idle", "reading", "waiting", "opening"} => w = "none" /\ more = <<>> /\ got = <<>>
  /\ at = "selecting" => w # "none" /\ more = <<>> /\ (got = <<Opening>> \/ (left /\ got = <<>>))
  /\ at = "writing" => w = "none" /\ more # <<>> /\ Written(p, more, got, left)
  /\ at = "over" => /\ more = <<>>
                    /\ \/ left /\ got \in {<<>>, <<Opening>>}
                       \/ w = "none" /\ Written(p, more, got, left)

\* What is asked is decoded, and enqueued as the optimizer leaves it.
AskedOK(raw, conversation) ==
  raw # Nothing =>
    /\ raw \in RawRequests /\ Decodable(raw)
    /\ conversation.messages = Optimize(DecodeRequest(raw)).messages

ServerOK ==
  /\ provider \in [state : {"stopped", "running", "failed"}, server : BOOLEAN, open : BOOLEAN, error : BOOLEAN]
  /\ closing \in {"no", "broker", "only broker", "shutdown", "draining", "done"}
  /\ provider.server => closing = "no"
  /\ provider.state = "running" => provider.open \/ closing = "draining"
  /\ down \in BOOLEAN

IsFcn(f) == f = [c \in Clients |-> f[c]]
Shapes ==
  /\ IsFcn(promise) /\ IsFcn(pc) /\ IsFcn(waiter) /\ IsFcn(pending) /\ IsFcn(reply)
  /\ IsFcn(asked) /\ IsFcn(payload)
  /\ gone \in [Clients -> BOOLEAN] /\ ticks \in [Clients -> 0 .. MaxKeepalives]

ProviderInv ==
  /\ Shapes /\ ServerOK
  /\ \A c \in Clients : Stage(promise[c], pc[c], waiter[c], pending[c], reply[c], gone[c])
  /\ \A c \in Clients : AskedOK(asked[c], payload[c])

----------------------------------------------------------------------------
(* Steps of one client.                                                    *)

\* Nothing of f has changed but what it says of c.
OnlyAt(f, g, c) == IsFcn(g) /\ \A d \in Clients \ {c} : g[d] = f[d]

LEMMA OnlyAtSame ==
  ASSUME NEW f, IsFcn(f), NEW c \in Clients
  PROVE  OnlyAt(f, f, c)
BY DEF OnlyAt

\* c gets the value v.
Sets(f, g, c, v) == g = [f EXCEPT ![c] = v]

LEMMA OnlyAtSet ==
  ASSUME NEW f, IsFcn(f), NEW c \in Clients, NEW v, NEW g, Sets(f, g, c, v)
  PROVE  OnlyAt(f, g, c) /\ g[c] = v
<1>1. g = [d \in Clients |-> IF d = c THEN v ELSE f[d]]
  BY DEF IsFcn, Sets
<1>2. g[c] = v /\ \A d \in Clients \ {c} : g[d] = f[d]
  BY <1>1
<1>3. IsFcn(g)
  BY <1>1 DEF IsFcn
<1> QED
  BY <1>2, <1>3 DEF OnlyAt

\* A step of client c, in which only what is said of it has changed.
Framed(c) ==
  /\ OnlyAt(promise, promise', c) /\ OnlyAt(pc, pc', c) /\ OnlyAt(waiter, waiter', c)
  /\ OnlyAt(pending, pending', c) /\ OnlyAt(reply, reply', c)
  /\ gone' \in [Clients -> BOOLEAN] /\ \A d \in Clients \ {c} : gone'[d] = gone[d]
  /\ ticks' \in [Clients -> 0 .. MaxKeepalives]
Request(c) ==
  OnlyAt(asked, asked', c) /\ OnlyAt(payload, payload', c) /\ AskedOK(asked'[c], payload'[c])
Staged(c) == Stage(promise'[c], pc'[c], waiter'[c], pending'[c], reply'[c], gone'[c])

LEMMA ClientMoves ==
  ASSUME ProviderInv, NEW c \in Clients, UNCHANGED serverVars, Framed(c), Request(c), Staged(c)
  PROVE  ProviderInv'
<1>1. Shapes'
  BY DEF Framed, Request, OnlyAt, Shapes
<1>2. ServerOK'
  BY DEF ProviderInv, ServerOK, serverVars
<1>3. ASSUME NEW d \in Clients
      PROVE  Stage(promise[d], pc[d], waiter[d], pending[d], reply[d], gone[d])'
  <2>1. CASE d = c
    BY <2>1 DEF Staged
  <2>2. CASE d # c
    <3>1. /\ promise'[d] = promise[d] /\ pc'[d] = pc[d] /\ waiter'[d] = waiter[d]
          /\ pending'[d] = pending[d] /\ reply'[d] = reply[d] /\ gone'[d] = gone[d]
      BY <2>2 DEF Framed, OnlyAt
    <3> QED
      BY <3>1 DEF ProviderInv
  <2> QED
    BY <2>1, <2>2
<1>4. ASSUME NEW d \in Clients
      PROVE  AskedOK(asked[d], payload[d])'
  <2>1. CASE d = c
    BY <2>1 DEF Request
  <2>2. CASE d # c
    <3>1. asked'[d] = asked[d] /\ payload'[d] = payload[d]
      BY <2>2 DEF Request, OnlyAt
    <3> QED
      BY <3>1 DEF ProviderInv
  <2> QED
    BY <2>1, <2>2
<1> QED
  BY <1>1, <1>2, <1>3, <1>4 DEF ProviderInv

\* What is asked stays, or is given up.
LEMMA RequestKept ==
  ASSUME ProviderInv, NEW c \in Clients, UNCHANGED <<asked, payload>>
  PROVE  Request(c)
BY OnlyAtSame DEF ProviderInv, Shapes, Request

LEMMA RequestDropped ==
  ASSUME ProviderInv, NEW c \in Clients, NEW q, Becomes(c, q)
  PROVE  /\ Request(c) /\ OnlyAt(promise, promise', c) /\ promise'[c] = q
<1>1. IsFcn(asked) /\ IsFcn(payload) /\ IsFcn(promise)
  BY DEF ProviderInv, Shapes
<1>0. Sets(promise, promise', c, q) /\ Sets(asked, asked', c, Nothing)
        /\ Sets(payload, payload', c, [payload[c] EXCEPT !.messages = <<>>])
  BY <1>1 DEF Becomes, Sets, IsFcn
<1>2. OnlyAt(promise, promise', c) /\ promise'[c] = q
  BY <1>0, <1>1, OnlyAtSet
<1>3. OnlyAt(asked, asked', c) /\ asked'[c] = Nothing
  BY <1>0, <1>1, OnlyAtSet
<1>4. OnlyAt(payload, payload', c)
  BY <1>0, <1>1, OnlyAtSet
<1> QED
  BY <1>2, <1>3, <1>4 DEF Request, AskedOK

----------------------------------------------------------------------------
(* The promise of a request.                                               *)

LEMMA CompletionsKnown ==
  NoCompletion \notin Completions /\ \A v \in Completions : Canonical(v)
<1>1. ASSUME NEW a \in Answers, AnswerOK(a)
      PROVE  Canonical(Completion(a))
  BY <1>1, ProviderAssumption, CompletionCanonical
<1> QED
  BY <1>1, ProviderAssumption DEF Completions

LEMMA NewPromise ==
  /\ Broker!New.phase = "new" /\ PromiseOK(Broker!New) /\ Broker!New.answer = NoCompletion
  /\ Broker!New.completion = NoCompletion
  /\ LET q == [Broker!New EXCEPT !.phase = "open"]
     IN  PromiseOK(q) /\ q.phase = "open" /\ q.answer = NoCompletion
BY DEF PromiseOK, Broker!New, Broker!Promises, Broker!Phases

\* What the agent does to a request that is open.
LEMMA AgentStep ==
  ASSUME NEW p, PromiseOK(p), NEW q, Broker!Hand(p, q) \/ Broker!Fail(p, q) \/ Broker!Settle(p, q)
  PROVE  p.phase \in Live /\ PromiseOK(q) /\ q.phase \in Live
<1>1. p.phase = "open"
  BY DEF Broker!Hand, Broker!Fail, Broker!Settle
<1>2. p \in Broker!Promises /\ p.completion = NoCompletion /\ p.answer = NoCompletion /\ p.phase \in Live
  BY <1>1 DEF PromiseOK, Live
<1>3. CASE q = [p EXCEPT !.handed = TRUE]
  <2>1. q \in Broker!Promises /\ q.phase = "open" /\ q.completion = NoCompletion /\ q.answer = NoCompletion
    BY <1>1, <1>2, <1>3 DEF Broker!Promises, Broker!Phases
  <2> QED
    BY <1>2, <2>1 DEF PromiseOK, Live
<1>4. CASE q = [p EXCEPT !.phase = "failed"]
  <2>1. q \in Broker!Promises /\ q.phase = "failed" /\ q.completion = NoCompletion /\ q.answer = NoCompletion
    BY <1>2, <1>4 DEF Broker!Promises, Broker!Phases
  <2> QED
    BY <1>2, <2>1 DEF PromiseOK, Live
<1>5. ASSUME NEW v \in Completions, q = [p EXCEPT !.phase = "settled", !.completion = v]
      PROVE  PromiseOK(q) /\ q.phase \in Live
  <2>1. q \in Broker!Promises /\ q.phase = "settled" /\ q.completion = v /\ q.answer = NoCompletion
    BY <1>2, <1>5 DEF Broker!Promises, Broker!Phases
  <2>2. v # NoCompletion
    BY CompletionsKnown
  <2> QED
    BY <2>1, <2>2 DEF PromiseOK, Live
<1> QED
  BY <1>2, <1>3, <1>4, <1>5 DEF Broker!Hand, Broker!Fail, Broker!Settle

\* The client is answered, with the completion or with none.
LEMMA AnswerStep ==
  ASSUME NEW p, PromiseOK(p), p.phase \in Live
  PROVE  /\ LET q == [p EXCEPT !.phase = "answered"]
            IN  /\ PromiseOK(q) /\ q.phase = "answered" /\ q.answer = NoCompletion
                /\ q.completion = p.completion
         /\ LET q == [p EXCEPT !.phase = "answered", !.answer = p.completion]
            IN  p.phase = "settled" => /\ PromiseOK(q) /\ q.phase = "answered"
                                       /\ q.answer = p.completion /\ q.answer # NoCompletion
<1>1. p \in Broker!Promises /\ p.answer = NoCompletion /\ (p.phase = "settled" => p.completion # NoCompletion)
  BY DEF PromiseOK, Live
<1>2. ASSUME NEW q, q = [p EXCEPT !.phase = "answered"]
      PROVE  PromiseOK(q) /\ q.phase = "answered" /\ q.answer = NoCompletion /\ q.completion = p.completion
  <2>1. q \in Broker!Promises /\ q.phase = "answered" /\ q.answer = NoCompletion /\ q.completion = p.completion
    BY <1>1, <1>2 DEF Broker!Promises, Broker!Phases
  <2> QED
    BY <2>1 DEF PromiseOK
<1>3. ASSUME NEW q, q = [p EXCEPT !.phase = "answered", !.answer = p.completion], p.phase = "settled"
      PROVE  PromiseOK(q) /\ q.phase = "answered" /\ q.answer = p.completion /\ q.answer # NoCompletion
  <2>1. q \in Broker!Promises /\ q.phase = "answered" /\ q.answer = p.completion /\ q.completion = p.completion
    BY <1>1, <1>3 DEF Broker!Promises, Broker!Phases
  <2> QED
    BY <1>1, <1>3, <2>1 DEF PromiseOK
<1> QED
  BY <1>2, <1>3

\* A client that waits for its promise stays where it is when the promise is another
\* one to wait for; one whose reply is written has no more to wait for.
LEMMA PromiseMoves ==
  ASSUME NEW p, NEW at, NEW w, NEW more, NEW got, NEW left, Stage(p, at, w, more, got, left),
         p.phase \in Live, NEW q, PromiseOK(q), q.phase \in Live
  PROVE  Stage(q, at, w, more, got, left)
<1>1. Scripts(p) = {} /\ p # Broker!New /\ p.phase # "answered"
  BY NewPromise DEF Scripts, Live
<1>2. ~Written(p, more, got, left)
  BY <1>1 DEF Written
<1>3. WaiterOK(q, w)
  BY <1>1 DEF Stage, WaiterOK
<1> QED
  BY <1>1, <1>2, <1>3 DEF Stage

----------------------------------------------------------------------------
(* Writing a script.                                                       *)

LEMMA ScriptSequence ==
  ASSUME NEW p, NEW s \in Scripts(p)
  PROVE  s \in Seq({s[i] : i \in 1 .. Len(s)}) /\ Len(s) \in Nat /\ 1 \in 1 .. Len(s)
<1> DEFINE One(s0) == \E a : s0 = <<a>>
           Three(s0) == \E a, b, d : s0 = <<a, b, d>>
           Four(s0) == \E a, b, d, e : s0 = <<a, b, d, e>>
<1>1. One(s) \/ Three(s) \/ Four(s)
  <2>1. CASE s \in ErrorScripts(p)
    BY <2>1 DEF ErrorScripts
  <2>2. CASE s = BodyScript(p.answer)
    BY <2>2 DEF BodyScript
  <2>3. CASE s = StreamScript(p.answer)
    BY <2>3 DEF StreamScript
  <2> QED
    BY <2>1, <2>2, <2>3 DEF Scripts
<1>2. CASE One(s)
  <2>1. PICK a : s = <<a>>
    BY <1>2
  <2>2. s \in Seq({a}) /\ Len(s) = 1 /\ s[1] = a
    BY <2>1
  <2>3. {s[i] : i \in 1 .. Len(s)} = {a}
    BY <2>2
  <2> QED
    BY <2>2, <2>3
<1>3. CASE Three(s)
  <2>1. PICK a, b, d : s = <<a, b, d>>
    BY <1>3
  <2>2. s \in Seq({a, b, d}) /\ Len(s) = 3 /\ s[1] = a /\ s[2] = b /\ s[3] = d
    BY <2>1
  <2>3. {s[i] : i \in 1 .. Len(s)} = {a, b, d}
    BY <2>2
  <2> QED
    BY <2>2, <2>3
<1>4. CASE Four(s)
  <2>1. PICK a, b, d, e : s = <<a, b, d, e>>
    BY <1>4
  <2>2. s \in Seq({a, b, d, e}) /\ Len(s) = 4 /\ s[1] = a /\ s[2] = b /\ s[3] = d /\ s[4] = e
    BY <2>1
  <2>3. {s[i] : i \in 1 .. Len(s)} = {a, b, d, e}
    BY <2>2
  <2> QED
    BY <2>2, <2>3
<1> QED
  BY <1>1, <1>2, <1>3, <1>4

\* Nothing of the script is written yet.
LEMMA WritingBegins ==
  ASSUME NEW p, NEW s \in Scripts(p), NEW left
  PROVE  Written(p, s, <<>>, left) /\ s # <<>>
<1>1. s \in Seq({s[i] : i \in 1 .. Len(s)}) /\ Len(s) \in Nat /\ 1 \in 1 .. Len(s)
  BY ScriptSequence
<1>2. SubSeq(s, 1, Len(s)) = s
  BY <1>1, SubSeqFull
<1>3. SubSeq(s, 1, 0) = <<>>
  BY SubSeqEmpty
<1>4. Part(s, 0, 0, s, <<>>, left) /\ 0 \in 0 .. Len(s)
  BY <1>1, <1>2, <1>3 DEF Part
<1>5. s # <<>>
  BY <1>1
<1> QED
  BY <1>4, <1>5 DEF Written

\* The next event is written, to a client that is there or that has left.
LEMMA WritingGoesOn ==
  ASSUME NEW p, NEW more, NEW got, NEW left \in BOOLEAN, Written(p, more, got, left), more # <<>>
  PROVE  /\ Written(p, Tail(more), IF left THEN got ELSE Append(got, Head(more)), left)
         /\ Len(more) = 1 <=> Tail(more) = <<>>
<1>1. PICK s \in Scripts(p) : \E n, m \in 0 .. Len(s) : Part(s, n, m, more, got, left)
  BY DEF Written
<1>2. PICK n \in 0 .. Len(s), m \in 0 .. Len(s) : Part(s, n, m, more, got, left)
  BY <1>1
<1> DEFINE V == {s[i] : i \in 1 .. Len(s)}
<1>3. s \in Seq(V) /\ Len(s) \in Nat
  BY ScriptSequence
<1>4. more = SubSeq(s, n + 1, Len(s)) /\ got = SubSeq(s, 1, m) /\ m <= n /\ (~left => m = n)
  BY <1>2 DEF Part
<1>5. n + 1 \in 1 .. Len(s)
  <2>1. ASSUME n = Len(s) PROVE FALSE
    BY <1>3, <1>4, <2>1, SubSeqEmpty
  <2> QED
    BY <1>3, <2>1
<1> HIDE DEF V
<1>6. Head(more) = s[n + 1] /\ Tail(more) = SubSeq(s, n + 1 + 1, Len(s))
  BY <1>3, <1>4, <1>5, HeadTailOfSubSeq
<1>7. Len(more) = 1 <=> Tail(more) = <<>>
  <2>1. \A i \in n + 1 .. Len(s) : s[i] \in V
    BY <1>3, <1>5
  <2>2. more \in Seq(V) /\ Len(more) = Len(s) - (n + 1) + 1
    BY <1>3, <1>4, <1>5, <2>1, SubSeqProperties
  <2>3. Tail(more) \in Seq(V) /\ Len(Tail(more)) = Len(more) - 1
    BY <2>2, HeadTailProperties
  <2>4. Tail(more) = <<>> <=> Len(Tail(more)) = 0
    BY <2>3, EmptySeq
  <2>5. Len(more) \in Nat
    BY <1>3, <1>5, <2>2
  <2> QED
    BY <2>3, <2>4, <2>5
<1>8. CASE left
  <2>1. Part(s, n + 1, m, Tail(more), got, left) /\ n + 1 \in 0 .. Len(s)
    BY <1>4, <1>5, <1>6, <1>8 DEF Part
  <2> QED
    BY <1>7, <1>8, <2>1 DEF Written
<1>9. CASE ~left
  <2>1. Append(got, Head(more)) = SubSeq(s, 1, n + 1)
    <3>1. SubSeq(s, 1, n + 1) = SubSeq(s, 1, n + 1 - 1) \o <<s[n + 1]>>
      <4>1. 1 \in 1 .. Len(s) /\ n + 1 \in 1 .. Len(s)
        BY <1>5
      <4> QED
        BY <1>3, <1>5, <4>1, SubSeqRecursiveSecond
    <3>2. n + 1 - 1 = n /\ got = SubSeq(s, 1, n)
      BY <1>4, <1>9
    <3>3. got \in Seq(V) /\ s[n + 1] \in V
      <4>1. \A i \in 1 .. n : s[i] \in V
        BY <1>3, <1>5
      <4> QED
        BY <1>3, <1>5, <3>2, <4>1, SubSeqProperties
    <3> QED
      BY <1>6, <3>1, <3>2, <3>3
  <2>2. Part(s, n + 1, n + 1, Tail(more), Append(got, Head(more)), left) /\ n + 1 \in 0 .. Len(s)
    BY <1>4, <1>5, <1>6, <2>1 DEF Part
  <2> QED
    BY <1>7, <1>9, <2>2 DEF Written
<1> QED
  BY <1>8, <1>9

\* A sequence t that is s with d at its end, and one that is s without its first.
LEMMA Ends ==
  ASSUME NEW V, NEW s \in Seq(V), NEW d \in V, NEW t \in Seq(V), Len(t) = Len(s) + 1,
         \A i \in 1 .. Len(s) : t[i] = s[i], t[Len(t)] = d
  PROVE  s \o <<d>> = t
<1> DEFINE e == <<d>>
<1>1. e \in Seq(V) /\ Len(e) = 1 /\ e[1] = d
  OBVIOUS
<1> HIDE DEF e
<1>2. Len(s) \in Nat
  OBVIOUS
<1>3. s \o e \in Seq(V) /\ Len(s \o e) = Len(s) + Len(e)
      /\ \A i \in 1 .. Len(s) + Len(e) : (s \o e)[i] = IF i <= Len(s) THEN s[i] ELSE e[i - Len(s)]
  BY <1>1, ConcatProperties
<1>4. \A i \in 1 .. Len(s \o e) : (s \o e)[i] = t[i]
  <2> TAKE i \in 1 .. Len(s \o e)
  <2>1. CASE i = Len(s) + 1
    BY <1>1, <1>2, <1>3, <2>1
  <2>2. CASE i # Len(s) + 1
    BY <1>1, <1>2, <1>3, <2>2
  <2> QED
    BY <2>1, <2>2
<1>5. Len(s \o e) = Len(t)
  BY <1>1, <1>3
<1>6. s \o e = t
  BY <1>3, <1>4, <1>5, SeqEqual
<1> QED
  BY <1>6 DEF e

LEMMA Rest ==
  ASSUME NEW V, NEW s \in Seq(V), NEW t \in Seq(V), Len(s) = Len(t) + 1,
         \A i \in 1 .. Len(t) : t[i] = s[i + 1]
  PROVE  SubSeq(s, 2, Len(s)) = t
<1> DEFINE u == SubSeq(s, 2, Len(s))
<1>1. Len(t) \in Nat /\ Len(s) \in Int /\ 2 \in Int /\ \A i \in 2 .. Len(s) : s[i] \in V
  OBVIOUS
<1>2. /\ u \in Seq(V) /\ Len(u) = (IF 2 <= Len(s) THEN Len(s) - 2 + 1 ELSE 0)
      /\ \A i \in 1 .. Len(s) - 2 + 1 : u[i] = s[2 + i - 1]
  BY <1>1, SubSeqProperties
<1> HIDE DEF u
<1>3. Len(u) = Len(t) /\ \A i \in 1 .. Len(t) : u[i] = s[i + 1]
  BY <1>1, <1>2
<1>4. u = t
  BY <1>2, <1>3, SeqEqual
<1> QED
  BY <1>4 DEF u

\* The events of a stream.
LEMMA Triple ==
  ASSUME NEW a, NEW b, NEW d
  PROVE  LET s == <<a, b, d>>
         IN  SubSeq(s, 2, Len(s)) = <<b>> \o <<d>> /\ SubSeq(s, 2, Len(s)) # <<>>
<1> DEFINE V == {a, b, d}
           s == <<a, b, d>>
           t == <<b, d>>
           u == <<b>>
<1>1. /\ s \in Seq(V) /\ t \in Seq(V) /\ u \in Seq(V) /\ d \in V
      /\ Len(s) = 3 /\ Len(t) = 2 /\ Len(u) = 1
      /\ s[2] = b /\ s[3] = d /\ t[1] = b /\ t[2] = d /\ u[1] = b
      /\ t # <<>>
  OBVIOUS
<1> HIDE DEF V, s, t, u
<1>2. Len(t) = Len(u) + 1 /\ t[Len(t)] = d /\ \A i \in 1 .. Len(u) : t[i] = u[i]
  BY <1>1
<1>3. u \o <<d>> = t
  BY <1>1, <1>2, Ends
<1>4. Len(s) = Len(t) + 1 /\ \A i \in 1 .. Len(t) : t[i] = s[i + 1]
  BY <1>1
<1>5. SubSeq(s, 2, Len(s)) = t
  BY <1>1, <1>4, Rest
<1> QED
  BY <1>1, <1>3, <1>5 DEF s, u

LEMMA Quadruple ==
  ASSUME NEW a, NEW b, NEW d, NEW e
  PROVE  LET s == <<a, b, d, e>>
         IN  SubSeq(s, 2, Len(s)) = <<b, d>> \o <<e>> /\ SubSeq(s, 2, Len(s)) # <<>>
<1> DEFINE V == {a, b, d, e}
           s == <<a, b, d, e>>
           t == <<b, d, e>>
           u == <<b, d>>
<1>1. /\ s \in Seq(V) /\ t \in Seq(V) /\ u \in Seq(V) /\ e \in V
      /\ Len(s) = 4 /\ Len(t) = 3 /\ Len(u) = 2
      /\ s[2] = b /\ s[3] = d /\ s[4] = e /\ t[1] = b /\ t[2] = d /\ t[3] = e /\ u[1] = b /\ u[2] = d
      /\ t # <<>>
  OBVIOUS
<1> HIDE DEF V, s, t, u
<1>2. Len(t) = Len(u) + 1 /\ t[Len(t)] = e /\ \A i \in 1 .. Len(u) : t[i] = u[i]
  BY <1>1
<1>3. u \o <<e>> = t
  BY <1>1, <1>2, Ends
<1>4. Len(s) = Len(t) + 1 /\ \A i \in 1 .. Len(t) : t[i] = s[i + 1]
  BY <1>1
<1>5. SubSeq(s, 2, Len(s)) = t
  BY <1>1, <1>4, Rest
<1> QED
  BY <1>1, <1>3, <1>5 DEF s, u

\* A stream has begun, and its result is to be written.
LEMMA StreamBegins ==
  ASSUME NEW p, p.phase = "answered", NEW left, NEW got, got = <<Opening>> \/ (left /\ got = <<>>), NEW code
  PROVE  LET failed == Error(code) \o <<Done>>
             chunks == Chunks(p.answer)
             sent == [i \in DOMAIN chunks |-> Event("chunk", EncodeStreamChunk(chunks[i]))] \o <<Done>>
         IN  /\ p.answer = NoCompletion /\ code \in Codes(p) => Written(p, failed, got, left) /\ failed # <<>>
             /\ p.answer # NoCompletion => Written(p, sent, got, left) /\ sent # <<>>
<1> DEFINE s3 == <<Opening, Event("error", code), Done>>
           s4 == StreamScript(p.answer)
           chunks == Chunks(p.answer)
           e1 == Event("chunk", EncodeStreamChunk(chunks[1]))
           e2 == Event("chunk", EncodeStreamChunk(chunks[2]))
           sent == [i \in DOMAIN chunks |-> Event("chunk", EncodeStreamChunk(chunks[i]))] \o <<Done>>
           failed == Error(code) \o <<Done>>
<1>1. s3[1] = Opening /\ SubSeq(s3, 2, Len(s3)) = failed
  BY Triple DEF Error
<1>2. s4[1] = Opening /\ SubSeq(s4, 2, Len(s4)) = sent
  <2>1. DOMAIN chunks = {1, 2}
    BY DEF Chunks
  <2>2. s4 = <<Opening, e1, e2, Done>>
    BY DEF StreamScript
  <2> HIDE DEF chunks, s4
  <2>3. [i \in DOMAIN chunks |-> Event("chunk", EncodeStreamChunk(chunks[i]))] = <<e1, e2>>
    BY <2>1
  <2>4. sent = <<e1, e2>> \o <<Done>>
    BY <2>3
  <2> HIDE DEF e1, e2, sent
  <2>5. s4[1] = Opening
    BY <2>2
  <2>6. SubSeq(s4, 2, Len(s4)) = sent
    BY <2>2, <2>4, Quadruple
  <2> QED
    BY <2>5, <2>6
<1>5. ASSUME NEW s, s \in Scripts(p), NEW more, s[1] = Opening, SubSeq(s, 2, Len(s)) = more
      PROVE  Written(p, more, got, left)
  <2>1. s \in Seq({s[i] : i \in 1 .. Len(s)})
    BY <1>5, ScriptSequence
  <2>5. Len(s) \in Nat /\ 1 \in 1 .. Len(s)
    BY <1>5, ScriptSequence
  <2>2. SubSeq(s, 1, 0) = <<>> /\ SubSeq(s, 1, 1) = <<s[1]>>
    <3>1. SubSeq(s, 1, 1) = SubSeq(s, 1, 1 - 1) \o <<s[1]>>
      BY <2>1, <2>5, SubSeqRecursiveSecond
    <3>2. SubSeq(s, 1, 0) = <<>> /\ 1 - 1 = 0
      BY SubSeqEmpty
    <3>3. <<>> \o <<s[1]>> = <<s[1]>>
      BY ConcatEmptySeq
    <3> QED
      BY <3>1, <3>2, <3>3
  <2>3. 0 \in 0 .. Len(s) /\ 1 \in 0 .. Len(s)
    BY <2>5
  <2>4. Part(s, 1, 1, more, got, left) \/ Part(s, 1, 0, more, got, left)
    <3>1. more = SubSeq(s, 1 + 1, Len(s))
      BY <1>5
    <3>2. CASE got = <<Opening>>
      BY <1>5, <2>2, <3>1, <3>2 DEF Part
    <3>3. CASE left /\ got = <<>>
      BY <2>2, <3>1, <3>3 DEF Part
    <3> QED
      BY <3>2, <3>3
  <2> QED
    BY <1>5, <2>3, <2>4 DEF Written
<1>6. ASSUME p.answer = NoCompletion, code \in Codes(p) PROVE Written(p, failed, got, left)
  <2>1. s3 \in Scripts(p)
    BY <1>6 DEF Scripts, ErrorScripts
  <2> HIDE DEF s3, failed
  <2> QED
    BY <1>1, <1>5, <2>1
<1>7. ASSUME p.answer # NoCompletion PROVE Written(p, sent, got, left)
  <2>1. s4 \in Scripts(p)
    BY <1>7 DEF Scripts
  <2> HIDE DEF s4, sent
  <2> QED
    BY <1>2, <1>5, <2>1
<1>8. failed # <<>> /\ sent # <<>>
  BY <1>1, <1>2, Triple, Quadruple DEF StreamScript
<1> QED
  BY <1>6, <1>7, <1>8

----------------------------------------------------------------------------
(* The steps of the provider.                                              *)

LEMMA Unmoved ==
  ASSUME ProviderInv, NEW c \in Clients
  PROVE  /\ OnlyAt(promise, promise, c) /\ OnlyAt(pc, pc, c) /\ OnlyAt(waiter, waiter, c)
         /\ OnlyAt(pending, pending, c) /\ OnlyAt(reply, reply, c)
         /\ gone \in [Clients -> BOOLEAN] /\ gone[c] \in BOOLEAN /\ ticks \in [Clients -> 0 .. MaxKeepalives]
         /\ Stage(promise[c], pc[c], waiter[c], pending[c], reply[c], gone[c])
BY OnlyAtSame DEF ProviderInv, Shapes

LEMMA GoesTo ==
  ASSUME ProviderInv, NEW c \in Clients, NEW at, Go(c, at)
  PROVE  OnlyAt(pc, pc', c) /\ pc'[c] = at
<1>1. IsFcn(pc) /\ Sets(pc, pc', c, at)
  BY DEF ProviderInv, Shapes, Go, Sets
<1> QED
  BY <1>1, OnlyAtSet

LEMMA WritesAll ==
  ASSUME ProviderInv, NEW c \in Clients, NEW events, Writes(c, events)
  PROVE  /\ OnlyAt(pending, pending', c) /\ pending'[c] = events
         /\ OnlyAt(pc, pc', c) /\ pc'[c] = "writing"
<1>1. IsFcn(pending) /\ Sets(pending, pending', c, events)
  BY DEF ProviderInv, Shapes, Writes, Sets
<1>2. Go(c, "writing")
  BY DEF Writes
<1> QED
  BY <1>1, <1>2, OnlyAtSet, GoesTo

LEMMA GotOne ==
  ASSUME ProviderInv, NEW c \in Clients, NEW event, Got(c, event)
  PROVE  OnlyAt(reply, reply', c) /\ reply'[c] = IF gone[c] THEN reply[c] ELSE Append(reply[c], event)
<1>1. IsFcn(reply)
  BY DEF ProviderInv, Shapes
<1>2. CASE gone[c]
  BY <1>1, <1>2, OnlyAtSame DEF Got
<1>3. CASE ~gone[c]
  <2> DEFINE v == Append(reply[c], event)
  <2>1. Sets(reply, reply', c, v)
    BY <1>1, <1>3 DEF Got, Sets, IsFcn
  <2> HIDE DEF v
  <2>2. OnlyAt(reply, reply', c) /\ reply'[c] = v
    BY <1>1, <2>1, OnlyAtSet
  <2> QED
    BY <1>3, <2>2 DEF v
<1> QED
  BY <1>2, <1>3

\* A reply is to be written.
LEMMA Replies ==
  ASSUME NEW q, PromiseOK(q), NEW s \in Scripts(q), NEW left
  PROVE  Stage(q, "writing", "none", s, <<>>, left)
<1>1. Written(q, s, <<>>, left) /\ s # <<>>
  BY WritingBegins
<1> QED
  BY <1>1 DEF Stage, WaiterOK, WaitResults

LEMMA ErrorReply ==
  ASSUME NEW q, PromiseOK(q), q.phase \in {"new", "answered"}, q.answer = NoCompletion,
         NEW code \in Codes(q), NEW left
  PROVE  Stage(q, "writing", "none", Error(code), <<>>, left)
<1>1. Error(code) \in Scripts(q)
  BY DEF Scripts, ErrorScripts, Error
<1> QED
  BY <1>1, Replies

LEMMA ArriveMoves ==
  ASSUME ProviderInv, NEW c \in Clients, Arrive(c)
  PROVE  ProviderInv'
<1>1. OnlyAt(pc, pc', c) /\ pc'[c] = "reading" /\ pc[c] = "idle"
  BY GoesTo DEF Arrive, At
<1>2. /\ UNCHANGED <<asked, payload>> /\ UNCHANGED serverVars
      /\ promise' = promise /\ waiter' = waiter /\ pending' = pending /\ reply' = reply
      /\ gone' = gone /\ ticks' = ticks
  BY DEF Arrive, requestVars
<1>3. Framed(c) /\ Request(c)
  BY <1>1, <1>2, Unmoved, RequestKept DEF Framed
<1>4. Staged(c)
  BY <1>1, <1>2, Unmoved DEF Staged, Stage
<1> QED
  BY <1>2, <1>3, <1>4, ClientMoves

\* What a client whose request is being read has.
LEMMA Reading ==
  ASSUME ProviderInv, NEW c \in Clients, At(c, "reading")
  PROVE  /\ promise[c] = Broker!New /\ waiter[c] = "none" /\ reply[c] = <<>> /\ pending[c] = <<>>
BY Unmoved DEF At, Stage

LEMMA Refused ==
  ASSUME ProviderInv, NEW c \in Clients, At(c, "reading"), NEW code \in Codes(Broker!New), Writes(c, Error(code)),
         UNCHANGED <<serverVars, requestVars, waiter, reply, gone, ticks>>
  PROVE  ProviderInv'
<1>1. OnlyAt(pc, pc', c) /\ pc'[c] = "writing" /\ OnlyAt(pending, pending', c) /\ pending'[c] = Error(code)
  BY WritesAll
<1>2. /\ UNCHANGED <<asked, payload>> /\ UNCHANGED serverVars
      /\ promise' = promise /\ waiter' = waiter /\ reply' = reply /\ gone' = gone /\ ticks' = ticks
  BY DEF requestVars
<1>3. Framed(c) /\ Request(c)
  BY <1>1, <1>2, Unmoved, RequestKept DEF Framed
<1>4. Staged(c)
  <2>1. promise'[c] = Broker!New /\ waiter'[c] = "none" /\ reply'[c] = <<>>
    BY <1>2, Reading
  <2>2. Stage(Broker!New, "writing", "none", Error(code), <<>>, gone'[c])
    BY NewPromise, ErrorReply
  <2> QED
    BY <1>1, <2>1, <2>2 DEF Staged
<1> QED
  BY <1>2, <1>3, <1>4, ClientMoves

LEMMA ReadFailsMoves ==
  ASSUME ProviderInv, NEW c \in Clients, ReadFails(c)
  PROVE  ProviderInv'
BY NewPromise, Refused DEF ReadFails, Codes

LEMMA EnqueueMoves ==
  ASSUME ProviderInv, NEW c \in Clients, At(c, "reading"), NEW raw \in RawRequests, Decodable(raw),
         Enqueue(c, raw, Optimize(DecodeRequest(raw))), UNCHANGED <<serverVars, waiter, reply, gone, ticks>>
  PROVE  ProviderInv'
<1> DEFINE q == [Broker!New EXCEPT !.phase = "open"]
           conversation == Optimize(DecodeRequest(raw))
           at == IF raw.stream THEN "opening" ELSE "waiting"
<1>1. IsFcn(promise) /\ IsFcn(asked) /\ IsFcn(payload)
  BY DEF ProviderInv, Shapes
<1> HIDE DEF q, conversation, at
<1>2. Sets(promise, promise', c, q) /\ Sets(asked, asked', c, raw) /\ Sets(payload, payload', c, conversation)
  BY DEF Enqueue, Sets, q, conversation
<1>3. OnlyAt(promise, promise', c) /\ promise'[c] = q
  BY <1>1, <1>2, OnlyAtSet
<1>4. OnlyAt(asked, asked', c) /\ asked'[c] = raw
  BY <1>1, <1>2, OnlyAtSet
<1>5. OnlyAt(payload, payload', c) /\ payload'[c] = conversation
  BY <1>1, <1>2, OnlyAtSet
<1>6. OnlyAt(pc, pc', c) /\ pc'[c] = at
  BY GoesTo DEF Enqueue, at
<1>7. /\ UNCHANGED serverVars /\ waiter' = waiter /\ reply' = reply /\ gone' = gone /\ ticks' = ticks
      /\ pending' = pending
  BY DEF Enqueue
<1>8. Framed(c)
  BY <1>3, <1>6, <1>7, Unmoved DEF Framed
<1>9. Request(c)
  BY <1>4, <1>5 DEF Request, AskedOK, conversation
<1>10. Staged(c)
  <2>1. PromiseOK(q) /\ q.phase = "open"
    BY NewPromise DEF q
  <2>2. waiter'[c] = "none" /\ reply'[c] = <<>> /\ pending'[c] = <<>>
    BY <1>7, Reading
  <2>3. Stage(q, at, "none", <<>>, <<>>, gone'[c])
    BY <2>1 DEF Stage, WaiterOK, WaitResults, Live, at
  <2> QED
    BY <1>3, <1>6, <2>2, <2>3 DEF Staged
<1> QED
  BY <1>7, <1>8, <1>9, <1>10, ClientMoves

LEMMA ReadMoves ==
  ASSUME ProviderInv, NEW c \in Clients, Read(c)
  PROVE  ProviderInv'
<1>1. PICK raw \in RawRequests : Handles(c, raw)
  BY DEF Read
<1>2. At(c, "reading") /\ UNCHANGED <<serverVars, waiter, reply, gone, ticks>>
  BY DEF Read
<1> DEFINE conversation == Optimize(DecodeRequest(raw))
<1>3. CASE Writes(c, Error("bad request")) /\ UNCHANGED requestVars
  BY <1>2, <1>3, NewPromise, Refused DEF Codes
<1>4. ASSUME Decodable(raw), UNCHANGED requestVars, NEW code \in Refusals(conversation), Writes(c, Error(code))
      PROVE  ProviderInv'
  <2>1. Encodable(conversation)
    BY <1>4, ProviderAssumption, OptimizerEncodable
  <2>2. code \in Codes(Broker!New)
    BY <1>4, <2>1, NewPromise DEF Refusals, Codes
  <2> QED
    BY <1>2, <1>4, <2>2, Refused
<1>5. CASE Decodable(raw) /\ Enqueue(c, raw, conversation)
  BY <1>2, <1>5, EnqueueMoves
<1> QED
  BY <1>1, <1>3, <1>4, <1>5 DEF Handles

\* The agent moves a request that is open.
LEMMA AgentMoves ==
  ASSUME ProviderInv, NEW c \in Clients, NEW q, Becomes(c, q),
         Broker!Hand(promise[c], q) \/ Broker!Fail(promise[c], q) \/ Broker!Settle(promise[c], q),
         UNCHANGED <<serverVars, pc, waiter, pending, reply, gone, ticks>>
  PROVE  ProviderInv'
<1>1. Request(c) /\ OnlyAt(promise, promise', c) /\ promise'[c] = q
  BY RequestDropped
<1>2. Framed(c)
  BY <1>1, Unmoved DEF Framed
<1>3. Staged(c)
  <2>1. Stage(promise[c], pc[c], waiter[c], pending[c], reply[c], gone[c])
    BY Unmoved
  <2>2. PromiseOK(promise[c])
    BY <2>1 DEF Stage
  <2>3. promise[c].phase \in Live /\ PromiseOK(q) /\ q.phase \in Live
    BY <2>2, AgentStep
  <2>4. Stage(q, pc[c], waiter[c], pending[c], reply[c], gone[c])
    BY <2>1, <2>3, PromiseMoves
  <2> QED
    BY <1>1, <2>4 DEF Staged
<1>4. UNCHANGED serverVars
  OBVIOUS
<1> QED
  BY <1>1, <1>2, <1>3, <1>4, ClientMoves

LEMMA HandMoves ==
  ASSUME ProviderInv, NEW c \in Clients, Hand(c)
  PROVE  ProviderInv'
<1> DEFINE q == [promise[c] EXCEPT !.handed = TRUE]
<1>1. Becomes(c, q) /\ Broker!Hand(promise[c], q) /\ UNCHANGED <<serverVars, pc, waiter, pending, reply, gone, ticks>>
  BY DEF Hand
<1> HIDE DEF q
<1> QED
  BY <1>1, AgentMoves

LEMMA FailMoves ==
  ASSUME ProviderInv, NEW c \in Clients, Fail(c)
  PROVE  ProviderInv'
<1> DEFINE q == [promise[c] EXCEPT !.phase = "failed"]
<1>1. Becomes(c, q) /\ Broker!Fail(promise[c], q) /\ UNCHANGED <<serverVars, pc, waiter, pending, reply, gone, ticks>>
  BY DEF Fail
<1> HIDE DEF q
<1> QED
  BY <1>1, AgentMoves

LEMMA SettleMoves ==
  ASSUME ProviderInv, NEW c \in Clients, NEW a \in Answers, Settle(c, a)
  PROVE  ProviderInv'
<1> DEFINE q == [promise[c] EXCEPT !.phase = "settled", !.completion = Completion(a)]
<1>1. Becomes(c, q) /\ Broker!Settle(promise[c], q) /\ UNCHANGED <<serverVars, pc, waiter, pending, reply, gone, ticks>>
  BY DEF Settle
<1> HIDE DEF q
<1> QED
  BY <1>1, AgentMoves

\* Somebody waits for the promise of c, and is told what became of it.
LEMMA ToldAnswer ==
  ASSUME ProviderInv, NEW c \in Clients, promise[c].phase \in Live
  PROVE  /\ Answered(c) => \E q : /\ Becomes(c, q) /\ PromiseOK(q) /\ q.phase = "answered"
                                 /\ q.answer = promise[c].completion /\ q.answer # NoCompletion
         /\ Unanswered(c) \/ Forgotten(c) =>
              \E q : /\ Becomes(c, q) /\ PromiseOK(q) /\ q.phase = "answered" /\ q.answer = NoCompletion
                     /\ (Unanswered(c) => "failed" \in Codes(q)) /\ "gave up" \in Codes(q)
<1>1. PromiseOK(promise[c])
  BY Unmoved DEF Stage
<1>2. ASSUME Answered(c)
      PROVE  \E q : /\ Becomes(c, q) /\ PromiseOK(q) /\ q.phase = "answered"
                    /\ q.answer = promise[c].completion /\ q.answer # NoCompletion
  <2> DEFINE q == [promise[c] EXCEPT !.phase = "answered", !.answer = promise[c].completion]
  <2>1. Becomes(c, q) /\ promise[c].phase = "settled"
    BY <1>2 DEF Answered
  <2>2. PromiseOK(q) /\ q.phase = "answered" /\ q.answer = promise[c].completion /\ q.answer # NoCompletion
    BY <1>1, <2>1, AnswerStep
  <2> HIDE DEF q
  <2> QED
    BY <2>1, <2>2
<1>3. ASSUME Unanswered(c) \/ Forgotten(c)
      PROVE  \E q : /\ Becomes(c, q) /\ PromiseOK(q) /\ q.phase = "answered" /\ q.answer = NoCompletion
                    /\ (Unanswered(c) => "failed" \in Codes(q)) /\ "gave up" \in Codes(q)
  <2> DEFINE q == [promise[c] EXCEPT !.phase = "answered"]
  <2>1. Becomes(c, q)
    BY <1>3 DEF Unanswered, Forgotten
  <2>2. /\ PromiseOK(q) /\ q.phase = "answered" /\ q.answer = NoCompletion
        /\ q.completion = promise[c].completion
    BY <1>1, AnswerStep
  <2>3. Unanswered(c) => promise[c].completion = NoCompletion
    BY <1>1 DEF Unanswered, PromiseOK
  <2> HIDE DEF q
  <2>4. (Unanswered(c) => "failed" \in Codes(q)) /\ "gave up" \in Codes(q)
    BY <2>2, <2>3 DEF Codes
  <2> QED
    BY <2>1, <2>2, <2>4
<1> QED
  BY <1>2, <1>3

\* A client that waits for a body.
LEMMA Waiting ==
  ASSUME ProviderInv, NEW c \in Clients, At(c, "waiting")
  PROVE  /\ promise[c].phase \in Live /\ waiter[c] = "none" /\ reply[c] = <<>> /\ pending[c] = <<>>
BY Unmoved DEF At, Stage

LEMMA WaitEnds ==
  ASSUME ProviderInv, NEW c \in Clients, At(c, "waiting"), NEW q, Becomes(c, q), PromiseOK(q),
         q.phase = "answered", NEW s \in Scripts(q), Writes(c, s),
         UNCHANGED <<serverVars, waiter, reply, gone, ticks>>
  PROVE  ProviderInv'
<1>1. Request(c) /\ OnlyAt(promise, promise', c) /\ promise'[c] = q
  BY RequestDropped
<1>2. OnlyAt(pc, pc', c) /\ pc'[c] = "writing" /\ OnlyAt(pending, pending', c) /\ pending'[c] = s
  BY WritesAll
<1>3. Framed(c)
  BY <1>1, <1>2, Unmoved DEF Framed
<1>4. Staged(c)
  <2>1. waiter'[c] = "none" /\ reply'[c] = <<>>
    BY Waiting
  <2>2. Stage(q, "writing", "none", s, <<>>, gone'[c])
    BY Replies
  <2> QED
    BY <1>1, <1>2, <2>1, <2>2 DEF Staged
<1>5. UNCHANGED serverVars
  OBVIOUS
<1> QED
  BY <1>1, <1>3, <1>4, <1>5, ClientMoves

LEMMA WaitMoves ==
  ASSUME ProviderInv, NEW c \in Clients, Wait(c) \/ WaitTimesOut(c)
  PROVE  ProviderInv'
<1>1. At(c, "waiting") /\ UNCHANGED <<serverVars, waiter, reply, gone, ticks>>
  BY DEF Wait, WaitTimesOut
<1>2. CASE Answered(c) /\ Writes(c, <<Event("body", EncodeCompletion(promise[c].completion))>>)
  <2>1. PICK q : /\ Becomes(c, q) /\ PromiseOK(q) /\ q.phase = "answered"
                 /\ q.answer = promise[c].completion /\ q.answer # NoCompletion
    BY <1>1, <1>2, Waiting, ToldAnswer
  <2>2. BodyScript(q.answer) \in Scripts(q) /\ Writes(c, BodyScript(q.answer))
    BY <1>2, <2>1 DEF Scripts, BodyScript
  <2> QED
    BY <1>1, <2>1, <2>2, WaitEnds
<1>3. ASSUME NEW code, Writes(c, Error(code)),
             (Unanswered(c) /\ code = "failed") \/ (Forgotten(c) /\ code = "gave up")
      PROVE  ProviderInv'
  <2>1. PICK q : Becomes(c, q) /\ PromiseOK(q) /\ q.phase = "answered" /\ q.answer = NoCompletion /\ code \in Codes(q)
    BY <1>1, <1>3, Waiting, ToldAnswer
  <2>2. Error(code) \in Scripts(q)
    BY <2>1 DEF Scripts, ErrorScripts, Error
  <2> QED
    BY <1>1, <1>3, <2>1, <2>2, WaitEnds
<1>4. CASE Left(c) /\ Go(c, "over") /\ UNCHANGED pending
  <2>1. PICK q : Becomes(c, q) /\ PromiseOK(q) /\ q.phase = "answered" /\ q.answer = NoCompletion
    BY <1>1, <1>4, Waiting, ToldAnswer DEF Left
  <2>2. Request(c) /\ OnlyAt(promise, promise', c) /\ promise'[c] = q
    BY <2>1, RequestDropped
  <2>3. OnlyAt(pc, pc', c) /\ pc'[c] = "over"
    BY <1>4, GoesTo
  <2>4. Framed(c)
    BY <1>1, <1>4, <2>2, <2>3, Unmoved DEF Framed
  <2>5. Staged(c)
    <3>1. waiter'[c] = "none" /\ reply'[c] = <<>> /\ pending'[c] = <<>> /\ gone'[c]
      BY <1>1, <1>4, Waiting DEF Left
    <3>2. Stage(q, "over", "none", <<>>, <<>>, gone'[c])
      BY <2>1, <3>1 DEF Stage, WaiterOK
    <3> QED
      BY <2>2, <2>3, <3>1, <3>2 DEF Staged
  <2> QED
    BY <1>1, <2>2, <2>4, <2>5, ClientMoves
<1> QED
  BY <1>2, <1>3, <1>4 DEF Wait, WaitTimesOut

----------------------------------------------------------------------------
(* The steps of a stream.                                                  *)

LEMMA OpenStreamMoves ==
  ASSUME ProviderInv, NEW c \in Clients, OpenStream(c)
  PROVE  ProviderInv'
<1>1. /\ At(c, "opening") /\ Go(c, "selecting") /\ Got(c, Opening)
      /\ Sets(waiter, waiter', c, "waiting")
      /\ UNCHANGED serverVars /\ UNCHANGED <<asked, payload>> /\ promise' = promise /\ pending' = pending
      /\ gone' = gone /\ ticks' = ticks
  BY DEF OpenStream, Opening, Sets, requestVars
<1>2. OnlyAt(pc, pc', c) /\ pc'[c] = "selecting"
  BY <1>1, GoesTo
<1>3. OnlyAt(waiter, waiter', c) /\ waiter'[c] = "waiting"
  <2>1. IsFcn(waiter)
    BY DEF ProviderInv, Shapes
  <2> QED
    BY <1>1, <2>1, OnlyAtSet
<1>4. OnlyAt(reply, reply', c) /\ reply'[c] = IF gone[c] THEN reply[c] ELSE Append(reply[c], Opening)
  BY <1>1, GotOne
<1>5. Framed(c) /\ Request(c)
  BY <1>1, <1>2, <1>3, <1>4, Unmoved, RequestKept DEF Framed
<1>6. Staged(c)
  <2>1. PromiseOK(promise[c]) /\ promise[c].phase \in Live /\ pending[c] = <<>> /\ reply[c] = <<>>
    BY <1>1, Unmoved DEF Stage, At
  <2>2. reply'[c] = IF gone[c] THEN <<>> ELSE <<Opening>>
    <3>1. Append(<<>>, Opening) = <<Opening>>
      BY AppendIsConcat, ConcatEmptySeq
    <3> QED
      BY <1>4, <2>1, <3>1
  <2>3. Stage(promise[c], "selecting", "waiting", <<>>, reply'[c], gone[c])
    <3> HIDE DEF Opening
    <3>1. reply'[c] = <<Opening>> \/ (gone[c] /\ reply'[c] = <<>>)
      BY <2>2
    <3> QED
      BY <2>1, <3>1 DEF Stage, WaiterOK, WaitResults, Live
  <2> QED
    BY <1>1, <1>2, <1>3, <2>1, <2>3 DEF Staged
<1> QED
  BY <1>1, <1>5, <1>6, ClientMoves

\* The goroutine of a stream waits as the handler of a body does.
LEMMA Awaiting ==
  ASSUME ProviderInv, NEW c \in Clients, waiter[c] = "waiting"
  PROVE  promise[c].phase \in Live /\ pc[c] \in {"selecting", "over"}
BY Unmoved DEF Stage, WaiterOK

LEMMA WaiterEnds ==
  ASSUME ProviderInv, NEW c \in Clients, waiter[c] = "waiting", NEW q, Becomes(c, q), PromiseOK(q),
         q.phase = "answered", NEW w \in WaitResults,
         IF w = "answered" THEN q.answer # NoCompletion ELSE q.answer = NoCompletion /\ w \in Codes(q),
         Sets(waiter, waiter', c, w),
         UNCHANGED <<serverVars, pc, pending, reply, gone, ticks>>
  PROVE  ProviderInv'
<1>1. Request(c) /\ OnlyAt(promise, promise', c) /\ promise'[c] = q
  BY RequestDropped
<1>2. OnlyAt(waiter, waiter', c) /\ waiter'[c] = w
  <2>1. IsFcn(waiter)
    BY DEF ProviderInv, Shapes
  <2> QED
    BY <2>1, OnlyAtSet
<1>3. Framed(c)
  BY <1>1, <1>2, Unmoved DEF Framed
<1>4. Staged(c)
  <2>1. Stage(promise[c], pc[c], waiter[c], pending[c], reply[c], gone[c]) /\ pc[c] \in {"selecting", "over"}
    BY Unmoved, Awaiting
  <2>2. WaiterOK(q, w) /\ w # "none"
    BY DEF WaiterOK, WaitResults
  <2>3. Stage(q, pc[c], w, pending[c], reply[c], gone[c])
    BY <2>1, <2>2 DEF Stage
  <2> QED
    BY <1>1, <1>2, <2>3 DEF Staged
<1>5. UNCHANGED serverVars
  OBVIOUS
<1> QED
  BY <1>1, <1>3, <1>4, <1>5, ClientMoves

LEMMA WaiterMoves ==
  ASSUME ProviderInv, NEW c \in Clients, WaiterReturns(c) \/ WaiterTimesOut(c)
  PROVE  ProviderInv'
<1>1. waiter[c] = "waiting" /\ UNCHANGED <<serverVars, pc, pending, reply, gone, ticks>>
  BY DEF WaiterReturns, WaiterTimesOut
<1>2. CASE Answered(c) /\ waiter' = [waiter EXCEPT ![c] = "answered"]
  <2>1. PICK q : /\ Becomes(c, q) /\ PromiseOK(q) /\ q.phase = "answered" /\ q.answer # NoCompletion
    BY <1>1, <1>2, Awaiting, ToldAnswer
  <2>2. Sets(waiter, waiter', c, "answered") /\ "answered" \in WaitResults
    BY <1>2 DEF Sets, WaitResults
  <2> QED
    BY <1>1, <2>1, <2>2, WaiterEnds
<1>3. ASSUME NEW w, waiter' = [waiter EXCEPT ![c] = w],
             (Unanswered(c) /\ w = "failed") \/ (Forgotten(c) /\ w = "gave up")
      PROVE  ProviderInv'
  <2>1. PICK q : Becomes(c, q) /\ PromiseOK(q) /\ q.phase = "answered" /\ q.answer = NoCompletion /\ w \in Codes(q)
    BY <1>1, <1>3, Awaiting, ToldAnswer
  <2>2. Sets(waiter, waiter', c, w)
    BY <1>3 DEF Sets
  <2>3. w \in WaitResults /\ w # "answered"
    BY <1>3 DEF WaitResults
  <2> QED
    BY <1>1, <2>1, <2>2, <2>3, WaiterEnds
<1>4. CASE Unanswered(c) /\ waiter' = [waiter EXCEPT ![c] = "failed"]
  BY <1>3, <1>4
<1>5. CASE Forgotten(c) /\ waiter' = [waiter EXCEPT ![c] = "gave up"]
  BY <1>3, <1>5
<1> QED
  BY <1>2, <1>4, <1>5 DEF WaiterReturns, WaiterTimesOut, Left

LEMMA KeepaliveMoves ==
  ASSUME ProviderInv, NEW c \in Clients, Keepalive(c)
  PROVE  ProviderInv'
<1>1. /\ UNCHANGED serverVars /\ UNCHANGED <<asked, payload>>
      /\ promise' = promise /\ pc' = pc /\ waiter' = waiter /\ pending' = pending /\ reply' = reply
      /\ gone' = gone /\ ticks[c] < MaxKeepalives /\ ticks' = [ticks EXCEPT ![c] = @ + 1]
  BY DEF Keepalive, requestVars
<1>2. ticks' \in [Clients -> 0 .. MaxKeepalives]
  <2>1. ticks \in [Clients -> 0 .. MaxKeepalives] /\ MaxKeepalives \in Nat
    BY Unmoved, ProviderAssumption
  <2>2. ticks[c] + 1 \in 0 .. MaxKeepalives
    BY <1>1, <2>1
  <2> QED
    BY <1>1, <2>1, <2>2
<1>3. Framed(c) /\ Request(c)
  BY <1>1, <1>2, Unmoved, RequestKept DEF Framed
<1>4. Staged(c)
  BY <1>1, Unmoved DEF Staged
<1> QED
  BY <1>1, <1>3, <1>4, ClientMoves

LEMMA TakeResultMoves ==
  ASSUME ProviderInv, NEW c \in Clients, TakeResult(c)
  PROVE  ProviderInv'
<1>1. /\ At(c, "selecting") /\ waiter[c] \in WaitResults /\ Writes(c, Events(c))
      /\ Sets(waiter, waiter', c, "none")
      /\ UNCHANGED serverVars /\ UNCHANGED <<asked, payload>> /\ promise' = promise /\ reply' = reply
      /\ gone' = gone /\ ticks' = ticks
  BY DEF TakeResult, Sets, requestVars
<1>2. OnlyAt(pc, pc', c) /\ pc'[c] = "writing" /\ OnlyAt(pending, pending', c) /\ pending'[c] = Events(c)
  BY <1>1, WritesAll
<1>3. OnlyAt(waiter, waiter', c) /\ waiter'[c] = "none"
  <2>1. IsFcn(waiter)
    BY DEF ProviderInv, Shapes
  <2> QED
    BY <1>1, <2>1, OnlyAtSet
<1>4. Framed(c) /\ Request(c)
  BY <1>1, <1>2, <1>3, Unmoved, RequestKept DEF Framed
<1>5. Staged(c)
  <2> DEFINE p == promise[c]
  <2>1. Stage(p, "selecting", waiter[c], pending[c], reply[c], gone[c])
    BY <1>1, Unmoved DEF At
  <2>2. /\ PromiseOK(p) /\ p.phase = "answered" /\ (waiter[c] = "answered" <=> p.answer # NoCompletion)
        /\ waiter[c] # "answered" => waiter[c] \in Codes(p)
        /\ reply[c] = <<Opening>> \/ (gone[c] /\ reply[c] = <<>>)
    <3> HIDE DEF Opening
    <3> QED
      BY <1>1, <2>1 DEF Stage, WaiterOK, WaitResults
  <2>3. Written(p, Events(c), reply[c], gone[c]) /\ Events(c) # <<>>
    <3> HIDE DEF p
    <3>1. CASE waiter[c] # "answered"
      <4>1. Events(c) = Error(waiter[c]) \o <<Done>>
        BY <3>1 DEF Events, Done
      <4> QED
        BY <2>2, <3>1, <4>1, StreamBegins
    <3>2. CASE waiter[c] = "answered"
      <4>1. LET chunks == Chunks(p.answer)
            IN  Events(c) = [i \in DOMAIN chunks |-> Event("chunk", EncodeStreamChunk(chunks[i]))] \o <<Done>>
        BY <3>2 DEF Events, Done, p
      <4> QED
        BY <2>2, <3>2, <4>1, StreamBegins
    <3> QED
      BY <3>1, <3>2
  <2>4. Stage(p, "writing", "none", Events(c), reply[c], gone[c])
    BY <2>2, <2>3 DEF Stage, WaiterOK
  <2> QED
    BY <1>1, <1>2, <1>3, <2>4 DEF Staged
<1> QED
  BY <1>1, <1>4, <1>5, ClientMoves

LEMMA LeaveStreamMoves ==
  ASSUME ProviderInv, NEW c \in Clients, LeaveStream(c)
  PROVE  ProviderInv'
<1>1. /\ At(c, "selecting") /\ gone[c] /\ Go(c, "over")
      /\ UNCHANGED serverVars /\ UNCHANGED <<asked, payload>> /\ promise' = promise /\ reply' = reply
      /\ waiter' = waiter /\ pending' = pending /\ gone' = gone /\ ticks' = ticks
  BY DEF LeaveStream, requestVars
<1>2. OnlyAt(pc, pc', c) /\ pc'[c] = "over"
  BY <1>1, GoesTo
<1>3. Framed(c) /\ Request(c)
  BY <1>1, <1>2, Unmoved, RequestKept DEF Framed
<1>4. Staged(c)
  <2>1. Stage(promise[c], "selecting", waiter[c], pending[c], reply[c], gone[c])
    BY <1>1, Unmoved DEF At
  <2>2. Stage(promise[c], "over", waiter[c], pending[c], reply[c], gone[c])
    <3> HIDE DEF Opening
    <3> QED
      BY <1>1, <2>1 DEF Stage
  <2> QED
    BY <1>1, <1>2, <2>2 DEF Staged
<1> QED
  BY <1>1, <1>3, <1>4, ClientMoves

LEMMA WriteMoves ==
  ASSUME ProviderInv, NEW c \in Clients, Write(c)
  PROVE  ProviderInv'
<1> DEFINE tail == Tail(pending[c])
           at == IF Len(pending[c]) = 1 THEN "over" ELSE "writing"
<1>0. IsFcn(pending)
  BY DEF ProviderInv, Shapes
<1>1. /\ At(c, "writing") /\ Got(c, Head(pending[c])) /\ Sets(pending, pending', c, tail)
      /\ IF Len(pending[c]) = 1 THEN Go(c, "over") ELSE UNCHANGED pc
      /\ UNCHANGED serverVars /\ UNCHANGED <<asked, payload>> /\ promise' = promise /\ waiter' = waiter
      /\ gone' = gone /\ ticks' = ticks
  BY <1>0 DEF Write, Sets, requestVars, IsFcn
<1>2. OnlyAt(pending, pending', c) /\ pending'[c] = tail
  <2> HIDE DEF tail
  <2> QED
    BY <1>0, <1>1, OnlyAtSet
<1>3. OnlyAt(pc, pc', c) /\ pc'[c] = at
  BY <1>1, GoesTo, Unmoved DEF At
<1>4. OnlyAt(reply, reply', c) /\ reply'[c] = IF gone[c] THEN reply[c] ELSE Append(reply[c], Head(pending[c]))
  BY <1>1, GotOne
<1>5. Framed(c) /\ Request(c)
  BY <1>1, <1>2, <1>3, <1>4, Unmoved, RequestKept DEF Framed
<1>6. Staged(c)
  <2>1. Stage(promise[c], "writing", waiter[c], pending[c], reply[c], gone[c]) /\ gone[c] \in BOOLEAN
    BY <1>1, Unmoved DEF At
  <2>2. /\ PromiseOK(promise[c]) /\ waiter[c] = "none" /\ pending[c] # <<>>
        /\ Written(promise[c], pending[c], reply[c], gone[c])
    BY <2>1 DEF Stage
  <2>3. Written(promise[c], tail, reply'[c], gone[c]) /\ (Len(pending[c]) = 1 <=> tail = <<>>)
    BY <1>4, <2>1, <2>2, WritingGoesOn
  <2>4. Stage(promise[c], at, "none", tail, reply'[c], gone[c])
    <3> HIDE DEF tail
    <3> QED
      BY <2>2, <2>3 DEF Stage, WaiterOK, WaitResults
  <2> QED
    BY <1>1, <1>2, <1>3, <2>2, <2>4 DEF Staged
<1> QED
  BY <1>1, <1>5, <1>6, ClientMoves

LEMMA DisconnectMoves ==
  ASSUME ProviderInv, NEW c \in Clients, Disconnect(c)
  PROVE  ProviderInv'
<1>1. /\ ~gone[c] /\ gone' = [gone EXCEPT ![c] = TRUE]
      /\ UNCHANGED serverVars /\ UNCHANGED <<asked, payload>> /\ promise' = promise /\ reply' = reply
      /\ waiter' = waiter /\ pending' = pending /\ pc' = pc /\ ticks' = ticks
  BY DEF Disconnect, requestVars
<1>2. gone' \in [Clients -> BOOLEAN] /\ gone'[c] = TRUE /\ \A d \in Clients \ {c} : gone'[d] = gone[d]
  BY <1>1, Unmoved
<1>3. Framed(c) /\ Request(c)
  BY <1>1, <1>2, Unmoved, RequestKept DEF Framed
<1>4. Staged(c)
  <2>1. Stage(promise[c], pc[c], waiter[c], pending[c], reply[c], FALSE)
    BY <1>1, Unmoved
  <2>2. Written(promise[c], pending[c], reply[c], FALSE) => Written(promise[c], pending[c], reply[c], TRUE)
    BY DEF Written, Part
  <2>3. Stage(promise[c], pc[c], waiter[c], pending[c], reply[c], TRUE)
    <3> HIDE DEF Opening
    <3> QED
      BY <2>1, <2>2 DEF Stage
  <2> QED
    BY <1>1, <1>2, <2>3 DEF Staged
<1> QED
  BY <1>1, <1>3, <1>4, ClientMoves

----------------------------------------------------------------------------
(* The steps of the server.                                                *)

ServerStep == Start \/ ServeFails \/ CloseBegins \/ ShutdownBegins \/ ShutdownEnds

LEMMA ServerStepMoves ==
  ASSUME ProviderInv, ServerStep
  PROVE  ProviderInv'
<1>1. /\ promise' = promise /\ asked' = asked /\ payload' = payload /\ pc' = pc /\ waiter' = waiter
      /\ pending' = pending /\ reply' = reply /\ gone' = gone /\ ticks' = ticks
  BY DEF ServerStep, Start, ServeFails, CloseBegins, ShutdownBegins, ShutdownEnds, requestVars
<1>2. ServerOK
  BY DEF ProviderInv
<1>3. ServerOK'
  <2>1. CASE Start
    BY <1>2, <2>1 DEF ServerOK, Start
  <2>2. CASE ServeFails
    BY <1>2, <2>2 DEF ServerOK, ServeFails
  <2>3. CASE CloseBegins
    BY <1>2, <2>3 DEF ServerOK, CloseBegins
  <2>4. CASE ShutdownBegins
    BY <1>2, <2>4 DEF ServerOK, ShutdownBegins
  <2>5. CASE ShutdownEnds
    BY <1>2, <2>5 DEF ServerOK, ShutdownEnds, Stopped
  <2> QED
    BY <2>1, <2>2, <2>3, <2>4, <2>5 DEF ServerStep
<1>4. Shapes'
  BY <1>1 DEF ProviderInv, Shapes
<1>5. ASSUME NEW c \in Clients
      PROVE  /\ Stage(promise[c], pc[c], waiter[c], pending[c], reply[c], gone[c])'
             /\ AskedOK(asked[c], payload[c])'
  BY <1>1 DEF ProviderInv
<1> QED
  BY <1>3, <1>4, <1>5 DEF ProviderInv

LEMMA CloseBrokerMoves ==
  ASSUME ProviderInv, CloseBroker
  PROVE  ProviderInv'
<1>1. /\ pc' = pc /\ waiter' = waiter /\ pending' = pending /\ reply' = reply /\ gone' = gone /\ ticks' = ticks
      /\ asked' = [c \in Clients |-> Nothing]
      /\ payload' = [c \in Clients |-> [payload[c] EXCEPT !.messages = <<>>]]
      /\ promise' = [c \in Clients |->
           IF promise[c].phase = "open" THEN [promise[c] EXCEPT !.phase = "failed"] ELSE promise[c]]
  BY DEF CloseBroker
<1>2. ServerOK'
  <2>1. ServerOK
    BY DEF ProviderInv
  <2>2. CASE closing = "broker"
    BY <2>1, <2>2 DEF ServerOK, CloseBroker
  <2>3. CASE closing # "broker"
    <3>1. /\ provider' = [state |-> "stopped", server |-> FALSE, open |-> FALSE, error |-> FALSE]
          /\ closing' = "done" /\ down' = TRUE
      BY <2>3 DEF CloseBroker, Stopped
    <3> QED
      BY <3>1 DEF ServerOK
  <2> QED
    BY <2>2, <2>3
<1>3. Shapes'
  <2>1. IsFcn(promise') /\ IsFcn(asked') /\ IsFcn(payload')
    BY <1>1 DEF IsFcn
  <2>2. Shapes
    BY DEF ProviderInv
  <2> QED
    BY <1>1, <2>1, <2>2 DEF Shapes
<1>4. ASSUME NEW c \in Clients
      PROVE  Stage(promise[c], pc[c], waiter[c], pending[c], reply[c], gone[c])'
  <2>1. Stage(promise[c], pc[c], waiter[c], pending[c], reply[c], gone[c])
    BY Unmoved
  <2>2. CASE promise[c].phase = "open"
    <3> DEFINE q == [promise[c] EXCEPT !.phase = "failed"]
    <3>1. promise'[c] = q /\ Broker!Fail(promise[c], q)
      BY <1>1, <2>2 DEF Broker!Fail
    <3>2. PromiseOK(promise[c])
      BY <2>1 DEF Stage
    <3> HIDE DEF q
    <3>3. promise[c].phase \in Live /\ PromiseOK(q) /\ q.phase \in Live
      BY <3>1, <3>2, AgentStep
    <3>4. Stage(q, pc[c], waiter[c], pending[c], reply[c], gone[c])
      BY <2>1, <3>3, PromiseMoves
    <3> QED
      BY <1>1, <3>1, <3>4
  <2>3. CASE promise[c].phase # "open"
    <3>1. promise'[c] = promise[c]
      BY <1>1, <2>3
    <3> QED
      BY <1>1, <2>1, <3>1
  <2> QED
    BY <2>2, <2>3
<1>5. ASSUME NEW c \in Clients
      PROVE  AskedOK(asked[c], payload[c])'
  BY <1>1 DEF AskedOK
<1> QED
  BY <1>2, <1>3, <1>4, <1>5 DEF ProviderInv

----------------------------------------------------------------------------
(* The invariant holds.                                                    *)

LEMMA ProviderInit == Init => ProviderInv
<1> SUFFICES ASSUME Init
             PROVE  ProviderInv
  OBVIOUS
<1>1. Shapes
  BY ProviderAssumption DEF Init, Broker!Init, Shapes, IsFcn
<1>2. ServerOK
  BY DEF Init, ServerOK
<1>3. ASSUME NEW c \in Clients
      PROVE  Stage(promise[c], pc[c], waiter[c], pending[c], reply[c], gone[c])
  <2>1. /\ promise[c] = Broker!New /\ pc[c] = "idle" /\ waiter[c] = "none" /\ pending[c] = <<>> /\ reply[c] = <<>>
        /\ gone[c] = FALSE
    BY DEF Init, Broker!Init
  <2>2. Stage(Broker!New, "idle", "none", <<>>, <<>>, FALSE)
    BY NewPromise DEF Stage, WaiterOK, WaitResults
  <2> QED
    BY <2>1, <2>2
<1>4. ASSUME NEW c \in Clients
      PROVE  AskedOK(asked[c], payload[c])
  BY DEF Init, AskedOK
<1> QED
  BY <1>1, <1>2, <1>3, <1>4 DEF ProviderInv

LEMMA ProviderStutters ==
  ASSUME ProviderInv, UNCHANGED vars
  PROVE  ProviderInv'
BY DEF vars, serverVars, requestVars, ProviderInv, Shapes, ServerOK, IsFcn

\* Every step of the provider keeps what its handlers rely on: a promise is waited
\* for by whoever has its request, and what is written to a client, with what is
\* still to be written, is one of the replies there are.
THEOREM ProviderInductive == Spec => []ProviderInv
<1>1. Init => ProviderInv
  BY ProviderInit
<1>2. ASSUME ProviderInv, [Next]_vars
      PROVE  ProviderInv'
  <2>1. CASE ServerStep
    BY <1>2, <2>1, ServerStepMoves
  <2>2. CASE CloseBroker
    BY <1>2, <2>2, CloseBrokerMoves
  <2>3. CASE UNCHANGED vars
    BY <1>2, <2>3, ProviderStutters
  <2>4. ASSUME NEW c \in Clients, Arrive(c) \/ Read(c) \/ ReadFails(c) \/ Disconnect(c)
        PROVE  ProviderInv'
    BY <1>2, <2>4, ArriveMoves, ReadMoves, ReadFailsMoves, DisconnectMoves
  <2>5. ASSUME NEW c \in Clients, Hand(c) \/ Fail(c) \/ \E a \in Answers : Settle(c, a)
        PROVE  ProviderInv'
    BY <1>2, <2>5, HandMoves, FailMoves, SettleMoves
  <2>6. ASSUME NEW c \in Clients, Handler(c)
        PROVE  ProviderInv'
    BY <1>2, <2>6, WaitMoves, OpenStreamMoves, TakeResultMoves, LeaveStreamMoves, WriteMoves DEF Handler
  <2>7. ASSUME NEW c \in Clients, WaitTimesOut(c) \/ Keepalive(c) \/ WaiterReturns(c) \/ WaiterTimesOut(c)
        PROVE  ProviderInv'
    BY <1>2, <2>7, WaitMoves, KeepaliveMoves, WaiterMoves
  <2> QED
    BY <1>2, <2>1, <2>2, <2>3, <2>4, <2>5, <2>6, <2>7 DEF Next, ServerStep
<1> QED
  BY <1>1, <1>2, PTL DEF Spec

----------------------------------------------------------------------------
(* What the invariant says of the events.                                  *)

\* Every event belongs to a script, or opens a stream.
Scripted(p, event) == event = Opening \/ \E s \in Scripts(p) : \E i \in 1 .. Len(s) : event = s[i]

LEMMA WrittenEvents ==
  ASSUME NEW p, NEW more, NEW got, NEW left, Written(p, more, got, left)
  PROVE  \A event \in ToSet(more) \cup ToSet(got) : Scripted(p, event)
<1>1. PICK s \in Scripts(p) : \E n, m \in 0 .. Len(s) : Part(s, n, m, more, got, left)
  BY DEF Written
<1>2. PICK n \in 0 .. Len(s), m \in 0 .. Len(s) : Part(s, n, m, more, got, left)
  BY <1>1
<1> DEFINE V == {s[i] : i \in 1 .. Len(s)}
<1>3. s \in Seq(V) /\ Len(s) \in Nat /\ \A i \in 1 .. Len(s) : s[i] \in V
  BY ScriptSequence
<1>4. \A v \in V : Scripted(p, v)
  BY DEF Scripted
<1> HIDE DEF V
<1>5. more \in Seq(V) /\ got \in Seq(V)
  <2>1. more = SubSeq(s, n + 1, Len(s)) /\ got = SubSeq(s, 1, m)
    BY <1>2 DEF Part
  <2>2. (\A i \in n + 1 .. Len(s) : s[i] \in V) /\ (\A i \in 1 .. m : s[i] \in V)
    BY <1>3
  <2> QED
    BY <1>3, <2>1, <2>2, SubSeqProperties
<1>6. ToSet(more) \subseteq V /\ ToSet(got) \subseteq V
  BY <1>5 DEF ToSet
<1> QED
  BY <1>4, <1>6

LEMMA StageEvents ==
  ASSUME NEW p, NEW at, NEW w, NEW more, NEW got, NEW left, Stage(p, at, w, more, got, left)
  PROVE  \A event \in ToSet(more) \cup ToSet(got) : Scripted(p, event)
<1>1. ToSet(<<>>) = {} /\ ToSet(<<Opening>>) = {Opening}
  BY DEF ToSet
<1>2. CASE Written(p, more, got, left)
  BY <1>2, WrittenEvents
<1>3. CASE ~Written(p, more, got, left)
  <2>1. more = <<>> /\ got \in {<<>>, <<Opening>>}
    <3> HIDE DEF Opening
    <3> QED
      BY <1>3 DEF Stage
  <2>2. \A event \in ToSet(more) \cup ToSet(got) : event = Opening
    BY <1>1, <2>1
  <2> QED
    BY <2>2 DEF Scripted
<1> QED
  BY <1>2, <1>3

\* The error that is sent suits what became of the request.
LEMMA ScriptedEvents ==
  ASSUME NEW p, NEW event, Scripted(p, event)
  PROVE  /\ event.kind \in Kinds
         /\ event.kind = "error" => event = Event("error", event.value) /\ event.value \in Codes(p)
<1>0. /\ \A k, v : Event(k, v).kind = k /\ Event(k, v).value = v
      /\ Opening.kind = "open" /\ Done.kind = "done"
  BY DEF Event, Opening, Done
<1>1. CASE event = Opening
  BY <1>0, <1>1 DEF Kinds
<1>2. ASSUME NEW s \in Scripts(p), NEW i \in 1 .. Len(s), event = s[i]
      PROVE  /\ event.kind \in Kinds
             /\ event.kind = "error" => event = Event("error", event.value) /\ event.value \in Codes(p)
  <2>1. ASSUME NEW code \in Codes(p), s = <<Event("error", code)>>
        PROVE  event.kind \in Kinds /\ event = Event("error", event.value) /\ event.value \in Codes(p)
    <3>1. event = Event("error", code)
      BY <1>2, <2>1
    <3> QED
      BY <2>1, <3>1 DEF Event, Kinds
  <2>2. ASSUME NEW code \in Codes(p), s = <<Opening, Event("error", code), Done>>
        PROVE  event.kind \in Kinds /\ (event.kind = "error" => event = Event("error", event.value) /\ event.value \in Codes(p))
    <3>1. event = Opening \/ event = Event("error", code) \/ event = Done
      BY <1>2, <2>2
    <3>2. Event("error", code).kind = "error" /\ Event("error", code).value = code
      BY <1>0
    <3>3. CASE event = Event("error", code)
      BY <2>2, <3>2, <3>3 DEF Kinds
    <3>4. CASE event = Opening \/ event = Done
      BY <1>0, <3>4 DEF Kinds
    <3> QED
      BY <3>1, <3>3, <3>4
  <2>3. CASE s = BodyScript(p.answer)
    <3>1. event = Event("body", EncodeCompletion(p.answer))
      BY <1>2, <2>3 DEF BodyScript
    <3> QED
      BY <3>1 DEF Event, Kinds
  <2>4. CASE s = StreamScript(p.answer)
    <3>1. \/ event = Opening \/ event = Done
          \/ \E v : event = Event("chunk", v)
      BY <1>2, <2>4 DEF StreamScript
    <3>2. event.kind \in {"open", "done", "chunk"}
      BY <1>0, <3>1
    <3> QED
      BY <3>2 DEF Kinds
  <2>5. \/ s \in ErrorScripts(p)
        \/ s = BodyScript(p.answer) \/ s = StreamScript(p.answer)
    BY DEF Scripts
  <2> QED
    BY <2>1, <2>2, <2>3, <2>4, <2>5 DEF ErrorScripts
<1> QED
  BY <1>1, <1>2 DEF Scripted

LEMMA InvariantTypes == ProviderInv => TypeOK
<1> SUFFICES ASSUME ProviderInv
             PROVE  TypeOK
  OBVIOUS
<1>1. ServerOK /\ gone \in [Clients -> BOOLEAN] /\ ticks \in [Clients -> 0 .. MaxKeepalives]
      /\ IsFcn(promise) /\ IsFcn(pc) /\ IsFcn(waiter)
  BY DEF ProviderInv, Shapes
<1>2. ASSUME NEW c \in Clients
      PROVE  /\ promise[c] \in Broker!Promises
             /\ pc[c] \in {"idle", "reading", "waiting", "opening", "selecting", "writing", "over"}
             /\ waiter[c] \in {"none", "waiting"} \cup WaitResults
             /\ \A event \in ToSet(pending[c]) \cup ToSet(reply[c]) : event.kind \in Kinds
             /\ pending[c] # <<>> <=> At(c, "writing")
             /\ waiter[c] = "answered" => promise[c].answer # NoCompletion
  <2>1. Stage(promise[c], pc[c], waiter[c], pending[c], reply[c], gone[c])
    BY Unmoved
  <2>2. /\ PromiseOK(promise[c]) /\ WaiterOK(promise[c], waiter[c])
        /\ pc[c] \in {"idle", "reading", "waiting", "opening", "selecting", "writing", "over"}
        /\ pending[c] # <<>> <=> pc[c] = "writing"
    BY <2>1 DEF Stage
  <2>3. \A event \in ToSet(pending[c]) \cup ToSet(reply[c]) : event.kind \in Kinds
    BY <2>1, StageEvents, ScriptedEvents
  <2>4. promise[c] \in Broker!Promises
    BY <2>2 DEF PromiseOK
  <2>5. /\ waiter[c] \in {"none", "waiting"} \cup WaitResults
        /\ waiter[c] = "answered" => promise[c].answer # NoCompletion
    BY <2>2 DEF WaiterOK
  <2>6. pending[c] # <<>> <=> At(c, "writing")
    BY <2>2 DEF At
  <2> QED
    BY <2>2, <2>3, <2>4, <2>5, <2>6
<1>3. promise \in [Clients -> Broker!Promises]
  BY <1>1, <1>2 DEF IsFcn
<1>4. pc \in [Clients -> {"idle", "reading", "waiting", "opening", "selecting", "writing", "over"}]
  BY <1>1, <1>2 DEF IsFcn
<1>5. waiter \in [Clients -> {"none", "waiting"} \cup WaitResults]
  BY <1>1, <1>2 DEF IsFcn
<1>6. {down} \cup {gone[c] : c \in Clients} \subseteq BOOLEAN
  BY <1>1 DEF ServerOK
<1> QED
  BY <1>1, <1>2, <1>3, <1>4, <1>5, <1>6 DEF TypeOK, ServerOK

LEMMA InvariantConvertible == ProviderInv => NeverUnconvertible
<1> SUFFICES ASSUME ProviderInv, NEW c \in Clients, NEW event \in ToSet(pending[c]) \cup ToSet(reply[c]),
                    event.kind = "error"
             PROVE  event.value # "unconvertible"
  BY DEF NeverUnconvertible
<1>1. Stage(promise[c], pc[c], waiter[c], pending[c], reply[c], gone[c])
  BY Unmoved
<1>2. Scripted(promise[c], event)
  BY <1>1, StageEvents
<1> QED
  BY <1>2, ScriptedEvents DEF Codes

LEMMA InvariantWords == ProviderInv => WordsKept
<1> SUFFICES ASSUME ProviderInv, NEW c \in Clients, asked[c] # Nothing
             PROVE  WordsOf(asked[c].messages, payload[c].messages)
  BY DEF WordsKept, WordsOf
<1> DEFINE raw == asked[c]
<1>1. raw \in RawRequests /\ Decodable(raw) /\ payload[c].messages = Optimize(DecodeRequest(raw)).messages
  BY DEF ProviderInv, AskedOK
<1>2. raw \in RawRequestRecords /\ \A i \in DOMAIN raw.messages : CallsGiven(raw.messages[i])
  BY <1>1, ProviderAssumption
<1> HIDE DEF raw
<1>3. /\ Readable(raw.messages)
      /\ payload[c].messages = Kept(Decoded(raw.messages))[Len(Decoded(raw.messages))]
  BY <1>1, <1>2, OptimizerEncodable
<1>4. WordsOf(raw.messages, payload[c].messages)
  BY <1>3, OptimizerKeepsWords
<1> QED
  BY <1>4 DEF raw

----------------------------------------------------------------------------
(* What a client makes of its reply.                                       *)

\* The encoding of a chunk loses nothing.
LEMMA ChunkWire ==
  ASSUME NEW chunk, chunk = [f \in DOMAIN NoDeltas |-> chunk[f]]
  PROVE  DecodeStreamChunk(EncodeStreamChunk(chunk)) = chunk
<1> DEFINE F == DOMAIN NoDeltas
           wire == EncodeStreamChunk(chunk)
<1>1. DOMAIN chunk = F
  OBVIOUS
<1>2. wire = [field \in {f \in F : chunk[f] # NoDeltas[f]} |-> chunk[field]]
  BY <1>1 DEF EncodeStreamChunk
<1> HIDE DEF wire
<1>3. \A f \in F : (IF f \in DOMAIN wire THEN wire[f] ELSE NoDeltas[f]) = chunk[f]
  BY <1>2
<1>4. DecodeStreamChunk(wire) = [f \in F |-> chunk[f]]
  BY <1>3 DEF DecodeStreamChunk
<1> QED
  BY <1>4 DEF wire

LEMMA ChunksDecoded ==
  ASSUME NEW c, NEW decoded, DOMAIN decoded = {1, 2},
         \A i \in {1, 2} : decoded[i] = DecodeStreamChunk(EncodeStreamChunk(Chunks(c)[i]))
  PROVE  ChunksOf(c, decoded)
<1> DEFINE calls == [k \in DOMAIN c.calls |->
             [index |-> k - 1, id |-> c.calls[k].id, name |-> c.calls[k].name, args |-> c.calls[k].args]]
           first == [role |-> "assistant", content |-> c.content, calls |-> calls, finish |-> ""]
           second == [role |-> "", content |-> "", calls |-> <<>>, finish |-> c.finish]
<1> HIDE DEF calls
<1>1. DOMAIN NoDeltas = {"role", "content", "calls", "finish"}
  BY DEF NoDeltas
<1>2. Chunks(c)[1] = first /\ Chunks(c)[2] = second
  BY DEF Chunks, NoDeltas, calls
<1>3. first = [f \in DOMAIN NoDeltas |-> first[f]] /\ second = [f \in DOMAIN NoDeltas |-> second[f]]
  BY <1>1
<1>4. /\ first.content = c.content /\ first.finish = "" /\ first.calls = calls
      /\ second.content = "" /\ second.finish = c.finish /\ second.calls = <<>>
  OBVIOUS
<1> HIDE DEF first, second
<1>5. decoded[1] = first /\ decoded[2] = second
  BY <1>2, <1>3, ChunkWire
<1> QED
  BY <1>4, <1>5 DEF ChunksOf, calls

LEMMA BodyIsHeard ==
  ASSUME NEW v, Canonical(v), NEW c, reply[c] = BodyScript(v)
  PROVE  Heard(c) = v
<1> DEFINE e == Event("body", EncodeCompletion(v))
<1>1. e.kind = "body" /\ e.value = EncodeCompletion(v)
  BY DEF Event
<1>2. reply[c] = <<e>>
  BY DEF BodyScript
<1> HIDE DEF e
<1>3. Head(reply[c]) = e /\ ToSet(reply[c]) = {e}
  BY <1>2 DEF ToSet
<1>4. Kind(c, "body") /\ Head(reply[c]).value = EncodeCompletion(v)
  BY <1>1, <1>3 DEF Kind
<1> QED
  BY <1>4, BodyHeard DEF Heard

LEMMA StreamIsHeard ==
  ASSUME NEW v, Canonical(v), NEW c, reply[c] = StreamScript(v)
  PROVE  Heard(c) = v
<1> DEFINE e1 == Event("chunk", EncodeStreamChunk(Chunks(v)[1]))
           e2 == Event("chunk", EncodeStreamChunk(Chunks(v)[2]))
           chunks == SubSeq(reply[c], 2, Len(reply[c]) - 1)
           decoded == [i \in DOMAIN chunks |-> DecodeStreamChunk(chunks[i].value)]
<1>1. /\ e1.kind = "chunk" /\ e1.value = EncodeStreamChunk(Chunks(v)[1])
      /\ e2.kind = "chunk" /\ e2.value = EncodeStreamChunk(Chunks(v)[2])
      /\ Opening.kind = "open" /\ Done.kind = "done"
  BY DEF Event, Opening, Done
<1>2. reply[c] = <<Opening, e1, e2, Done>>
  BY DEF StreamScript
<1> HIDE DEF e1, e2, Opening, Done
<1>3. /\ reply[c] \in Seq({Opening, e1, e2, Done}) /\ Len(reply[c]) = 4 /\ reply[c][2] = e1 /\ reply[c][3] = e2
      /\ ToSet(reply[c]) = {Opening, e1, e2, Done}
  BY <1>2 DEF ToSet
<1>4. ~Kind(c, "body")
  BY <1>1, <1>3 DEF Kind
<1>5. DOMAIN chunks = {1, 2} /\ chunks[1] = e1 /\ chunks[2] = e2
  <2> DEFINE s == reply[c]
  <2>1. s[2] = e1 /\ s[3] = e2 /\ \A i \in 2 .. 3 : s[i] \in {e1, e2}
    BY <1>3
  <2> HIDE DEF s
  <2>2. SubSeq(s, 2, 3) \in Seq({e1, e2}) /\ Len(SubSeq(s, 2, 3)) = (IF 2 <= 3 THEN 3 - 2 + 1 ELSE 0)
    BY <2>1, SubSeqProperties
  <2>3. \A i \in 1 .. 3 - 2 + 1 : SubSeq(s, 2, 3)[i] = s[2 + i - 1]
    BY <2>1, SubSeqProperties
  <2>4. DOMAIN SubSeq(s, 2, 3) = {1, 2} /\ SubSeq(s, 2, 3)[1] = s[2] /\ SubSeq(s, 2, 3)[2] = s[3]
    BY <2>2, <2>3
  <2>5. chunks = SubSeq(s, 2, 3)
    BY <1>3 DEF s
  <2> QED
    BY <2>1, <2>4, <2>5
<1>6. ChunksOf(v, decoded)
  <2> HIDE DEF chunks
  <2>1. DOMAIN decoded = {1, 2} /\ decoded[1] = DecodeStreamChunk(e1.value) /\ decoded[2] = DecodeStreamChunk(e2.value)
    BY <1>5
  <2> HIDE DEF decoded
  <2> QED
    BY <1>1, <2>1, ChunksDecoded
<1>7. Assembles(decoded) /\ Assembled(decoded) = EncodeCompletion(v)
  <2> HIDE DEF decoded
  <2> QED
    BY <1>6, ChunksAssemble
<1>8. AnswerOK(EncodeCompletion(v)) /\ Completion(EncodeCompletion(v)) = v
  BY BodyHeard
<1>9. Heard(c) = IF AnswerOK(Assembled(decoded)) /\ Assembles(decoded)
                 THEN Completion(Assembled(decoded)) ELSE NoCompletion
  BY <1>4 DEF Heard
<1> HIDE DEF decoded
<1> QED
  BY <1>7, <1>8, <1>9

\* The kinds of the events of a reply.
KindsOf(got) == [i \in DOMAIN got |-> got[i].kind]

LEMMA ScriptKinds ==
  ASSUME NEW p, NEW s \in Scripts(p)
  PROVE  /\ \/ KindsOf(s) \in {<<"body">>, <<"error">>, <<"open", "error", "done">>}
            \/ KindsOf(s) = <<"open", "chunk", "chunk", "done">>
         /\ \A m \in 1 .. Len(s) : s[m].kind \in {"body", "done"} => m = Len(s)
<1>0. /\ \A k, v : Event(k, v).kind = k
      /\ Opening.kind = "open" /\ Done.kind = "done"
  BY DEF Event, Opening, Done
<1>1. ASSUME NEW e, e.kind \in {"body", "error"}, s = <<e>>
      PROVE  /\ KindsOf(s) \in {<<"body">>, <<"error">>}
             /\ \A m \in 1 .. Len(s) : s[m].kind \in {"body", "done"} => m = Len(s)
  <2>1. KindsOf(s) = <<e.kind>>
    BY <1>1 DEF KindsOf
  <2>2. Len(s) = 1
    BY <1>1
  <2> QED
    BY <1>1, <2>1, <2>2
<1>2. ASSUME NEW e, e.kind = "error", s = <<Opening, e, Done>>
      PROVE  /\ KindsOf(s) = <<"open", "error", "done">>
             /\ \A m \in 1 .. Len(s) : s[m].kind \in {"body", "done"} => m = Len(s)
  <2> HIDE DEF Opening, Done
  <2>1. DOMAIN s = {1, 2, 3} /\ s[1] = Opening /\ s[2] = e /\ s[3] = Done /\ Len(s) = 3
    BY <1>2
  <2>2. KindsOf(s) = <<"open", "error", "done">>
    BY <1>0, <1>2, <2>1 DEF KindsOf
  <2>3. \A m \in 1 .. Len(s) : m = 1 \/ m = 2 \/ m = 3
    BY <2>1
  <2>4. s[1].kind = "open" /\ s[2].kind = "error"
    BY <1>0, <1>2, <2>1
  <2> QED
    BY <2>1, <2>2, <2>3, <2>4
<1>3. ASSUME NEW e1, NEW e2, e1.kind = "chunk", e2.kind = "chunk", s = <<Opening, e1, e2, Done>>
      PROVE  /\ KindsOf(s) = <<"open", "chunk", "chunk", "done">>
             /\ \A m \in 1 .. Len(s) : s[m].kind \in {"body", "done"} => m = Len(s)
  <2> HIDE DEF Opening, Done
  <2>1. DOMAIN s = {1, 2, 3, 4} /\ s[1] = Opening /\ s[2] = e1 /\ s[3] = e2 /\ s[4] = Done /\ Len(s) = 4
    BY <1>3
  <2>2. KindsOf(s) = <<"open", "chunk", "chunk", "done">>
    BY <1>0, <1>3, <2>1 DEF KindsOf
  <2>3. \A m \in 1 .. Len(s) : m = 1 \/ m = 2 \/ m = 3 \/ m = 4
    BY <2>1
  <2>4. s[1].kind = "open" /\ s[2].kind = "chunk" /\ s[3].kind = "chunk"
    BY <1>0, <1>3, <2>1
  <2> QED
    BY <2>1, <2>2, <2>3, <2>4
<1>4. CASE s \in ErrorScripts(p)
  <2>1. CASE \E code \in Codes(p) : s = <<Event("error", code)>>
    BY <1>0, <1>1, <2>1
  <2>2. CASE \E code \in Codes(p) : s = <<Opening, Event("error", code), Done>>
    BY <1>0, <1>2, <2>2
  <2> QED
    BY <1>4, <2>1, <2>2 DEF ErrorScripts
<1>5. CASE s = BodyScript(p.answer)
  <2> DEFINE e == Event("body", EncodeCompletion(p.answer))
  <2>1. e.kind = "body" /\ s = <<e>>
    BY <1>0, <1>5 DEF BodyScript
  <2> HIDE DEF e
  <2> QED
    BY <1>1, <2>1
<1>6. CASE s = StreamScript(p.answer)
  <2> DEFINE e1 == Event("chunk", EncodeStreamChunk(Chunks(p.answer)[1]))
             e2 == Event("chunk", EncodeStreamChunk(Chunks(p.answer)[2]))
  <2>1. e1.kind = "chunk" /\ e2.kind = "chunk" /\ s = <<Opening, e1, e2, Done>>
    BY <1>0, <1>6 DEF StreamScript
  <2> HIDE DEF e1, e2
  <2> QED
    BY <1>3, <2>1
<1> QED
  BY <1>4, <1>5, <1>6 DEF Scripts

\* A reply that is written to the end, to a client that is there or has got its end,
\* is a script.
LEMMA Complete ==
  ASSUME NEW p, NEW more, NEW got, NEW left, Written(p, more, got, left),
         \/ ~left /\ more = <<>>
         \/ got # <<>> /\ Last(got).kind \in {"body", "done"}
  PROVE  got \in Scripts(p)
<1>1. PICK s \in Scripts(p) : \E n, m \in 0 .. Len(s) : Part(s, n, m, more, got, left)
  BY DEF Written
<1>2. PICK n \in 0 .. Len(s), m \in 0 .. Len(s) : Part(s, n, m, more, got, left)
  BY <1>1
<1> DEFINE V == {s[i] : i \in 1 .. Len(s)}
<1>3. s \in Seq(V) /\ Len(s) \in Nat /\ \A i \in 1 .. Len(s) : s[i] \in V
  BY ScriptSequence
<1> HIDE DEF V
<1>4. more = SubSeq(s, n + 1, Len(s)) /\ got = SubSeq(s, 1, m) /\ (~left => m = n)
  BY <1>2 DEF Part
<1>5. SubSeq(s, 1, Len(s)) = s
  BY <1>3, SubSeqFull
<1>6. CASE ~left /\ more = <<>>
  <2>1. n = Len(s)
    <3> SUFFICES ASSUME n # Len(s)
                 PROVE  FALSE
      OBVIOUS
    <3>0. n \in Nat /\ n + 1 \in Int /\ Len(s) \in Int /\ n + 1 <= Len(s)
      BY <1>3
    <3>1. /\ n + 1 \in Int /\ Len(s) \in Int /\ n + 1 <= Len(s)
          /\ \A i \in n + 1 .. Len(s) : s[i] \in V
      BY <1>3, <3>0
    <3>2. Len(more) = Len(s) - (n + 1) + 1
      BY <1>3, <1>4, <3>1, SubSeqProperties
    <3>3. Len(more) # 0
      BY <3>1, <3>2
    <3> QED
      BY <1>6, <3>3
  <2> QED
    BY <1>1, <1>4, <1>5, <1>6, <2>1
<1>7. CASE got # <<>> /\ Last(got).kind \in {"body", "done"}
  <2>1. m # 0
    BY <1>4, <1>7, SubSeqEmpty
  <2>2. Len(got) = m /\ got[m] = s[m]
    <3>1. 1 \in Int /\ m \in Int /\ 1 <= m /\ m \in 1 .. m /\ \A i \in 1 .. m : s[i] \in V
      BY <1>3, <2>1
    <3>2. Len(got) = m - 1 + 1
      BY <1>3, <1>4, <3>1, SubSeqProperties
    <3>3. \A i \in 1 .. m - 1 + 1 : got[i] = s[1 + i - 1]
      BY <1>3, <1>4, <3>1, SubSeqProperties
    <3> QED
      BY <3>1, <3>2, <3>3
  <2>3. s[m].kind \in {"body", "done"} /\ m \in 1 .. Len(s)
    BY <1>3, <1>7, <2>1, <2>2 DEF Last
  <2>4. m = Len(s)
    BY <1>1, <2>3, ScriptKinds
  <2> QED
    BY <1>1, <1>4, <1>5, <2>4
<1> QED
  BY <1>6, <1>7

\* What a client has got is a part of a script, or opens a stream.
LEMMA GotParts ==
  ASSUME NEW p, NEW at, NEW w, NEW more, NEW got, NEW left, Stage(p, at, w, more, got, left)
  PROVE  /\ got \in {<<>>, <<Opening>>} \/ Written(p, more, got, left)
         /\ at = "over" /\ ~left => more = <<>> /\ Written(p, more, got, left)
<1> HIDE DEF Opening
<1> QED
  BY DEF Stage

LEMMA GotEvents ==
  ASSUME NEW p, NEW more, NEW got, NEW left,
         got \in {<<>>, <<Opening>>} \/ Written(p, more, got, left)
  PROVE  \E V : got \in Seq(V)
<1>1. CASE got = <<>>
  <2>1. <<>> \in Seq({})
    BY EmptySeq
  <2> QED
    BY <1>1, <2>1
<1>2. CASE got = <<Opening>>
  <2>1. <<Opening>> \in Seq({Opening})
    OBVIOUS
  <2> QED
    BY <1>2, <2>1
<1>3. CASE Written(p, more, got, left)
  <2>1. PICK s \in Scripts(p) : \E n, m \in 0 .. Len(s) : Part(s, n, m, more, got, left)
    BY <1>3 DEF Written
  <2>2. PICK n \in 0 .. Len(s), m \in 0 .. Len(s) : Part(s, n, m, more, got, left)
    BY <2>1
  <2> DEFINE V == {s[i] : i \in 1 .. Len(s)}
  <2>3. Len(s) \in Nat /\ \A i \in 1 .. m : s[i] \in V
    BY ScriptSequence
  <2>4. got = SubSeq(s, 1, m)
    BY <2>2 DEF Part
  <2> HIDE DEF V
  <2>5. got \in Seq(V)
    BY <2>3, <2>4, SubSeqProperties
  <2> QED
    BY <2>5
<1> QED
  BY <1>1, <1>2, <1>3

LEMMA LastKind ==
  ASSUME NEW V, NEW got \in Seq(V), KindsOf(got) # <<>>
  PROVE  got # <<>> /\ Last(KindsOf(got)) = Last(got).kind
<1> DEFINE kinds == KindsOf(got)
           n == Len(got)
<1>1. n \in Nat /\ DOMAIN got = 1 .. n
  OBVIOUS
<1>2. kinds = [i \in 1 .. n |-> got[i].kind]
  BY <1>1 DEF KindsOf
<1> HIDE DEF kinds, n
<1>3. kinds \in Seq({got[i].kind : i \in 1 .. n}) /\ Len(kinds) = n
  BY <1>1, <1>2
<1>4. n # 0
  <2>1. kinds # <<>>
    BY DEF kinds
  <2> QED
    BY <1>3, <2>1, EmptySeq
<1>5. kinds[n] = got[n].kind
  BY <1>1, <1>2, <1>4
<1>6. got # <<>>
  BY <1>4 DEF n
<1> QED
  BY <1>3, <1>5, <1>6 DEF Last, kinds, n

LEMMA InvariantDelivered == ProviderInv => Delivered
<1> SUFFICES ASSUME ProviderInv, NEW c \in Clients
             PROVE  LET kinds == KindsOf(reply[c])
                        complete == kinds # <<>> /\ Last(kinds) \in {"body", "done"}
                    IN /\ At(c, "over") /\ ~gone[c] =>
                            \/ kinds \in {<<"body">>, <<"error">>, <<"open", "error", "done">>}
                            \/ kinds = <<"open", "chunk", "chunk", "done">>
                       /\ complete /\ ~Kind(c, "error") =>
                            promise[c].answer # NoCompletion /\ Heard(c) = promise[c].completion
                       /\ Kind(c, "error") /\ Event("error", "gave up") \notin ToSet(reply[c]) =>
                            promise[c].completion = NoCompletion
  BY DEF Delivered, KindsOf
<1> DEFINE p == promise[c]
           got == reply[c]
           kinds == KindsOf(got)
<1>1. Stage(p, pc[c], waiter[c], pending[c], got, gone[c])
  BY Unmoved
<1>2. PromiseOK(p)
  BY <1>1 DEF Stage
<1> HIDE DEF p, got
<1>3. Kind(c, "error") /\ Event("error", "gave up") \notin ToSet(got) => p.completion = NoCompletion
  <2>1. \A event \in ToSet(pending[c]) \cup ToSet(got) : Scripted(p, event)
    BY <1>1, StageEvents
  <2>2. ASSUME NEW event \in ToSet(got), event.kind = "error", p.completion # NoCompletion
        PROVE  event = Event("error", "gave up")
    <3>1. event.value \in Codes(p) /\ event = Event("error", event.value)
      BY <2>1, <2>2, ScriptedEvents
    <3>2. event.value = "gave up"
      BY <2>2, <3>1 DEF Codes
    <3> QED
      BY <3>1, <3>2
  <2> QED
    BY <2>2 DEF Kind, got
<1>4. ASSUME At(c, "over"), ~gone[c]
      PROVE  \/ kinds \in {<<"body">>, <<"error">>, <<"open", "error", "done">>}
             \/ kinds = <<"open", "chunk", "chunk", "done">>
  <2>1. pending[c] = <<>> /\ Written(p, pending[c], got, gone[c])
    BY <1>1, <1>4, GotParts DEF At
  <2>2. got \in Scripts(p)
    BY <1>4, <2>1, Complete
  <2> QED
    BY <2>2, ScriptKinds
<1>5. ASSUME kinds # <<>>, Last(kinds) \in {"body", "done"}, ~Kind(c, "error")
      PROVE  p.answer # NoCompletion /\ Heard(c) = p.completion
  <2>1. got \in {<<>>, <<Opening>>} \/ Written(p, pending[c], got, gone[c])
    BY <1>1, GotParts
  <2>2. PICK V : got \in Seq(V)
    BY <2>1, GotEvents
  <2>3. got # <<>> /\ Last(got).kind \in {"body", "done"}
    BY <1>5, <2>2, LastKind
  <2>4. got # <<Opening>>
    <3>1. Last(<<Opening>>) = Opening /\ Opening.kind = "open"
      BY DEF Last, Opening, Event
    <3> QED
      BY <2>3, <3>1
  <2>5. got \in Scripts(p)
    BY <2>1, <2>3, <2>4, Complete
  <2>6. got \notin ErrorScripts(p)
    <3>1. ASSUME NEW code, got = <<Event("error", code)>>
          PROVE  Kind(c, "error")
      <4>1. Event("error", code) \in ToSet(got) /\ Event("error", code).kind = "error"
        BY <3>1 DEF ToSet, Event
      <4> QED
        BY <4>1 DEF Kind, got
    <3>2. ASSUME NEW code, got = <<Opening, Event("error", code), Done>>
          PROVE  Kind(c, "error")
      <4>1. got[2] = Event("error", code) /\ 2 \in DOMAIN got
        BY <3>2
      <4>2. Event("error", code) \in ToSet(got) /\ Event("error", code).kind = "error"
        BY <4>1 DEF ToSet, Event
      <4> QED
        BY <4>2 DEF Kind, got
    <3> QED
      BY <1>5, <3>1, <3>2 DEF ErrorScripts
  <2>7. p.answer # NoCompletion /\ got \in {BodyScript(p.answer), StreamScript(p.answer)}
    BY <2>5, <2>6 DEF Scripts
  <2>8. p.answer = p.completion /\ Canonical(p.answer)
    <3>1. p.answer \in Completions \cup {NoCompletion}
      BY <1>2 DEF PromiseOK, Broker!Promises
    <3> QED
      BY <1>2, <2>7, <3>1, CompletionsKnown DEF PromiseOK
  <2>9. Heard(c) = p.answer
    BY <2>7, <2>8, BodyIsHeard, StreamIsHeard DEF got
  <2> QED
    BY <2>7, <2>8, <2>9
<1> QED
  BY <1>3, <1>4, <1>5 DEF p, got

----------------------------------------------------------------------------
(* The theorems.                                                           *)

\* The variables of the provider have the values the code gives them, and nothing
\* is left to write but by a handler that writes.
THEOREM ProviderTypes == Spec => []TypeOK
BY ProviderInductive, InvariantTypes, PTL

\* A client that stays gets one reply. Without an error, what it makes of the body,
\* or of the chunks of the stream, is the completion that the agent was told was
\* accepted; with one, none was accepted, unless the handler gave the request up.
THEOREM DeliveredHolds == Spec => []Delivered
BY ProviderInductive, InvariantDelivered, PTL

\* What DecodeRequest accepts, the bridge encodes, once the optimizer has been over it.
THEOREM NeverUnconvertibleHolds == Spec => []NeverUnconvertible
BY ProviderInductive, InvariantConvertible, PTL

\* The conversation that waits for the agent is the one that was sent, of any length,
\* but for neighbours that mean the same.
THEOREM WordsKeptHolds == Spec => []WordsKept
BY ProviderInductive, InvariantWords, PTL

----------------------------------------------------------------------------
(* The provider asks nothing of the broker but what AgentRequest promises.  *)

LEMMA OneRequestSteps ==
  ASSUME ProviderInv, TypeOK', NEW c \in Clients, NEW q, Sets(promise, promise', c, q),
         Broker!Step(promise[c], q)
  PROVE  Broker!Next
<1>1. IsFcn(promise)
  BY DEF ProviderInv, Shapes
<1>2. promise' \in [Clients -> Broker!Promises]
  BY DEF TypeOK
<1>3. promise'[c] = q /\ \A d \in Clients \ {c} : promise'[d] = promise[d]
  BY <1>1, OnlyAtSet DEF OnlyAt
<1>4. \A d \in Clients : Broker!Step(promise[d], promise'[d]) \/ promise'[d] = promise[d]
  BY <1>3
<1> QED
  BY <1>2, <1>4 DEF Broker!Next

\* The step that c, or the agent for it, takes.
LEMMA BecomesSteps ==
  ASSUME NEW c \in Clients, Hand(c) \/ Fail(c) \/ (\E a \in Answers : Settle(c, a))
                            \/ Answered(c) \/ Unanswered(c) \/ Forgotten(c)
  PROVE  \E q : Sets(promise, promise', c, q) /\ Broker!Step(promise[c], q)
BY DEF Hand, Fail, Settle, Answered, Unanswered, Forgotten, Becomes, Sets, Broker!Step

LEMMA ProviderSteps ==
  ASSUME ProviderInv, TypeOK', [Next]_vars
  PROVE  [Broker!Next]_promise
<1>1. CASE UNCHANGED promise
  BY <1>1
<1>2. CASE CloseBroker
  <2>1. promise' = [c \in Clients |->
           IF promise[c].phase = "open" THEN [promise[c] EXCEPT !.phase = "failed"] ELSE promise[c]]
    BY <1>2 DEF CloseBroker
  <2>2. ASSUME NEW c \in Clients
        PROVE  Broker!Step(promise[c], promise'[c]) \/ promise'[c] = promise[c]
    <3>1. CASE promise[c].phase = "open"
      BY <2>1, <3>1 DEF Broker!Step, Broker!Fail
    <3>2. CASE promise[c].phase # "open"
      BY <2>1, <3>2
    <3> QED
      BY <3>1, <3>2
  <2>3. promise' \in [Clients -> Broker!Promises]
    BY DEF TypeOK
  <2> QED
    BY <2>2, <2>3 DEF Broker!Next
<1>3. ASSUME NEW c \in Clients, Hand(c) \/ Fail(c) \/ (\E a \in Answers : Settle(c, a))
                                \/ Answered(c) \/ Unanswered(c) \/ Forgotten(c)
      PROVE  Broker!Next
  BY <1>3, BecomesSteps, OneRequestSteps
<1>4. ASSUME NEW c \in Clients, Read(c)
      PROVE  [Broker!Next]_promise
  <2>1. PICK raw \in RawRequests : Handles(c, raw)
    BY <1>4 DEF Read
  <2>2. CASE UNCHANGED requestVars
    BY <2>2 DEF requestVars
  <2>3. CASE Enqueue(c, raw, Optimize(DecodeRequest(raw)))
    <3> DEFINE q == [Broker!New EXCEPT !.phase = "open"]
    <3>1. promise[c] = Broker!New
      BY <1>4, Reading DEF Read
    <3>2. Broker!Step(promise[c], q)
      BY <3>1 DEF Broker!Step, Broker!Submit
    <3>3. Sets(promise, promise', c, q)
      BY <2>3 DEF Enqueue, Sets
    <3> HIDE DEF q
    <3> QED
      BY <3>2, <3>3, OneRequestSteps
  <2> QED
    BY <2>1, <2>2, <2>3 DEF Handles
<1>5. ASSUME NEW c \in Clients, Wait(c) \/ WaitTimesOut(c) \/ WaiterReturns(c) \/ WaiterTimesOut(c)
      PROVE  Answered(c) \/ Unanswered(c) \/ Forgotten(c)
  BY <1>5 DEF Wait, WaitTimesOut, WaiterReturns, WaiterTimesOut, Left
<1>6. ASSUME NEW c \in Clients, \/ Arrive(c) \/ ReadFails(c) \/ Disconnect(c) \/ OpenStream(c)
                                \/ TakeResult(c) \/ LeaveStream(c) \/ Write(c) \/ Keepalive(c)
      PROVE  UNCHANGED promise
  BY <1>6 DEF Arrive, ReadFails, Disconnect, OpenStream, TakeResult, LeaveStream, Write, Keepalive, requestVars
<1>7. ServerStep => UNCHANGED promise
  BY DEF ServerStep, Start, ServeFails, CloseBegins, ShutdownBegins, ShutdownEnds, requestVars
<1>8. UNCHANGED vars => UNCHANGED promise
  BY DEF vars, requestVars
<1> QED
  BY <1>1, <1>2, <1>3, <1>4, <1>5, <1>6, <1>7, <1>8 DEF Next, ServerStep, Handler

\* Each step of the provider, of its clients, of the agent and of Close is, of each
\* request, a step that AgentRequest allows, or none: the broker, which implements
\* AgentRequest too, can be put in its place.
THEOREM WithinPromise == Spec => Broker!Spec
<1>1. Init => Broker!Init
  BY DEF Init
<1> QED
  BY <1>1, ProviderInductive, ProviderTypes, ProviderSteps, PTL DEF Spec, Broker!Spec
=============================================================================
