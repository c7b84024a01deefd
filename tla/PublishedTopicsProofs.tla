------------------------ MODULE PublishedTopicsProofs ------------------------
(***************************************************************************)
(* On which topics PublishedTopics publishes, for all outputs, addresses,  *)
(* tags, blocks and any number of transactions.                            *)
(***************************************************************************)
EXTENDS PublishedTopics, SequenceTheorems, FiniteSetTheorems, WellFoundedInduction, TLAPS

-----------------------------------------------------------------------------
(* Sequences of the library, which the topics are built with.              *)

LEMMA ConcatRange ==
  ASSUME NEW T, NEW a \in Seq(T), NEW b \in Seq(T)
  PROVE  /\ Range(a \o b) = Range(a) \cup Range(b)
         /\ IsInjective(a) /\ IsInjective(b) /\ Range(a) \cap Range(b) = {}
              => IsInjective(a \o b)
<1>1. /\ a \o b \in Seq(T) /\ Len(a \o b) = Len(a) + Len(b)
      /\ \A i \in 1 .. Len(a \o b) : (a \o b)[i] = IF i <= Len(a) THEN a[i] ELSE b[i - Len(a)]
  BY ConcatProperties
<1>2. \A i \in 1 .. Len(a \o b) : i \in 1 .. Len(a) \/ (i > Len(a) /\ i - Len(a) \in 1 .. Len(b))
  BY <1>1
<1>3. Range(a \o b) \subseteq Range(a) \cup Range(b)
  BY <1>1, <1>2 DEF Range
<1>4. \A i \in 1 .. Len(a) : i \in 1 .. Len(a \o b) /\ (a \o b)[i] = a[i]
  BY <1>1
<1>5. ASSUME NEW i \in 1 .. Len(b)
      PROVE  \E m \in 1 .. Len(a \o b) : (a \o b)[m] = b[i]
  <2>1. PICK m \in Nat : m = Len(a) + i
    OBVIOUS
  <2>2. m \in 1 .. Len(a \o b) /\ ~(m <= Len(a)) /\ m - Len(a) = i
    BY <1>1, <2>1
  <2>3. (a \o b)[m] = b[m - Len(a)]
    BY <1>1, <2>2
  <2>4. (a \o b)[m] = b[i]
    BY <2>2, <2>3
  <2> QED BY <2>1, <2>2, <2>4
<1>6. Range(a) \subseteq Range(a \o b) /\ Range(b) \subseteq Range(a \o b)
  <2>1. \A x : x \in Range(a \o b) <=> \E m \in 1 .. Len(a \o b) : (a \o b)[m] = x
    BY <1>1 DEF Range
  <2>2. Range(a) = { a[i] : i \in 1 .. Len(a) } /\ Range(b) = { b[i] : i \in 1 .. Len(b) }
    BY DEF Range
  <2>3. ASSUME NEW i \in 1 .. Len(a) PROVE a[i] \in Range(a \o b)
    BY <1>4, <2>1
  <2>4. ASSUME NEW i \in 1 .. Len(b) PROVE b[i] \in Range(a \o b)
    BY <1>5, <2>1
  <2> QED BY <2>2, <2>3, <2>4
<1>7. ASSUME IsInjective(a), IsInjective(b), Range(a) \cap Range(b) = {}
      PROVE  IsInjective(a \o b)
  <2> DEFINE s == a \o b
  <2>1. /\ \A p \in 1 .. Len(a), q \in 1 .. Len(b) : a[p] # b[q]
        /\ \A p, q \in 1 .. Len(a) : a[p] = a[q] => p = q
        /\ \A p, q \in 1 .. Len(b) : b[p] = b[q] => p = q
    <3>1. \A p \in 1 .. Len(a) : a[p] \in Range(a)
      BY DEF Range
    <3>2. \A q \in 1 .. Len(b) : b[q] \in Range(b)
      BY DEF Range
    <3>3. \A p \in 1 .. Len(a), q \in 1 .. Len(b) : a[p] # b[q]
      BY <1>7, <3>1, <3>2
    <3> QED BY <1>7, <3>3 DEF IsInjective
  <2>2. /\ Len(a) \in Nat /\ DOMAIN s = 1 .. Len(s)
        /\ \A i \in 1 .. Len(s) : /\ i \in Int
                                  /\ \/ i \in 1 .. Len(a) /\ s[i] = a[i]
                                     \/ i - Len(a) \in 1 .. Len(b) /\ s[i] = b[i - Len(a)]
    BY <1>1, <1>2
  <2> HIDE DEF s
  <2>3. ASSUME NEW i \in 1 .. Len(s), NEW j \in 1 .. Len(s), s[i] = s[j] PROVE i = j
    <3>1. /\ \/ i \in 1 .. Len(a) /\ s[i] = a[i]
             \/ i - Len(a) \in 1 .. Len(b) /\ s[i] = b[i - Len(a)]
          /\ \/ j \in 1 .. Len(a) /\ s[j] = a[j]
             \/ j - Len(a) \in 1 .. Len(b) /\ s[j] = b[j - Len(a)]
          /\ Len(a) \in Nat /\ i \in Int /\ j \in Int
      BY <2>2, <2>3
    <3>2. PICK m, n : m = i - Len(a) /\ n = j - Len(a)
      OBVIOUS
    <3>3. m = n => i = j
      BY <3>1, <3>2
    <3>4. \/ i \in 1 .. Len(a) /\ j \in 1 .. Len(a) /\ a[i] = a[j]
          \/ i \in 1 .. Len(a) /\ n \in 1 .. Len(b) /\ a[i] = b[n]
          \/ m \in 1 .. Len(b) /\ j \in 1 .. Len(a) /\ a[j] = b[m]
          \/ m \in 1 .. Len(b) /\ n \in 1 .. Len(b) /\ b[m] = b[n]
      BY ONLY <2>3, <3>1, <3>2
    <3> QED BY <2>1, <3>3, <3>4
  <2> QED BY <2>2, <2>3 DEF IsInjective, s
<1> QED BY <1>3, <1>6, <1>7

LEMMA SingleRange == Range(<<>>) = {} /\ \A x : Range(<< x >>) = {x}
<1>1. DOMAIN <<>> = {} /\ \A x : DOMAIN << x >> = {1} /\ << x >>[1] = x
  OBVIOUS
<1> QED BY <1>1 DEF Range

\* The function that FlattenSeq defines by recursion exists.
Flattens(seqs, n, f) ==
  f = [i \in 1 .. n |-> IF i = 1 THEN seqs[i] ELSE f[i - 1] \o seqs[i]]

LEMMA FlattenExists ==
  ASSUME NEW T, NEW seqs \in Seq(Seq(T)), NEW n \in 1 .. Len(seqs)
  PROVE  \E f : Flattens(seqs, n, f)
<1> DEFINE Bad == { m \in 1 .. Len(seqs) : ~\E f : Flattens(seqs, m, f) }
<1> SUFFICES ASSUME Bad # {} PROVE FALSE
  OBVIOUS
<1>1. PICK m \in Bad : \A k \in Bad : ~(<<k, m>> \in OpToRel(<, Nat))
  <2>1. Bad \subseteq Nat
    OBVIOUS
  <2> QED BY <2>1, NatLessThanWellFounded, WFMin
<1>2. m \in 1 .. Len(seqs) /\ ~\E f : Flattens(seqs, m, f)
  OBVIOUS
<1>3. CASE m = 1
  <2> DEFINE g == [i \in 1 .. 1 |-> seqs[1]]
  <2>1. g = [i \in 1 .. 1 |-> IF i = 1 THEN seqs[i] ELSE g[i - 1] \o seqs[i]]
    OBVIOUS
  <2> QED BY <1>2, <1>3, <2>1 DEF Flattens
<1>4. CASE m # 1
  <2>1. m - 1 \in 1 .. Len(seqs) /\ m - 1 < m /\ m \in Nat /\ m - 1 \in Nat
    BY <1>2, <1>4
  <2>2. m - 1 \notin Bad
    <3>1. <<m - 1, m>> \in OpToRel(<, Nat)
      BY <2>1 DEF OpToRel
    <3> QED BY <1>1, <3>1
  <2>3. PICK f : Flattens(seqs, m - 1, f)
    BY <2>1, <2>2
  <2> DEFINE g == [i \in 1 .. m |-> IF i = m THEN f[m - 1] \o seqs[m] ELSE f[i]]
  <2>4. ASSUME NEW i \in 1 .. m
        PROVE  g[i] = IF i = 1 THEN seqs[i] ELSE g[i - 1] \o seqs[i]
    <3>1. CASE i = m
      <4>1. m \in 1 .. m /\ m - 1 \in 1 .. m /\ m - 1 # m
        BY <2>1
      <4>2. g[m - 1] = f[m - 1] /\ g[m] = f[m - 1] \o seqs[m]
        BY <4>1
      <4> QED BY <1>4, <3>1, <4>2
    <3>2. CASE i # m
      <4>1. i \in 1 .. m - 1 /\ (i # 1 => i - 1 \in 1 .. m /\ i - 1 # m)
        BY <2>1, <3>2
      <4>2. f[i] = IF i = 1 THEN seqs[i] ELSE f[i - 1] \o seqs[i]
        BY <2>3, <4>1 DEF Flattens
      <4>3. g[i] = f[i] /\ (i # 1 => g[i - 1] = f[i - 1])
        BY <3>2, <4>1
      <4> QED BY <4>2, <4>3
    <3> QED BY <3>1, <3>2
  <2>5. g = [i \in 1 .. m |-> g[i]]
    OBVIOUS
  <2> HIDE DEF g
  <2>6. g = [i \in 1 .. m |-> IF i = 1 THEN seqs[i] ELSE g[i - 1] \o seqs[i]]
    BY <2>4, <2>5
  <2> QED BY <1>2, <2>6 DEF Flattens
<1> QED BY <1>3, <1>4

\* FlattenSeq concatenates: nothing is added, and if nothing is twice in the
\* parts, nothing is twice in the result.
OnceEach(seqs) ==
  /\ \A i \in DOMAIN seqs : IsInjective(seqs[i])
  /\ \A i, j \in DOMAIN seqs : i # j => Range(seqs[i]) \cap Range(seqs[j]) = {}

LEMMA FlattenPrefixes ==
  ASSUME NEW T, NEW seqs \in Seq(Seq(T)), Len(seqs) # 0
  PROVE  \E F : /\ FlattenSeq(seqs) = F[Len(seqs)]
                /\ \A m \in 1 .. Len(seqs) :
                     F[m] = IF m = 1 THEN seqs[m] ELSE F[m - 1] \o seqs[m]
<1>1. PICK n \in Nat : n = Len(seqs) /\ n \in 1 .. Len(seqs)
  OBVIOUS
<1> DEFINE F == CHOOSE f : Flattens(seqs, n, f)
<1>2. Flattens(seqs, n, F)
  BY <1>1, FlattenExists
<1>3. FlattenSeq(seqs) = F[n]
  BY <1>1 DEF FlattenSeq, Flattens
<1> HIDE DEF F
<1>4. \A m \in 1 .. n : F[m] = IF m = 1 THEN seqs[m] ELSE F[m - 1] \o seqs[m]
  BY <1>2 DEF Flattens
<1> QED BY <1>1, <1>3, <1>4

LEMMA FlattenSeqProperties ==
  ASSUME NEW T, NEW seqs \in Seq(Seq(T))
  PROVE  /\ FlattenSeq(seqs) \in Seq(T)
         /\ \A x : x \in Range(FlattenSeq(seqs)) <=> \E i \in DOMAIN seqs : x \in Range(seqs[i])
         /\ OnceEach(seqs) => IsInjective(FlattenSeq(seqs))
<1>1. CASE Len(seqs) = 0
  <2>1. FlattenSeq(seqs) = seqs /\ seqs = <<>>
    BY <1>1 DEF FlattenSeq
  <2>2. <<>> \in Seq(T) /\ DOMAIN <<>> = {}
    OBVIOUS
  <2> QED BY <2>1, <2>2 DEF IsInjective, Range
<1>2. CASE Len(seqs) # 0
  <2>1. PICK n \in Nat : n = Len(seqs) /\ n \in 1 .. Len(seqs)
    BY <1>2
  <2>2. PICK F : /\ FlattenSeq(seqs) = F[n]
                 /\ \A m \in 1 .. n : F[m] = IF m = 1 THEN seqs[m] ELSE F[m - 1] \o seqs[m]
    BY <1>2, <2>1, FlattenPrefixes
  <2> DEFINE Good(k) == /\ F[k] \in Seq(T)
                        /\ \A x : x \in Range(F[k]) <=> \E j \in 1 .. k : x \in Range(seqs[j])
                        /\ OnceEach(seqs) => IsInjective(F[k])
             Bad == { k \in 1 .. n : ~Good(k) }
  <2>3. DOMAIN seqs = 1 .. n
    BY <2>1
  <2>4. Bad = {}
    <3> SUFFICES ASSUME Bad # {} PROVE FALSE
      OBVIOUS
    <3>1. PICK m \in Bad : \A k \in Bad : ~(<<k, m>> \in OpToRel(<, Nat))
      <4>1. Bad \subseteq Nat
        OBVIOUS
      <4> HIDE DEF Bad
      <4> QED BY <4>1, NatLessThanWellFounded, WFMin
    <3>2. m \in 1 .. n /\ ~Good(m) /\ seqs[m] \in Seq(T)
      BY <2>1, <2>3
    <3>3. F[m] = IF m = 1 THEN seqs[m] ELSE F[m - 1] \o seqs[m]
      BY <2>2, <3>2
    <3>4. CASE m = 1
      <4>1. F[1] = seqs[1] /\ \A j \in 1 .. 1 : j = 1
        BY <3>3, <3>4
      <4> QED BY <2>3, <3>2, <3>4, <4>1 DEF OnceEach
    <3>5. CASE m # 1
      <4>1. m - 1 \in 1 .. n /\ m - 1 < m /\ m \in Nat /\ m - 1 \in Nat
        BY <2>1, <3>2, <3>5
      <4>2. Good(m - 1)
        <5>1. <<m - 1, m>> \in OpToRel(<, Nat)
          BY <4>1 DEF OpToRel
        <5> QED BY <3>1, <4>1, <5>1
      <4>a. PICK a \in Seq(T) : a = F[m - 1]
        BY <4>2
      <4>b. PICK b \in Seq(T) : b = seqs[m]
        BY <3>2
      <4>3. F[m] = a \o b /\ a \o b \in Seq(T)
        <5>1. F[m] = a \o b
          BY <3>3, <3>5, <4>a, <4>b
        <5> QED BY <5>1, ConcatProperties
      <4>4. \A x : x \in Range(a \o b) <=> x \in Range(a) \/ x \in Range(b)
        BY ConcatRange
      <4>5. \A x : x \in Range(F[m]) <=> \E j \in 1 .. m : x \in Range(seqs[j])
        <5>1. \A j : j \in 1 .. m <=> j \in 1 .. m - 1 \/ j = m
          BY <4>1
        <5>2. \A x : x \in Range(a) <=> \E j \in 1 .. m - 1 : x \in Range(seqs[j])
          BY <4>2, <4>a
        <5>3. \A x : x \in Range(F[m]) <=> x \in Range(a) \/ x \in Range(seqs[m])
          BY <4>3, <4>4, <4>b
        <5> QED BY <5>1, <5>2, <5>3
      <4>6. ASSUME OnceEach(seqs) PROVE IsInjective(F[m])
        <5>1. IsInjective(a) /\ IsInjective(b)
          BY <2>3, <3>2, <4>2, <4>6, <4>a, <4>b DEF OnceEach
        <5>2. ASSUME NEW x \in Range(a) PROVE x \notin Range(b)
          <6>1. PICK j \in 1 .. m - 1 : x \in Range(seqs[j])
            BY <4>2, <4>a, <5>2
          <6>2. j \in DOMAIN seqs /\ m \in DOMAIN seqs /\ j # m
            BY <2>3, <3>2, <4>1
          <6> QED BY <4>6, <4>b, <6>1, <6>2 DEF OnceEach
        <5>3. Range(a) \cap Range(b) = {}
          BY <5>2
        <5> QED BY <4>3, <5>1, <5>3, ConcatRange
      <4> QED BY <3>2, <4>3, <4>5, <4>6
    <3> QED BY <3>4, <3>5
  <2>5. Good(n)
    BY <2>1, <2>4
  <2> QED BY <2>2, <2>3, <2>5
<1> QED BY <1>1, <1>2

\* SetToSeq lists a finite set, each element once.
LEMMA SetToSeqProperties ==
  ASSUME NEW S, IsFiniteSet(S)
  PROVE  SetToSeq(S) \in Seq(S) /\ IsInjective(SetToSeq(S)) /\ Range(SetToSeq(S)) = S
<1> DEFINE n == Cardinality(S)
           s == SetToSeq(S)
<1>1. n \in Nat /\ ExistsBijection(1 .. n, S)
  BY FS_CardinalityType
<1>2. s \in [1 .. n -> S] /\ IsInjective(s)
  <2>1. \E f \in [1 .. n -> S] : IsInjective(f)
    BY <1>1 DEF ExistsBijection, Bijection, Injection
  <2> QED BY <2>1 DEF SetToSeq
<1> HIDE DEF s
<1>3. s \in Surjection(1 .. n, S)
  <2>1. s \in Injection(1 .. n, S)
    BY <1>2 DEF Injection
  <2>2. Cardinality(1 .. n) = Cardinality(S)
    BY <1>1, FS_Interval
  <2> QED BY <2>1, <2>2, FS_Injection
<1>4. s \in Seq(S) /\ Range(s) = S
  BY <1>1, <1>2, <1>3 DEF Surjection, Range
<1> QED BY <1>2, <1>4 DEF s

-----------------------------------------------------------------------------
(* Topics: routed to the stream that publishes on them, and fetched if and *)
(* only if they are those of one object.                                   *)

Proper(k) ==
  { t \in Seq(Levels) : /\ t # <<>> /\ t[Len(t)] # "raw"
                        /\ k \in StartedBy(t)
                        /\ FetchedTopics(t) = IF OfOneObject(t) THEN {t} ELSE {} }

\* Both formats of a topic are trimmed to its name.
LEMMA BothFormats ==
  ASSUME NEW t \in Seq(Levels), t # <<>>, t[Len(t)] # "raw"
  PROVE  TrimRaw(t) = t /\ TrimRaw(Append(t, "raw")) = t
<1> DEFINE s == Append(t, "raw")
<1>1. TrimRaw(t) = t
  BY DEF TrimRaw
<1>2. /\ s \in Seq(Levels \cup {"raw"}) /\ Len(s) = Len(t) + 1 /\ Len(t) \in Nat \ {0}
      /\ s[Len(s)] = "raw" /\ \A i \in 1 .. Len(t) : s[i] = t[i]
  BY AppendProperties
<1> HIDE DEF s
<1>3. SubSeq(s, 1, Len(t)) = t
  BY <1>2
<1>4. Len(s) > 1 /\ Len(s) - 1 = Len(t)
  BY <1>2
<1>5. TrimRaw(s) = t
  BY <1>2, <1>3, <1>4 DEF TrimRaw
<1> QED BY <1>1, <1>5 DEF s

LEMMA NamesAreLevels ==
  /\ OutputNames \subseteq Levels /\ Range(TransactionIDs) \subseteq Levels
  /\ BlockIDs \subseteq Levels /\ Addresses \subseteq Levels /\ Tags \subseteq Levels
  /\ \A x \in OutputNames \cup Range(TransactionIDs) \cup BlockIDs \cup Addresses \cup Tags :
       x # "raw" /\ x # "accepted" /\ x # "confirmed"
  BY IDsAssumption DEF Levels

\* The topics of the ledger's streams.
LEMMA LedgerTopic ==
  ASSUME NEW k \in LedgerStreams, NEW t \in Seq(Levels), Len(t) > 1, t[Len(t)] # "raw",
         t[1] \in {"outputs", "transactions", "transaction-metadata"},
         FetchedTopics(t) = IF OfOneObject(t) THEN {t} ELSE {}
  PROVE  t \in Proper(k)
<1>1. TrimRaw(t) = t /\ t # <<>>
  BY DEF TrimRaw
<1>2. k \in StreamsOfExactTopic(t)
  BY DEF StreamsOfExactTopic, IsLedgerTopic, HasPrefix, LedgerStreams, GrpcCalls
<1>3. ~IsBlockMetadataTopic(t)
  BY DEF IsBlockMetadataTopic, HasPrefix
<1> QED BY <1>1, <1>2, <1>3 DEF Proper, StartedBy

LEMMA OutputTopicProper ==
  ASSUME NEW k \in LedgerStreams, NEW id \in OutputNames
  PROVE  GetTopicOutput(id) \in Proper(k)
<1> DEFINE t == << "outputs", id >>
<1>1. t \in Seq(Levels) /\ Len(t) = 2 /\ t[1] = "outputs" /\ t[2] = id /\ id # "raw"
      /\ id # "accepted" /\ id # "confirmed"
  BY NamesAreLevels DEF Levels
<1>2. Tail(t) = << id >>
  OBVIOUS
<1>3. OutputIDOfOutputs(t) = {id}
  BY <1>1, <1>2 DEF OutputIDOfOutputs, HasPrefix
<1> HIDE DEF t
<1>4. BlockIDOfMetadata(t) = {} /\ TransactionIDOfIncluded(t) = {} /\ TransactionIDOfMetadata(t) = {}
  BY <1>1 DEF BlockIDOfMetadata, NamesBlockID, TransactionIDOfIncluded, TransactionIDOfMetadata, HasPrefix
<1>5. FetchedTopics(t) = {t} /\ OfOneObject(t)
  BY <1>1, <1>3, <1>4 DEF FetchedTopics, OfOneObject, GetTopicOutput, t
<1>6. t \in Proper(k)
  BY <1>1, <1>5, LedgerTopic
<1> QED BY <1>6 DEF GetTopicOutput, t

\* The other topics below "outputs" have more levels.
LEMMA OutputsTopicProper ==
  ASSUME NEW k \in LedgerStreams, NEW t \in Seq(Levels), Len(t) > 2, t[1] = "outputs",
         t[Len(t)] # "raw"
  PROVE  t \in Proper(k)
<1>1. ASSUME NEW id PROVE Tail(t) # << id >>
  <2>1. Len(Tail(t)) = Len(t) - 1 /\ Len(t) \in Nat
    OBVIOUS
  <2>2. Len(<< id >>) = 1
    OBVIOUS
  <2>3. Len(Tail(t)) # 1
    BY <2>1
  <2> QED BY <2>2, <2>3
<1>2. /\ BlockIDOfMetadata(t) = {} /\ TransactionIDOfIncluded(t) = {}
      /\ TransactionIDOfMetadata(t) = {} /\ OutputIDOfOutputs(t) = {}
  BY <1>1 DEF BlockIDOfMetadata, NamesBlockID, TransactionIDOfIncluded, TransactionIDOfMetadata,
              OutputIDOfOutputs, HasPrefix
<1>3. FetchedTopics(t) = {} /\ ~OfOneObject(t)
  BY <1>2 DEF FetchedTopics, OfOneObject
<1> QED BY <1>3, LedgerTopic

LEMMA TransactionTopicsProper ==
  ASSUME NEW k \in LedgerStreams, NEW id \in Range(TransactionIDs)
  PROVE  /\ GetTopicTransactionsIncludedBlockMetadata(id) \in Proper(k)
         /\ GetTopicTransactionMetadata(id) \in Proper(k)
<1> DEFINE t == << "transactions", id, "included-block-metadata" >>
           u == << "transaction-metadata", id >>
<1>1. /\ t \in Seq(Levels) /\ Len(t) = 3 /\ t[1] = "transactions"
      /\ t[2] = id /\ t[3] = "included-block-metadata"
  BY NamesAreLevels DEF Levels
<1>2. u \in Seq(Levels) /\ Len(u) = 2 /\ u[1] = "transaction-metadata" /\ u[2] = id /\ id # "raw"
  BY NamesAreLevels DEF Levels
<1>3. Tail(u) = << id >>
  OBVIOUS
<1>4. SubSeq(t, 2, Len(t) - 1) = << id >>
  <2>1. Len(t) - 1 = 2 /\ 2 \in 1 .. Len(t)
    BY <1>1
  <2> HIDE DEF t
  <2>2. \A i \in 2 .. 2 : t[i] \in Levels
    BY <1>1, <2>1
  <2>3. /\ SubSeq(t, 2, 2) \in Seq(Levels) /\ Len(SubSeq(t, 2, 2)) = 1
        /\ \A i \in 1 .. 1 : SubSeq(t, 2, 2)[i] = t[2 + i - 1]
    BY <2>2, SubSeqProperties
  <2>4. SubSeq(t, 2, 2)[1] = t[2]
    BY <2>3
  <2>5. \A q \in Seq(Levels) : Len(q) = 1 => q = << q[1] >>
    OBVIOUS
  <2> QED BY <1>1, <2>1, <2>3, <2>4, <2>5
<1>5. TransactionIDOfIncluded(t) = {id}
  BY <1>1, <1>4 DEF TransactionIDOfIncluded, HasPrefix, Last
<1>6. TransactionIDOfMetadata(u) = {id}
  BY <1>2, <1>3 DEF TransactionIDOfMetadata, HasPrefix
<1> HIDE DEF t, u
<1>7. BlockIDOfMetadata(t) = {} /\ OutputIDOfOutputs(t) = {} /\ TransactionIDOfMetadata(t) = {}
  BY <1>1 DEF BlockIDOfMetadata, NamesBlockID, OutputIDOfOutputs, TransactionIDOfMetadata, HasPrefix
<1>8. BlockIDOfMetadata(u) = {} /\ OutputIDOfOutputs(u) = {} /\ TransactionIDOfIncluded(u) = {}
  BY <1>2 DEF BlockIDOfMetadata, NamesBlockID, OutputIDOfOutputs, TransactionIDOfIncluded, HasPrefix
<1>9. FetchedTopics(t) = {t} /\ OfOneObject(t)
  BY <1>1, <1>5, <1>7 DEF FetchedTopics, OfOneObject, GetTopicTransactionsIncludedBlockMetadata, t
<1>10. FetchedTopics(u) = {u} /\ OfOneObject(u)
  BY <1>2, <1>6, <1>8 DEF FetchedTopics, OfOneObject, GetTopicTransactionMetadata, u
<1>11. t \in Proper(k)
  BY <1>1, <1>9, LedgerTopic
<1>12. u \in Proper(k)
  BY <1>2, <1>10, LedgerTopic
<1> QED BY <1>11, <1>12 DEF GetTopicTransactionsIncludedBlockMetadata, GetTopicTransactionMetadata, t, u

\* The topics of the block metadata streams.
LEMMA BlockMetadataTopicsProper ==
  ASSUME NEW id \in BlockIDs
  PROVE  /\ \A k \in BothBlockStreams : GetTopicBlockMetadata(id) \in Proper(k)
         /\ EventAPITopicBlockMetadataAccepted \in Proper(GrpcListenToAcceptedBlocks)
         /\ EventAPITopicBlockMetadataConfirmed \in Proper(GrpcListenToConfirmedBlocks)
<1>1. ASSUME NEW x \in BlockIDs \cup {"accepted", "confirmed"}
      PROVE  LET t == << "block-metadata", x >> IN
             /\ t \in Seq(Levels) /\ Len(t) = 2 /\ t[1] = "block-metadata" /\ t[2] = x /\ t # <<>>
             /\ t[Len(t)] # "raw" /\ TrimRaw(t) = t
             /\ OutputIDOfOutputs(t) = {} /\ TransactionIDOfIncluded(t) = {}
             /\ TransactionIDOfMetadata(t) = {}
  <2> DEFINE t == << "block-metadata", x >>
  <2>1. /\ t \in Seq(Levels) /\ Len(t) = 2 /\ t[1] = "block-metadata" /\ t[2] = x /\ x # "raw"
        /\ t # <<>>
    BY NamesAreLevels DEF Levels
  <2> HIDE DEF t
  <2>2. TrimRaw(t) = t
    BY <2>1 DEF TrimRaw
  <2>3. /\ OutputIDOfOutputs(t) = {} /\ TransactionIDOfIncluded(t) = {}
        /\ TransactionIDOfMetadata(t) = {}
    BY <2>1 DEF OutputIDOfOutputs, TransactionIDOfIncluded, TransactionIDOfMetadata, HasPrefix
  <2> QED BY <2>1, <2>2, <2>3 DEF t
<1>2. ASSUME NEW k \in BothBlockStreams PROVE GetTopicBlockMetadata(id) \in Proper(k)
  <2> DEFINE t == << "block-metadata", id >>
  <2>1. /\ t \in Seq(Levels) /\ Len(t) = 2 /\ t[1] = "block-metadata" /\ t[2] = id /\ t # <<>>
        /\ t[Len(t)] # "raw" /\ TrimRaw(t) = t
        /\ OutputIDOfOutputs(t) = {} /\ TransactionIDOfIncluded(t) = {}
        /\ TransactionIDOfMetadata(t) = {}
    BY <1>1
  <2>2. id # "accepted" /\ id # "confirmed"
    BY NamesAreLevels
  <2> HIDE DEF t
  <2>3. NamesBlockID(t) /\ IsBlockMetadataTopic(t) /\ OfOneObject(t) /\ BlockIDOfMetadata(t) = {id}
    BY <2>1, <2>2 DEF NamesBlockID, IsBlockMetadataTopic, OfOneObject, BlockIDOfMetadata, HasPrefix,
                      EventAPITopicBlockMetadataAccepted, EventAPITopicBlockMetadataConfirmed
  <2>4. FetchedTopics(t) = {t}
    BY <2>1, <2>3 DEF FetchedTopics, GetTopicBlockMetadata, t
  <2>5. StartedBy(t) = BothBlockStreams
    BY <2>1, <2>3 DEF StartedBy
  <2> QED BY <2>1, <2>3, <2>4, <2>5 DEF Proper, GetTopicBlockMetadata, t
<1>3. ASSUME NEW x \in {"accepted", "confirmed"}, NEW k \in GrpcCalls,
             k = IF x = "accepted" THEN GrpcListenToAcceptedBlocks ELSE GrpcListenToConfirmedBlocks
      PROVE  << "block-metadata", x >> \in Proper(k)
  <2> DEFINE t == << "block-metadata", x >>
  <2>1. /\ t \in Seq(Levels) /\ Len(t) = 2 /\ t[1] = "block-metadata" /\ t[2] = x /\ t # <<>>
        /\ t[Len(t)] # "raw" /\ TrimRaw(t) = t
        /\ OutputIDOfOutputs(t) = {} /\ TransactionIDOfIncluded(t) = {}
        /\ TransactionIDOfMetadata(t) = {}
    BY <1>1
  <2>2. ~IsBlockMetadataTopic(t)
    BY <1>3 DEF IsBlockMetadataTopic, EventAPITopicBlockMetadataAccepted,
                EventAPITopicBlockMetadataConfirmed
  <2>3. k \in StreamsOfExactTopic(t)
    BY <1>3 DEF StreamsOfExactTopic, EventAPITopicBlockMetadataAccepted,
                EventAPITopicBlockMetadataConfirmed
  <2> HIDE DEF t
  <2>4. ~NamesBlockID(t) /\ ~OfOneObject(t)
    BY <2>1 DEF NamesBlockID, OfOneObject
  <2>5. FetchedTopics(t) = {}
    BY <2>1, <2>4 DEF FetchedTopics, BlockIDOfMetadata
  <2> QED BY <2>1, <2>2, <2>3, <2>4, <2>5 DEF Proper, StartedBy, t
<1>4. EventAPITopicBlockMetadataAccepted \in Proper(GrpcListenToAcceptedBlocks)
  BY <1>3 DEF EventAPITopicBlockMetadataAccepted, GrpcCalls
<1>5. EventAPITopicBlockMetadataConfirmed \in Proper(GrpcListenToConfirmedBlocks)
  BY <1>3 DEF EventAPITopicBlockMetadataConfirmed, GrpcCalls
<1> QED BY <1>2, <1>4, <1>5

\* The topics of the stream of blocks.
LEMMA BlocksTopicProper ==
  ASSUME NEW t \in Seq(Levels), t # <<>>, t[1] = "blocks", t[Len(t)] # "raw",
         t \in EventAPIBlockTopics \/ IsTaggedDataTag(t)
  PROVE  t \in Proper(GrpcListenToBlocks)
<1>1. TrimRaw(t) = t
  BY DEF TrimRaw
<1>2. ~IsBlockMetadataTopic(t)
  BY DEF IsBlockMetadataTopic, HasPrefix
<1>3. GrpcListenToBlocks \in StreamsOfExactTopic(t)
  BY DEF StreamsOfExactTopic, GrpcCalls
<1>4. /\ BlockIDOfMetadata(t) = {} /\ OutputIDOfOutputs(t) = {}
      /\ TransactionIDOfIncluded(t) = {} /\ TransactionIDOfMetadata(t) = {}
  BY DEF BlockIDOfMetadata, NamesBlockID, OutputIDOfOutputs, TransactionIDOfIncluded,
         TransactionIDOfMetadata, HasPrefix
<1>5. FetchedTopics(t) = {} /\ ~OfOneObject(t)
  BY <1>4 DEF FetchedTopics, OfOneObject
<1> QED BY <1>1, <1>2, <1>3, <1>5 DEF Proper, StartedBy

\* A level more.
LEMMA AppendToTwo ==
  ASSUME NEW v, NEW w, NEW x PROVE Append(<< v, w >>, x) = << v, w, x >>
<1> DEFINE S == {v, w, x}
<1>1. << v, w >> \in Seq(S) /\ x \in S /\ << v, w, x >> \in Seq(S)
  OBVIOUS
<1> HIDE DEF S
<1>2. Append(<< v, w >>, x) \in Seq(S) /\ Len(Append(<< v, w >>, x)) = 3
  BY <1>1
<1>3. \A i \in 1 .. 3 : Append(<< v, w >>, x)[i] = << v, w, x >>[i]
  BY <1>1
<1> QED BY <1>1, <1>2, <1>3, SeqEqual

LEMMA AppendToThree ==
  ASSUME NEW v, NEW w, NEW x, NEW y PROVE Append(<< v, w, x >>, y) = << v, w, x, y >>
<1> DEFINE S == {v, w, x, y}
<1>1. << v, w, x >> \in Seq(S) /\ y \in S /\ << v, w, x, y >> \in Seq(S)
  OBVIOUS
<1> HIDE DEF S
<1>2. Append(<< v, w, x >>, y) \in Seq(S) /\ Len(Append(<< v, w, x >>, y)) = 4
  BY <1>1
<1>3. \A i \in 1 .. 4 : Append(<< v, w, x >>, y)[i] = << v, w, x, y >>[i]
  BY <1>1
<1> QED BY <1>1, <1>2, <1>3, SeqEqual

LEMMA AppendToFour ==
  ASSUME NEW v, NEW w, NEW x, NEW y, NEW z PROVE Append(<< v, w, x, y >>, z) = << v, w, x, y, z >>
<1> DEFINE S == {v, w, x, y, z}
<1>1. << v, w, x, y >> \in Seq(S) /\ z \in S /\ << v, w, x, y, z >> \in Seq(S)
  OBVIOUS
<1> HIDE DEF S
<1>2. Append(<< v, w, x, y >>, z) \in Seq(S) /\ Len(Append(<< v, w, x, y >>, z)) = 5
  BY <1>1
<1>3. \A i \in 1 .. 5 : Append(<< v, w, x, y >>, z)[i] = << v, w, x, y, z >>[i]
  BY <1>1
<1> QED BY <1>1, <1>2, <1>3, SeqEqual

\* Each topic of a block has one level more than the one before.
Ladder(d, s) ==
  /\ s \in Seq(Proper(GrpcListenToBlocks))
  /\ \A i \in 1 .. Len(s) : Len(s[i]) = d + i

LEMMA LadderStep ==
  ASSUME NEW d \in Nat, NEW e, e = d + 1, NEW s, Ladder(e, s),
         NEW t \in Proper(GrpcListenToBlocks), Len(t) = e
  PROVE  Ladder(d, << t >> \o s)
<1> DEFINE P == Proper(GrpcListenToBlocks)
           r == << t >> \o s
<1>1. << t >> \in Seq(P) /\ Len(<< t >>) = 1 /\ << t >>[1] = t /\ s \in Seq(P)
  BY DEF Ladder
<1>2. /\ r \in Seq(P) /\ Len(r) = 1 + Len(s)
      /\ \A i \in 1 .. 1 + Len(s) : r[i] = IF i <= 1 THEN << t >>[i] ELSE s[i - 1]
  BY <1>1, ConcatProperties
<1>3. ASSUME NEW i \in 1 .. Len(r) PROVE Len(r[i]) = d + i
  <2>1. CASE i = 1
    BY <1>1, <1>2, <2>1
  <2>2. CASE i # 1
    <3>1. i - 1 \in 1 .. Len(s) /\ r[i] = s[i - 1]
      BY <1>1, <1>2, <2>2
    <3> QED BY <3>1 DEF Ladder
  <2> QED BY <2>1, <2>2
<1> QED BY <1>2, <1>3 DEF Ladder

LEMMA LadderEmpty == ASSUME NEW d PROVE Ladder(d, <<>>)
  BY DEF Ladder

\* A tag, if there is one, is a level of its own.
LEMMA WithTagLadder ==
  ASSUME NEW d \in Nat, NEW tag \in Tags \cup {None},
         NEW t \in Proper(GrpcListenToBlocks), Len(t) = d + 1,
         tag # None => Append(t, tag) \in Proper(GrpcListenToBlocks) /\ Len(Append(t, tag)) = d + 2
  PROVE  Ladder(d, WithTag(t, tag))
<1> DEFINE more == IF tag = None THEN <<>> ELSE << Append(t, tag) >>
<1>1. Ladder(d + 1, more)
  <2>1. CASE tag = None
    BY <2>1, LadderEmpty
  <2>2. CASE tag # None
    <3> DEFINE e == Append(t, tag)
    <3>1. e \in Proper(GrpcListenToBlocks) /\ Len(e) = d + 2
      BY <2>2
    <3> HIDE DEF e
    <3>2. << e >> \in Seq(Proper(GrpcListenToBlocks)) /\ Len(<< e >>) = 1 /\ << e >>[1] = e
      BY <3>1
    <3>3. \A i \in 1 .. Len(<< e >>) : Len(<< e >>[i]) = (d + 1) + i
      BY <3>1, <3>2
    <3>4. Ladder(d + 1, << e >>)
      BY <3>2, <3>3 DEF Ladder
    <3> QED BY <2>2, <3>4 DEF e
  <2> QED BY <2>1, <2>2
<1>2. WithTag(t, tag) = << t >> \o more
  BY DEF WithTag
<1> HIDE DEF more
<1> QED BY <1>1, <1>2, LadderStep

LEMMA BlockTopicsLadder == ASSUME NEW b \in Block PROVE Ladder(0, BlockTopics(b))
<1> DEFINE P     == Proper(GrpcListenToBlocks)
           basic == << "blocks", "basic" >>
           tx    == << "blocks", "basic", "transaction" >>
           td    == << "blocks", "basic", "tagged-data" >>
           txtd  == << "blocks", "basic", "transaction", "tagged-data" >>
<1>0. /\ Append(basic, "transaction") = tx /\ Append(basic, "tagged-data") = td
      /\ Append(tx, "tagged-data") = txtd
  BY AppendToTwo, AppendToThree
<1>1. /\ << "blocks" >> \in P /\ Len(<< "blocks" >>) = 0 + 1
      /\ << "blocks", "validation" >> \in P /\ Len(<< "blocks", "validation" >>) = 1 + 1
  <2> DEFINE u == << "blocks" >>
             v == << "blocks", "validation" >>
  <2>1. u \in Seq(Levels) /\ u # <<>> /\ u[1] = "blocks" /\ u[Len(u)] # "raw" /\ u \in EventAPIBlockTopics
    BY DEF Levels, EventAPIBlockTopics
  <2>2. v \in Seq(Levels) /\ v # <<>> /\ v[1] = "blocks" /\ v[Len(v)] # "raw" /\ v \in EventAPIBlockTopics
    BY DEF Levels, EventAPIBlockTopics
  <2> HIDE DEF u, v
  <2>3. u \in P /\ v \in P
    BY <2>1, <2>2, BlocksTopicProper
  <2> QED BY <2>3 DEF u, v
<1>2. /\ basic \in P /\ Len(basic) = 1 + 1 /\ tx \in P /\ Len(tx) = 2 + 1
      /\ td \in P /\ Len(td) = 2 + 1 /\ txtd \in P /\ Len(txtd) = 3 + 1
  <2>1. /\ basic \in Seq(Levels) /\ basic # <<>> /\ basic[1] = "blocks" /\ Len(basic) = 2
        /\ basic[2] = "basic" /\ basic \in EventAPIBlockTopics
    BY DEF Levels, EventAPIBlockTopics
  <2>2. /\ tx \in Seq(Levels) /\ tx # <<>> /\ tx[1] = "blocks" /\ Len(tx) = 3
        /\ tx[3] = "transaction" /\ tx \in EventAPIBlockTopics
    BY DEF Levels, EventAPIBlockTopics
  <2>3. /\ td \in Seq(Levels) /\ td # <<>> /\ td[1] = "blocks" /\ Len(td) = 3
        /\ td[3] = "tagged-data" /\ td \in EventAPIBlockTopics
    BY DEF Levels, EventAPIBlockTopics
  <2>4. /\ txtd \in Seq(Levels) /\ txtd # <<>> /\ txtd[1] = "blocks" /\ Len(txtd) = 4
        /\ txtd[4] = "tagged-data" /\ txtd \in EventAPIBlockTopics
    BY DEF Levels, EventAPIBlockTopics
  <2> HIDE DEF basic, tx, td, txtd
  <2>5. basic \in P /\ tx \in P
    BY <2>1, <2>2, BlocksTopicProper
  <2>6. td \in P /\ txtd \in P
    BY <2>3, <2>4, BlocksTopicProper
  <2> QED BY <2>1, <2>2, <2>3, <2>4, <2>5, <2>6
<1>3. ASSUME NEW tag \in Tags
      PROVE  /\ Append(td, tag) \in P /\ Len(Append(td, tag)) = 2 + 2
             /\ Append(txtd, tag) \in P /\ Len(Append(txtd, tag)) = 3 + 2
  <2>0. tag \in Levels /\ tag # "raw"
    BY NamesAreLevels
  <2> DEFINE u == << "blocks", "basic", "tagged-data", tag >>
             v == << "blocks", "basic", "transaction", "tagged-data", tag >>
  <2>1. /\ u \in Seq(Levels) /\ u # <<>> /\ u[1] = "blocks" /\ Len(u) = 4 /\ u[4] = tag
        /\ u[2] = "basic" /\ u[3] = "tagged-data"
    BY <2>0 DEF Levels
  <2>2. /\ v \in Seq(Levels) /\ v # <<>> /\ v[1] = "blocks" /\ Len(v) = 5 /\ v[5] = tag
        /\ v[2] = "basic" /\ v[4] = "tagged-data"
    BY <2>0 DEF Levels
  <2>3. Append(td, tag) = u /\ Append(txtd, tag) = v
    BY AppendToThree, AppendToFour
  <2> HIDE DEF u, v, td, txtd
  <2>4. IsTaggedDataTag(u) /\ IsTaggedDataTag(v)
    BY <2>1, <2>2 DEF IsTaggedDataTag
  <2>5. u \in P /\ v \in P
    BY <2>0, <2>1, <2>2, <2>4, BlocksTopicProper
  <2> QED BY <2>1, <2>2, <2>3, <2>5
<1> HIDE DEF P, basic, tx, td, txtd
<1>4. /\ b.body \in {"basic", "validation", "other"} /\ b.tag \in Tags \cup {None}
      /\ b.payload \in {"none", "transaction", "tagged-data"}
  BY DEF Block
<1>5. Ladder(2, WithTag(td, b.tag)) /\ Ladder(3, WithTag(txtd, b.tag))
  BY <1>2, <1>3, <1>4, WithTagLadder DEF P
<1>6. Ladder(1, BlockTopicsForBasicBlock(b))
  <2> DEFINE nested == IF b.nested THEN WithTag(txtd, b.tag) ELSE <<>>
             rest == CASE b.payload = "none"        -> <<>>
                       [] b.payload = "tagged-data" -> WithTag(td, b.tag)
                       [] b.payload = "transaction" -> << tx >> \o nested
  <2>1. BlockTopicsForBasicBlock(b) = << basic >> \o rest
    BY <1>0 DEF BlockTopicsForBasicBlock, basic
  <2>2. Ladder(3, nested)
    BY <1>5, LadderEmpty
  <2> HIDE DEF nested
  <2>3. Ladder(2, << tx >> \o nested)
    <3>1. tx \in Proper(GrpcListenToBlocks) /\ Len(tx) = 3
      BY <1>2 DEF P
    <3>2. 3 = 2 + 1 /\ 2 \in Nat
      OBVIOUS
    <3> HIDE DEF nested, tx
    <3> QED BY <2>2, <3>1, <3>2, LadderStep
  <2>4. Ladder(2, rest)
    BY <1>4, <1>5, <2>3, LadderEmpty
  <2> HIDE DEF rest
  <2>5. basic \in Proper(GrpcListenToBlocks) /\ Len(basic) = 2
    BY <1>2 DEF P
  <2>6. 2 = 1 + 1 /\ 1 \in Nat
    OBVIOUS
  <2>7. Ladder(1, << basic >> \o rest)
    BY <2>4, <2>5, <2>6, LadderStep
  <2> QED BY <2>1, <2>7
<1>7. Ladder(1, << << "blocks", "validation" >> >>)
  <2> DEFINE v == << "blocks", "validation" >>
  <2>1. v \in P /\ Len(v) = 1 + 1
    BY <1>1
  <2> HIDE DEF v
  <2>2. Ladder(1, << v >> \o <<>>)
    BY <2>1, LadderEmpty, LadderStep DEF P
  <2>3. << v >> \o <<>> = << v >>
    OBVIOUS
  <2> QED BY <2>2, <2>3 DEF v
<1>8. Ladder(1, CASE b.body = "basic"      -> BlockTopicsForBasicBlock(b)
                  [] b.body = "validation" -> << << "blocks", "validation" >> >>
                  [] OTHER                 -> <<>>)
  BY <1>4, <1>6, <1>7, LadderEmpty
<1> QED BY <1>1, <1>8, LadderStep DEF BlockTopics, P

-----------------------------------------------------------------------------
(* The topics of an output.                                                *)

LEMMA Conditions ==
  /\ UnlockConditions \in Seq(Levels) /\ Len(UnlockConditions) = 6 /\ IsInjective(UnlockConditions)
  /\ Range(UnlockConditions) = { UnlockConditions[i] : i \in 1 .. 6 }
  /\ "any" \notin Range(UnlockConditions)
<1> DEFINE U == << "address", "storage-return", "expiration",
                   "state-controller", "governor", "immutable-account" >>
<1>1. /\ U \in Seq({"address", "storage-return", "expiration",
                   "state-controller", "governor", "immutable-account"})
      /\ Len(U) = 6
      /\ U[1] = "address" /\ U[2] = "storage-return" /\ U[3] = "expiration"
      /\ U[4] = "state-controller" /\ U[5] = "governor" /\ U[6] = "immutable-account"
  <2>1. Len(U) = 6
    OBVIOUS
  <2>2. U[1] = "address" /\ U[2] = "storage-return" /\ U[3] = "expiration"
    OBVIOUS
  <2>3. U[4] = "state-controller" /\ U[5] = "governor" /\ U[6] = "immutable-account"
    OBVIOUS
  <2>4. U \in Seq({"address", "storage-return", "expiration",
                   "state-controller", "governor", "immutable-account"})
    OBVIOUS
  <2> QED BY <2>1, <2>2, <2>3, <2>4
<1>2. UnlockConditions = U
  BY DEF UnlockConditions
<1> HIDE DEF U
<1>3. DOMAIN U = 1 .. 6 /\ \A i \in 1 .. 6 : i = 1 \/ i = 2 \/ i = 3 \/ i = 4 \/ i = 5 \/ i = 6
  BY <1>1
<1>4. Range(U) = { U[i] : i \in 1 .. 6 } /\ IsInjective(U) /\ \A i \in 1 .. 6 : U[i] # "any"
  BY <1>1, <1>3 DEF Range, IsInjective
<1>5. Range(U) \subseteq Levels
  BY <1>2 DEF Levels
<1>6. U \in Seq(Levels)
  <2>1. \A i \in 1 .. Len(U) : U[i] \in Levels
    BY <1>1, <1>4, <1>5
  <2>2. U = [i \in 1 .. Len(U) |-> U[i]] /\ Len(U) \in Nat
    BY <1>1
  <2> QED BY <2>1, <2>2
<1> QED BY <1>1, <1>2, <1>3, <1>4, <1>6

LEMMA OutputTypes ==
  ASSUME NEW o \in Output
  PROVE  /\ o.new \in NewOutputs /\ o.new.kind \in ChainKinds \cup {"basic"}
         /\ o.new.conditions \in [Range(UnlockConditions) -> Addresses \cup {None}]
         /\ OutputID(o) \in OutputNames /\ o.chain \in OutputNames \cup {None}
         /\ TransactionIDs[o.tx] \in Range(TransactionIDs)
<1>1. /\ o.tx \in DOMAIN OutputIDs /\ o.index \in {0, 1} /\ o.new \in NewOutputs
      /\ o.chain \in OutputNames \cup {None}
  BY DEF Output
<1>2. o.new \in NewOutput
  BY <1>1, NewOutputsAssumption
<1>3. o.new.kind \in ChainKinds \cup {"basic"}
      /\ o.new.conditions \in [Range(UnlockConditions) -> Addresses \cup {None}]
  BY <1>2 DEF NewOutput
<1>4. o.index + 1 \in DOMAIN OutputIDs[o.tx]
  BY <1>1, IDsAssumption
<1>5. OutputID(o) \in Range(OutputIDs[o.tx])
  BY <1>4 DEF OutputID, Range
<1>6. OutputID(o) \in OutputNames
  BY <1>1, <1>5 DEF OutputNames
<1>7. TransactionIDs[o.tx] \in Range(TransactionIDs)
  BY <1>1, IDsAssumption DEF Range
<1> QED BY <1>1, <1>3, <1>6, <1>7

LEMMA UnlockTopic ==
  ASSUME NEW k \in LedgerStreams, NEW c \in Range(UnlockConditions) \cup {"any"},
         NEW a \in Addresses
  PROVE  /\ Unlock(c, a) \in Proper(k) /\ Len(Unlock(c, a)) = 4
         /\ Unlock(c, a)[1] = "outputs" /\ Unlock(c, a)[3] = c /\ Unlock(c, a)[4] = a
<1> DEFINE t == << "outputs", "unlock", c, a >>
<1>1. t \in Seq(Levels) /\ Len(t) = 4 /\ t[1] = "outputs" /\ t[3] = c /\ t[4] = a /\ a # "raw"
  BY NamesAreLevels DEF Levels
<1> HIDE DEF t
<1>2. t \in Proper(k)
  <2>1. Len(t) > 2 /\ t[Len(t)] # "raw"
    BY <1>1
  <2> QED BY <1>1, <2>1, OutputsTopicProper
<1> QED BY <1>1, <1>2 DEF Unlock, t

\* One topic for each condition that names an address, and one for each of
\* these addresses, none of them twice.
LEMMA UnlockTopics ==
  ASSUME NEW o \in Output, NEW k \in LedgerStreams
  PROVE  LET s == GetUnlockConditionTopicsForOutput(o) IN
         /\ s \in Seq(Proper(k)) /\ IsInjective(s) /\ \A t \in Range(s) : Len(t) = 4 /\ t[1] = "outputs"
         /\ \A a \in Addresses :
              Unlock("any", a) \in Range(s)
                <=> \E c \in Range(UnlockConditions) : o.new.conditions[c] = a
<1> DEFINE address(c) == o.new.conditions[c]
           held(c) == IF address(c) = None THEN <<>> ELSE << Unlock(c, address(c)) >>
           addresses == { address(c) : c \in Range(UnlockConditions) } \ {None}
           parts == [ i \in DOMAIN UnlockConditions |-> held(UnlockConditions[i]) ]
           named == { Unlock(c, a) : c \in Range(UnlockConditions), a \in Addresses }
           any == { Unlock("any", a) : a \in addresses }
           s == FlattenSeq(parts) \o SetToSeq(any)
<1>0. GetUnlockConditionTopicsForOutput(o) = s
  BY DEF GetUnlockConditionTopicsForOutput
<1>1. \A c \in Range(UnlockConditions) : address(c) \in Addresses \cup {None}
  BY OutputTypes
<1>2. addresses \subseteq Addresses
  BY <1>1
<1>3. /\ FlattenSeq(parts) \in Seq(named) /\ IsInjective(FlattenSeq(parts))
  <2>1. DOMAIN UnlockConditions = 1 .. 6 /\ \A i \in 1 .. 6 : UnlockConditions[i] \in Range(UnlockConditions)
    BY Conditions DEF Range
  <2>2. ASSUME NEW i \in 1 .. 6
        PROVE  /\ parts[i] \in Seq(named) /\ IsInjective(parts[i])
               /\ \A t \in Range(parts[i]) : t[3] = UnlockConditions[i]
    <3> DEFINE c == UnlockConditions[i]
    <3>1. c \in Range(UnlockConditions) /\ parts[i] = held(c)
      BY <2>1
    <3>2. CASE address(c) = None
      <4>1. parts[i] = <<>>
        BY <3>1, <3>2
      <4>2. DOMAIN <<>> = {} /\ <<>> \in Seq(named)
        OBVIOUS
      <4> HIDE DEF parts
      <4> QED BY <4>1, <4>2 DEF IsInjective, Range
    <3>3. CASE address(c) # None
      <4>1. address(c) \in Addresses
        BY <1>1, <3>1, <3>3
      <4>2. PICK u \in named : u = Unlock(c, address(c)) /\ u[3] = c
        BY <3>1, <4>1, UnlockTopic
      <4>3. parts[i] = << u >>
        BY <3>1, <3>3, <4>2
      <4>4. << u >> \in Seq(named) /\ DOMAIN << u >> = {1} /\ << u >>[1] = u
        OBVIOUS
      <4> HIDE DEF parts
      <4>5. IsInjective(<< u >>) /\ Range(<< u >>) = {u}
        BY <4>4 DEF IsInjective, Range
      <4> QED BY <4>2, <4>3, <4>4, <4>5
    <3> QED BY <3>2, <3>3
  <2>3. DOMAIN parts = 1 .. 6
    BY <2>1
  <2>4. parts = [i \in 1 .. 6 |-> parts[i]]
    BY <2>1
  <2> HIDE DEF parts, named
  <2>5. parts \in Seq(Seq(named))
    BY <2>2, <2>4
  <2>6. \A i, j \in 1 .. 6 : i # j => UnlockConditions[i] # UnlockConditions[j]
    BY <2>1, Conditions DEF IsInjective
  <2>7. OnceEach(parts)
    BY <2>2, <2>3, <2>6 DEF OnceEach
  <2> QED BY <2>5, <2>7, FlattenSeqProperties
<1>4. /\ SetToSeq(any) \in Seq(any) /\ IsInjective(SetToSeq(any)) /\ Range(SetToSeq(any)) = any
  <2> DEFINE image == { Unlock("any", address(UnlockConditions[i])) : i \in 1 .. 6 }
             f == [i \in 1 .. 6 |-> Unlock("any", address(UnlockConditions[i]))]
  <2>1. f \in Surjection(1 .. 6, image)
    BY DEF Surjection
  <2>2. IsFiniteSet(image)
    <3>1. IsFiniteSet(1 .. 6)
      <4>1. \A n \in Nat : IsFiniteSet(1 .. n)
        BY FS_Interval
      <4> QED BY <4>1
    <3> HIDE DEF f, image
    <3> QED BY <2>1, <3>1, FS_Surjection
  <2>3. any \subseteq image
    BY Conditions
  <2>4. IsFiniteSet(any)
    BY <2>2, <2>3, FS_Subset
  <2> QED BY <2>4, SetToSeqProperties
<1>5. /\ named \subseteq Proper(k) /\ any \subseteq Proper(k)
      /\ \A t \in named \cup any : Len(t) = 4 /\ t[1] = "outputs"
      /\ named \cap any = {}
  <2>1. ASSUME NEW t \in named PROVE t \in Proper(k) /\ Len(t) = 4 /\ t[1] = "outputs" /\ t[3] # "any"
    <3>1. PICK c \in Range(UnlockConditions), a \in Addresses : t = Unlock(c, a)
      OBVIOUS
    <3> QED BY <3>1, UnlockTopic, Conditions
  <2>2. ASSUME NEW t \in any PROVE t \in Proper(k) /\ Len(t) = 4 /\ t[1] = "outputs" /\ t[3] = "any"
    <3>1. PICK a \in Addresses : t = Unlock("any", a)
      BY <1>2
    <3> QED BY <3>1, UnlockTopic
  <2> HIDE DEF named, any
  <2> QED BY <2>1, <2>2
<1> HIDE DEF parts, named
<1>6. FlattenSeq(parts) \in Seq(Proper(k)) /\ SetToSeq(any) \in Seq(Proper(k))
      /\ Range(FlattenSeq(parts)) \subseteq named
  BY <1>3, <1>4, <1>5 DEF Range
<1>7. /\ s \in Seq(Proper(k)) /\ IsInjective(s)
      /\ Range(s) = Range(FlattenSeq(parts)) \cup any
  <2> HIDE DEF any
  <2>1. Range(FlattenSeq(parts)) \cap Range(SetToSeq(any)) = {}
    BY <1>4, <1>5, <1>6
  <2> QED BY <1>3, <1>4, <1>6, <2>1, ConcatRange, ConcatProperties
<1>8. \A t \in Range(s) : Len(t) = 4 /\ t[1] = "outputs"
  BY <1>5, <1>6, <1>7
<1>9. ASSUME NEW a \in Addresses
      PROVE  Unlock("any", a) \in Range(s) <=> \E c \in Range(UnlockConditions) : address(c) = a
  <2>1. Unlock("any", a) \notin named
    <3>1. ASSUME NEW c \in Range(UnlockConditions), NEW b \in Addresses PROVE Unlock("any", a) # Unlock(c, b)
      <4>1. Unlock("any", a)[3] = "any" /\ Unlock(c, b)[3] = c /\ c # "any"
        BY UnlockTopic, Conditions
      <4> QED BY <4>1
    <3> QED BY <3>1 DEF named
  <2>2. Unlock("any", a) \in any <=> a \in addresses
    <3>1. ASSUME NEW b \in addresses, Unlock("any", a) = Unlock("any", b) PROVE a = b
      <4>1. Unlock("any", a)[4] = a /\ Unlock("any", b)[4] = b
        BY <1>2, UnlockTopic
      <4> QED BY <3>1, <4>1
    <3> HIDE DEF addresses
    <3> QED BY <3>1
  <2>3. a # None
    BY NamesAreLevels, NoneAssumption
  <2>4. a \in addresses <=> \E c \in Range(UnlockConditions) : address(c) = a
    BY <2>3
  <2> HIDE DEF any, addresses
  <2> QED BY <1>6, <1>7, <2>1, <2>2, <2>4
<1> HIDE DEF s
<1> QED BY <1>0, <1>7, <1>8, <1>9

-----------------------------------------------------------------------------
(* Publications.                                                           *)

AnyTopics(o, topics) ==
  \A a \in Addresses :
    Unlock("any", a) \in Range(topics) <=> \E c \in Range(UnlockConditions) : o.new.conditions[c] = a

Published(k) ==
  { p \in [topics: Seq(Proper(k)), shows: (Output \X BOOLEAN) \cup {None}] :
      IsInjective(p.topics) /\ (p.shows # None => AnyTopics(p.shows[1], p.topics)) }

LEMMA PublicationProper ==
  ASSUME NEW k, NEW topics \in Seq(Proper(k)), IsInjective(topics)
  PROVE  Publication(topics) \in Published(k)
  BY DEF Publication, Published

LEMMA OneTopic ==
  ASSUME NEW k, NEW t \in Proper(k) PROVE << Publication(<< t >>) >> \in Seq(Published(k))
<1>1. << t >> \in Seq(Proper(k)) /\ IsInjective(<< t >>)
  BY DEF IsInjective
<1>2. Publication(<< t >>) \in Published(k)
  BY <1>1, PublicationProper
<1> QED BY <1>2

\* Topics of different lengths are different topics.
LEMMA JoinedByLength ==
  ASSUME NEW T, NEW a \in Seq(T), NEW b \in Seq(T), IsInjective(a), IsInjective(b),
         \A u \in Range(a), v \in Range(b) : Len(u) # Len(v)
  PROVE  a \o b \in Seq(T) /\ IsInjective(a \o b) /\ Range(a \o b) = Range(a) \cup Range(b)
<1>1. Range(a) \cap Range(b) = {}
  OBVIOUS
<1> QED BY <1>1, ConcatRange, ConcatProperties

\* All topics of an output, none twice.
LEMMA OutputTopics ==
  ASSUME NEW o \in Output, NEW k \in LedgerStreams
  PROVE  LET s == << GetTopicOutput(OutputID(o)) >> \o GetChainTopicsForOutput(o)
                    \o GetUnlockConditionTopicsForOutput(o)
         IN  s \in Seq(Proper(k)) /\ IsInjective(s) /\ AnyTopics(o, s)
<1> DEFINE t     == GetTopicOutput(OutputID(o))
           chain == GetChainTopicsForOutput(o)
           first == << t >> \o chain
           rest  == GetUnlockConditionTopicsForOutput(o)
<1>1. t \in Proper(k) /\ Len(t) = 2
  <2>1. t \in Proper(k)
    BY OutputTypes, OutputTopicProper
  <2> QED BY <2>1 DEF GetTopicOutput
<1>2. chain \in Seq(Proper(k)) /\ IsInjective(chain) /\ \A u \in Range(chain) : Len(u) = 3
  <2>1. CASE o.new.kind \notin ChainKinds
    <3>1. chain = <<>>
      BY <2>1 DEF GetChainTopicsForOutput
    <3>2. DOMAIN <<>> = {} /\ <<>> \in Seq(Proper(k))
      OBVIOUS
    <3> HIDE DEF chain
    <3> QED BY <3>1, <3>2 DEF IsInjective, Range
  <2>2. CASE o.new.kind \in ChainKinds
    <3> DEFINE id == IF o.chain = None THEN OutputID(o) ELSE o.chain
               u  == << "outputs", o.new.kind, id >>
    <3>1. id \in OutputNames /\ id # "raw"
      BY OutputTypes, NamesAreLevels
    <3>2. u \in Seq(Levels) /\ Len(u) = 3 /\ u[1] = "outputs" /\ u[3] = id
      BY <2>2, <3>1, NamesAreLevels DEF Levels
    <3>3. chain = << u >>
      BY <2>2 DEF GetChainTopicsForOutput
    <3> HIDE DEF u, id
    <3>4. Len(u) > 2 /\ u[Len(u)] # "raw"
      BY <3>1, <3>2
    <3>5. u \in Proper(k)
      BY <3>2, <3>4, OutputsTopicProper
    <3>6. << u >> \in Seq(Proper(k)) /\ DOMAIN << u >> = {1} /\ << u >>[1] = u
      BY <3>5
    <3>7. IsInjective(<< u >>) /\ Range(<< u >>) = {u}
      BY <3>6 DEF IsInjective, Range
    <3> HIDE DEF chain
    <3> QED BY <3>2, <3>3, <3>6, <3>7
  <2> QED BY <2>1, <2>2
<1>3. /\ rest \in Seq(Proper(k)) /\ IsInjective(rest) /\ \A u \in Range(rest) : Len(u) = 4
      /\ AnyTopics(o, rest)
  BY UnlockTopics DEF AnyTopics
<1> HIDE DEF t, chain, rest
<1>4. << t >> \in Seq(Proper(k)) /\ IsInjective(<< t >>) /\ Range(<< t >>) = {t}
  <2>1. DOMAIN << t >> = {1} /\ << t >>[1] = t
    OBVIOUS
  <2> QED BY <1>1, <2>1 DEF IsInjective, Range
<1>5. /\ first \in Seq(Proper(k)) /\ IsInjective(first) /\ Range(first) = {t} \cup Range(chain)
  <2>1. \A u \in Range(<< t >>), v \in Range(chain) : Len(u) # Len(v)
    <3>1. \A v \in Range(chain) : Len(v) = 3
      BY <1>2
    <3>2. \A u \in Range(<< t >>) : Len(u) = 2
      BY <1>1, <1>4
    <3> HIDE DEF first
    <3> QED BY <3>1, <3>2
  <2> DEFINE one == << t >>
  <2>2. first = one \o chain
    OBVIOUS
  <2> HIDE DEF first, one
  <2>3. one \in Seq(Proper(k)) /\ IsInjective(one) /\ Range(one) = {t}
    BY <1>4 DEF one
  <2>4. \A u \in Range(one), v \in Range(chain) : Len(u) # Len(v)
    BY <2>1 DEF one
  <2> QED BY <1>2, <2>2, <2>3, <2>4, JoinedByLength
<1>6. \A u \in Range(first) : Len(u) \in {2, 3}
  <2>1. \A u \in Range(chain) : Len(u) = 3
    BY <1>2
  <2> HIDE DEF first
  <2>2. \A u \in Range(first) : u = t \/ u \in Range(chain)
    BY <1>5
  <2> QED BY <1>1, <2>1, <2>2
<1> DEFINE s == first \o rest
<1>7. s \in Seq(Proper(k)) /\ IsInjective(s) /\ Range(s) = Range(first) \cup Range(rest)
  <2> HIDE DEF first
  <2>1. \A v \in Range(rest) : Len(v) = 4
    BY <1>3
  <2>2. ASSUME NEW u \in Range(first), NEW v \in Range(rest) PROVE Len(u) # Len(v)
    <3>1. Len(u) = 2 \/ Len(u) = 3
      BY <1>6
    <3>2. Len(v) = 4
      BY <2>1
    <3> QED BY <3>1, <3>2
  <2> QED BY <1>3, <1>5, <2>2, JoinedByLength
<1>8. AnyTopics(o, s)
  <2>1. \A a \in Addresses : Unlock("any", a) \notin Range(first)
    <3>1. \A a \in Addresses : Len(Unlock("any", a)) = 4
      BY UnlockTopic
    <3> HIDE DEF first
    <3> QED BY <1>6, <3>1
  <2> HIDE DEF first, s
  <2> QED BY <1>3, <1>7, <2>1 DEF AnyTopics
<1> QED BY <1>7, <1>8 DEF t, chain, rest

LEMMA PublishOutputProper ==
  ASSUME NEW o \in Output, NEW spent \in BOOLEAN, NEW k \in LedgerStreams
  PROVE  PublishOutput(o, spent) \in Seq(Published(k))
<1> DEFINE id       == TransactionIDs[o.tx]
           included == Publication(<< GetTopicTransactionsIncludedBlockMetadata(id) >>)
           topics   == << GetTopicOutput(OutputID(o)) >> \o GetChainTopicsForOutput(o)
                         \o GetUnlockConditionTopicsForOutput(o)
           shown    == [topics |-> topics, shows |-> << o, spent >>]
           before   == IF ~spent /\ o.index = 0 THEN << included >> ELSE <<>>
<1>1. << included >> \in Seq(Published(k))
  <2>1. GetTopicTransactionsIncludedBlockMetadata(id) \in Proper(k)
    BY OutputTypes, TransactionTopicsProper
  <2> QED BY <2>1, OneTopic
<1>2. shown \in Published(k)
  <2>1. topics \in Seq(Proper(k)) /\ IsInjective(topics) /\ AnyTopics(o, topics)
    BY OutputTopics
  <2> HIDE DEF topics
  <2>2. << o, spent >> \in Output \X BOOLEAN /\ << o, spent >>[1] = o
    OBVIOUS
  <2> QED BY <2>1, <2>2 DEF Published
<1>3. PublishOutput(o, spent) = before \o << shown >>
  BY DEF PublishOutput
<1> HIDE DEF included, shown
<1>4. before \in Seq(Published(k))
  BY <1>1
<1> HIDE DEF before
<1> QED BY <1>2, <1>3, <1>4

LEMMA TransactionMetadataProper ==
  ASSUME NEW n \in DOMAIN TransactionIDs, NEW k \in LedgerStreams
  PROVE  << TransactionMetadata(n) >> \in Seq(Published(k))
<1>1. GetTopicTransactionMetadata(TransactionIDs[n]) \in Proper(k)
  BY TransactionTopicsProper DEF Range
<1> QED BY <1>1, OneTopic DEF TransactionMetadata

\* What is published for each element of a set.
Each(F) == FlattenSeq([i \in DOMAIN SetToSeq(DOMAIN F) |-> F[SetToSeq(DOMAIN F)[i]]])

LEMMA EachProperties ==
  ASSUME NEW T, NEW S, IsFiniteSet(S), NEW F \in [S -> Seq(T)]
  PROVE  /\ Each(F) \in Seq(T)
         /\ \A p : p \in Range(Each(F)) <=> \E x \in S : p \in Range(F[x])
<1> DEFINE order == SetToSeq(S)
           parts == [i \in DOMAIN order |-> F[order[i]]]
<1>1. order \in Seq(S) /\ Range(order) = S
  BY SetToSeqProperties
<1>2. Each(F) = FlattenSeq(parts)
  BY DEF Each
<1> HIDE DEF order
<1>3. parts \in Seq(Seq(T)) /\ DOMAIN parts = DOMAIN order
  <2>1. DOMAIN order = 1 .. Len(order) /\ Len(order) \in Nat
    BY <1>1
  <2>2. \A i \in 1 .. Len(order) : F[order[i]] \in Seq(T)
    BY <1>1
  <2> QED BY <2>1, <2>2
<1>4. \A p : (\E i \in DOMAIN parts : p \in Range(parts[i])) <=> \E x \in S : p \in Range(F[x])
  <2>1. \A x : x \in S <=> \E i \in DOMAIN order : order[i] = x
    BY <1>1 DEF Range
  <2>2. \A i \in DOMAIN order : parts[i] = F[order[i]]
    OBVIOUS
  <2> HIDE DEF parts
  <2> QED BY <1>3, <2>1, <2>2
<1> HIDE DEF parts
<1> QED BY <1>2, <1>3, <1>4, FlattenSeqProperties

\* The callbacks in these terms.
SpentOutputs(consumed) == [o \in consumed |-> PublishOutput(o, TRUE)]
FreshOutputs(created)  == [o \in created |-> PublishOutput(o, FALSE)]
UpdateOf(o) ==
  PublishOutput(o, FALSE) \o IF o.index = 0 THEN << TransactionMetadata(o.tx) >> ELSE <<>>
FreshUpdates(created)  == [o \in created |-> UpdateOf(o)]

LEMMA CallbackParts ==
  ASSUME NEW consumed, IsFiniteSet(consumed), NEW created, IsFiniteSet(created)
  PROVE  /\ \A n : OnAcceptedTransaction(n, consumed, created)
                     = Each(SpentOutputs(consumed)) \o Each(FreshOutputs(created))
                       \o << TransactionMetadata(n) >>
         /\ OnLedgerUpdate(consumed, created)
              = Each(SpentOutputs(consumed)) \o Each(FreshUpdates(created))
<1>1. /\ \A i \in DOMAIN SetToSeq(consumed) : SetToSeq(consumed)[i] \in consumed
      /\ \A i \in DOMAIN SetToSeq(created) : SetToSeq(created)[i] \in created
  BY SetToSeqProperties DEF Range
<1>2. ForEach(LAMBDA o : PublishOutput(o, TRUE), consumed) = Each(SpentOutputs(consumed))
  <2>1. [i \in DOMAIN SetToSeq(consumed) |-> PublishOutput(SetToSeq(consumed)[i], TRUE)]
          = [i \in DOMAIN SetToSeq(consumed) |-> SpentOutputs(consumed)[SetToSeq(consumed)[i]]]
    BY <1>1 DEF SpentOutputs
  <2>2. DOMAIN SpentOutputs(consumed) = consumed
    BY DEF SpentOutputs
  <2> QED BY <2>1, <2>2 DEF ForEach, Each
<1>3. ForEach(LAMBDA o : PublishOutput(o, FALSE), created) = Each(FreshOutputs(created))
  <2>1. [i \in DOMAIN SetToSeq(created) |-> PublishOutput(SetToSeq(created)[i], FALSE)]
          = [i \in DOMAIN SetToSeq(created) |-> FreshOutputs(created)[SetToSeq(created)[i]]]
    BY <1>1 DEF FreshOutputs
  <2>2. DOMAIN FreshOutputs(created) = created
    BY DEF FreshOutputs
  <2> QED BY <2>1, <2>2 DEF ForEach, Each
<1>4. ForEach(UpdateOf, created) = Each(FreshUpdates(created))
  <2>1. [i \in DOMAIN SetToSeq(created) |-> UpdateOf(SetToSeq(created)[i])]
          = [i \in DOMAIN SetToSeq(created) |-> FreshUpdates(created)[SetToSeq(created)[i]]]
    BY <1>1 DEF FreshUpdates
  <2>2. DOMAIN FreshUpdates(created) = created
    BY DEF FreshUpdates
  <2> QED BY <2>1, <2>2 DEF ForEach, Each
<1>5. \A n : OnAcceptedTransaction(n, consumed, created)
               = Each(SpentOutputs(consumed)) \o Each(FreshOutputs(created))
                 \o << TransactionMetadata(n) >>
  BY <1>2, <1>3 DEF OnAcceptedTransaction
<1>6. OnLedgerUpdate(consumed, created)
        = ForEach(LAMBDA o : PublishOutput(o, TRUE), consumed) \o ForEach(UpdateOf, created)
  BY DEF OnLedgerUpdate, UpdateOf, ForEach
<1> QED BY <1>2, <1>4, <1>5, <1>6

LEMMA PartsProper ==
  ASSUME NEW consumed, consumed \subseteq Output, IsFiniteSet(consumed),
         NEW created, created \subseteq Output, IsFiniteSet(created), NEW k \in LedgerStreams
  PROVE  /\ SpentOutputs(consumed) \in [consumed -> Seq(Published(k))]
         /\ FreshOutputs(created) \in [created -> Seq(Published(k))]
         /\ FreshUpdates(created) \in [created -> Seq(Published(k))]
         /\ Each(SpentOutputs(consumed)) \in Seq(Published(k))
         /\ Each(FreshOutputs(created)) \in Seq(Published(k))
         /\ Each(FreshUpdates(created)) \in Seq(Published(k))
<1> DEFINE T == Published(k)
<1>1. \A o \in Output, b \in BOOLEAN : PublishOutput(o, b) \in Seq(T)
  BY PublishOutputProper
<1>2. ASSUME NEW o \in Output PROVE UpdateOf(o) \in Seq(T)
  <2>1. o.tx \in DOMAIN TransactionIDs
    BY IDsAssumption DEF Output
  <2>2. << TransactionMetadata(o.tx) >> \in Seq(T)
    BY <2>1, TransactionMetadataProper
  <2>3. (IF o.index = 0 THEN << TransactionMetadata(o.tx) >> ELSE <<>>) \in Seq(T)
    BY <2>2
  <2> HIDE DEF T
  <2> QED BY <1>1, <2>3, ConcatProperties DEF UpdateOf
<1> HIDE DEF T
<1>3. /\ SpentOutputs(consumed) \in [consumed -> Seq(T)]
      /\ FreshOutputs(created) \in [created -> Seq(T)]
      /\ FreshUpdates(created) \in [created -> Seq(T)]
  BY <1>1, <1>2 DEF SpentOutputs, FreshOutputs, FreshUpdates
<1>4. /\ Each(SpentOutputs(consumed)) \in Seq(T) /\ Each(FreshOutputs(created)) \in Seq(T)
      /\ Each(FreshUpdates(created)) \in Seq(T)
  BY <1>3, EachProperties
<1> QED BY <1>3, <1>4 DEF T

LEMMA LedgerCallbacks ==
  ASSUME NEW consumed, consumed \subseteq Output, IsFiniteSet(consumed),
         NEW created, created \subseteq Output, IsFiniteSet(created), NEW k \in LedgerStreams
  PROVE  /\ \A n \in DOMAIN TransactionIDs :
               OnAcceptedTransaction(n, consumed, created) \in Seq(Published(k))
         /\ OnLedgerUpdate(consumed, created) \in Seq(Published(k))
<1> DEFINE T == Published(k)
           spent == Each(SpentOutputs(consumed))
           fresh == Each(FreshOutputs(created))
           updates == Each(FreshUpdates(created))
<1>1. spent \in Seq(T) /\ fresh \in Seq(T) /\ updates \in Seq(T)
  BY PartsProper
<1>2. \A n \in DOMAIN TransactionIDs : << TransactionMetadata(n) >> \in Seq(T)
  BY TransactionMetadataProper
<1>3. /\ \A n : OnAcceptedTransaction(n, consumed, created)
                  = spent \o fresh \o << TransactionMetadata(n) >>
      /\ OnLedgerUpdate(consumed, created) = spent \o updates
  BY CallbackParts
<1> HIDE DEF T, spent, fresh, updates
<1>4. spent \o fresh \in Seq(T) /\ spent \o updates \in Seq(T)
  BY <1>1, ConcatProperties
<1>5. \A n \in DOMAIN TransactionIDs : spent \o fresh \o << TransactionMetadata(n) >> \in Seq(T)
  BY <1>2, <1>4, ConcatProperties
<1> QED BY <1>3, <1>4, <1>5 DEF T

-----------------------------------------------------------------------------
(* The inductive invariant: the ledger holds outputs of the transactions,  *)
(* finitely many, and the last callback's publications are proper.         *)

TopicsInv ==
  /\ unspent \subseteq Output /\ IsFiniteSet(unspent)
  /\ committed \subseteq Output /\ IsFiniteSet(committed)
  /\ accepted \in 1 .. Len(TransactionIDs)
  /\ delivery.publications \in Seq(Published(delivery.stream))

\* The outputs that a transaction may create.
LEMMA NewOutputsOfTransaction ==
  ASSUME NEW n \in DOMAIN TransactionIDs, NEW i \in {0, 1}
  PROVE  /\ \A new \in NewOutputs : Created(n, i, new) \in Output
         /\ \A o \in Output : Continued(n, i, o) \in Output
<1>1. n \in DOMAIN OutputIDs /\ OutputIDs[n][i + 1] \in OutputNames
  <2>1. n \in DOMAIN OutputIDs /\ i + 1 \in DOMAIN OutputIDs[n]
    BY IDsAssumption
  <2> QED BY <2>1 DEF OutputNames, Range
<1> QED BY <1>1 DEF Created, Continued, Output

LEMMA TopicsInit == Init => TopicsInv
<1> SUFFICES ASSUME Init PROVE TopicsInv
  OBVIOUS
<1>1. 1 \in DOMAIN TransactionIDs /\ 1 \in 1 .. Len(TransactionIDs)
  BY IDsAssumption
<1>2. (CHOOSE n \in NewOutputs : n.kind = "basic") \in NewOutputs
  BY NewOutputsAssumption
<1>3. OutputIDs[1][1] \in OutputNames
  <2>1. 1 \in DOMAIN OutputIDs /\ 1 \in DOMAIN OutputIDs[1]
    BY <1>1, IDsAssumption
  <2> QED BY <2>1 DEF OutputNames, Range
<1>4. Genesis \in Output
  BY <1>1, <1>2, <1>3, IDsAssumption DEF Genesis, Output
<1>5. IsFiniteSet({Genesis})
  BY FS_Singleton
<1>6. delivery.publications = <<>>
  BY DEF Init
<1>7. delivery.publications \in Seq(Published(delivery.stream))
  BY <1>6
<1> QED BY <1>1, <1>4, <1>5, <1>7 DEF Init, TopicsInv

\* The callbacks of blocks publish once, on the topics they are given.
LEMMA DeliverBlockKeeps ==
  ASSUME TopicsInv, NEW k, NEW topics \in Seq(Proper(k)), IsInjective(topics),
         DeliverBlock(k, topics)
  PROVE  TopicsInv'
<1>1. Publication(topics) \in Published(k)
  BY PublicationProper
<1>2. delivery'.stream = k /\ delivery'.publications = << Publication(topics) >>
  BY DEF DeliverBlock
<1>3. delivery'.publications \in Seq(Published(delivery'.stream))
  BY <1>1, <1>2
<1>4. UNCHANGED <<unspent, committed, accepted>>
  BY DEF DeliverBlock
<1>5. Published(delivery.stream)' = Published(delivery'.stream)
  BY DEF Published, Proper, AnyTopics
<1> QED BY <1>3, <1>4, <1>5 DEF TopicsInv

\* Two different topics of one callback.
LEMMA TwoTopics ==
  ASSUME NEW T, NEW a \in T, NEW b \in T, a # b
  PROVE  << a, b >> \in Seq(T) /\ IsInjective(<< a, b >>)
<1>1. DOMAIN << a, b >> = {1, 2} /\ << a, b >>[1] = a /\ << a, b >>[2] = b
  OBVIOUS
<1> QED BY <1>1 DEF IsInjective

\* What a transaction n that spends o may create.
CreatedSets(n, o, new) ==
  { { Created(n, 0, new) } }
  \cup (IF o.new.kind \in ChainKinds
        THEN { { Continued(n, 0, o) },
               { Continued(n, 0, o), Created(n, 1, new) },
               { Created(n, 0, new), Continued(n, 1, o) } }
        ELSE { { Created(n, 0, new), Created(n, 1, o.new) } })

LEMMA AcceptParts ==
  ASSUME TopicsInv, AcceptTransaction, NEW n, n = accepted + 1
  PROVE  /\ n \in 1 .. Len(TransactionIDs) /\ n \in DOMAIN TransactionIDs
         /\ accepted' = n /\ committed' = committed
         /\ \E o \in unspent, new \in NewOutputs : \E created \in CreatedSets(n, o, new) :
              /\ created \subseteq Output /\ IsFiniteSet(created)
              /\ unspent' = (unspent \ {o}) \cup created
              /\ Deliver(GrpcListenToAcceptedTransactions, OnAcceptedTransaction(n, {o}, created))
<1>1. n \in 1 .. Len(TransactionIDs) /\ n \in DOMAIN TransactionIDs
  BY IDsAssumption DEF TopicsInv, AcceptTransaction
<1>2. PICK o \in unspent, new \in NewOutputs : \E created \in CreatedSets(n, o, new) :
        /\ unspent' = (unspent \ {o}) \cup created
        /\ Deliver(GrpcListenToAcceptedTransactions, OnAcceptedTransaction(n, {o}, created))
  BY DEF AcceptTransaction, CreatedSets
<1>3. PICK created \in CreatedSets(n, o, new) :
        /\ unspent' = (unspent \ {o}) \cup created
        /\ Deliver(GrpcListenToAcceptedTransactions, OnAcceptedTransaction(n, {o}, created))
  BY <1>2
<1>4. o \in Output /\ o.new \in NewOutputs
  BY DEF TopicsInv, Output
<1>5. created \subseteq Output /\ IsFiniteSet(created)
  <2>1. /\ Created(n, 0, new) \in Output /\ Created(n, 1, new) \in Output
        /\ Created(n, 1, o.new) \in Output
        /\ Continued(n, 0, o) \in Output /\ Continued(n, 1, o) \in Output
    BY <1>1, <1>4, NewOutputsOfTransaction
  <2>2. \A x, y : IsFiniteSet({x}) /\ IsFiniteSet({x, y})
    <3>1. TAKE x, y
    <3>2. IsFiniteSet({x})
      BY FS_Singleton
    <3>3. IsFiniteSet({x} \cup {y})
      BY <3>2, FS_AddElement
    <3>4. {x} \cup {y} = {x, y}
      OBVIOUS
    <3>5. IsFiniteSet({x, y})
      BY <3>3, <3>4, Zenon
    <3> QED BY <3>2, <3>5
  <2>3. \/ created = {Created(n, 0, new)} \/ created = {Continued(n, 0, o)}
        \/ created = {Continued(n, 0, o), Created(n, 1, new)}
        \/ created = {Created(n, 0, new), Continued(n, 1, o)}
        \/ created = {Created(n, 0, new), Created(n, 1, o.new)}
    BY DEF CreatedSets
  <2>4. created \subseteq Output
    BY <2>1, <2>3
  <2>5. IsFiniteSet(created)
    BY <2>2, <2>3
  <2> QED BY <2>4, <2>5
<1>6. accepted' = n /\ committed' = committed
  BY DEF AcceptTransaction
<1> QED BY <1>1, <1>3, <1>5, <1>6

LEMMA TopicsAccept == TopicsInv /\ AcceptTransaction => TopicsInv'
<1> SUFFICES ASSUME TopicsInv, AcceptTransaction PROVE TopicsInv'
  OBVIOUS
<1>1. PICK n : n = accepted + 1
  OBVIOUS
<1>2. /\ n \in 1 .. Len(TransactionIDs) /\ n \in DOMAIN TransactionIDs
      /\ accepted' = n /\ committed' = committed
  BY <1>1, AcceptParts
<1>3. PICK o \in unspent, new \in NewOutputs : \E created \in CreatedSets(n, o, new) :
        /\ created \subseteq Output /\ IsFiniteSet(created)
        /\ unspent' = (unspent \ {o}) \cup created
        /\ Deliver(GrpcListenToAcceptedTransactions, OnAcceptedTransaction(n, {o}, created))
  BY <1>1, AcceptParts
<1>4. PICK created \in CreatedSets(n, o, new) :
        /\ created \subseteq Output /\ IsFiniteSet(created)
        /\ unspent' = (unspent \ {o}) \cup created
        /\ Deliver(GrpcListenToAcceptedTransactions, OnAcceptedTransaction(n, {o}, created))
  BY <1>3
<1>5. {o} \subseteq Output /\ IsFiniteSet({o})
  BY FS_Singleton DEF TopicsInv
<1>6. unspent' \subseteq Output /\ IsFiniteSet(unspent')
  <2>1. IsFiniteSet(unspent \ {o})
    BY FS_RemoveElement DEF TopicsInv
  <2> QED BY <1>4, <2>1, FS_Union DEF TopicsInv
<1>7. delivery'.publications \in Seq(Published(delivery'.stream))
  <2>1. OnAcceptedTransaction(n, {o}, created) \in Seq(Published(GrpcListenToAcceptedTransactions))
    BY <1>2, <1>4, <1>5, LedgerCallbacks DEF LedgerStreams
  <2> QED BY <1>4, <2>1 DEF Deliver
<1>8. Published(delivery.stream)' = Published(delivery'.stream)
  BY DEF Published, Proper, AnyTopics
<1> QED BY <1>2, <1>6, <1>7, <1>8 DEF TopicsInv

LEMMA TopicsCommit == TopicsInv /\ CommitSlot => TopicsInv'
<1> SUFFICES ASSUME TopicsInv, CommitSlot PROVE TopicsInv'
  OBVIOUS
<1> DEFINE spent == committed \ unspent
           fresh == unspent \ committed
<1>1. spent \subseteq Output /\ IsFiniteSet(spent) /\ fresh \subseteq Output /\ IsFiniteSet(fresh)
  <2>1. spent \in SUBSET committed /\ fresh \in SUBSET unspent
    OBVIOUS
  <2> HIDE DEF spent, fresh
  <2> QED BY <2>1, FS_Subset DEF TopicsInv
<1>2. Deliver(GrpcListenToLedgerUpdates, OnLedgerUpdate(spent, fresh))
  BY DEF CommitSlot
<1> HIDE DEF spent, fresh
<1>3. delivery'.publications \in Seq(Published(delivery'.stream))
  <2>1. OnLedgerUpdate(spent, fresh) \in Seq(Published(GrpcListenToLedgerUpdates))
    BY <1>1, LedgerCallbacks DEF LedgerStreams
  <2> QED BY <1>2, <2>1 DEF Deliver
<1>4. committed' = unspent /\ UNCHANGED <<unspent, accepted>>
  BY DEF CommitSlot
<1>5. Published(delivery.stream)' = Published(delivery'.stream)
  BY DEF Published, Proper, AnyTopics
<1> QED BY <1>3, <1>4, <1>5 DEF TopicsInv

LEMMA TopicsNext == TopicsInv /\ [Next]_vars => TopicsInv'
<1> SUFFICES ASSUME TopicsInv, [Next]_vars PROVE TopicsInv'
  OBVIOUS
<1>1. CASE AcceptTransaction
  BY <1>1, TopicsAccept
<1>2. CASE CommitSlot
  BY <1>2, TopicsCommit
<1>3. CASE NewBlock
  <2>1. PICK b \in Block : DeliverBlock(GrpcListenToBlocks, BlockTopics(b))
    BY <1>3 DEF NewBlock
  <2> DEFINE s == BlockTopics(b)
  <2>2. Ladder(0, s)
    BY BlockTopicsLadder
  <2> HIDE DEF s
  <2>3. s \in Seq(Proper(GrpcListenToBlocks)) /\ \A i \in 1 .. Len(s) : Len(s[i]) = i
    BY <2>2 DEF Ladder
  <2>4. IsInjective(s)
    <3>1. DOMAIN s = 1 .. Len(s)
      BY <2>3
    <3> QED BY <2>3, <3>1 DEF IsInjective
  <2> QED BY <2>1, <2>3, <2>4, DeliverBlockKeeps DEF s
<1>4. CASE AcceptBlock
  <2>1. PICK id \in BlockIDs :
          DeliverBlock(GrpcListenToAcceptedBlocks,
                       << EventAPITopicBlockMetadataAccepted, GetTopicBlockMetadata(id) >>)
    BY <1>4 DEF AcceptBlock
  <2>2. EventAPITopicBlockMetadataAccepted # GetTopicBlockMetadata(id)
    BY NamesAreLevels DEF EventAPITopicBlockMetadataAccepted, GetTopicBlockMetadata
  <2>3. /\ EventAPITopicBlockMetadataAccepted \in Proper(GrpcListenToAcceptedBlocks)
        /\ GetTopicBlockMetadata(id) \in Proper(GrpcListenToAcceptedBlocks)
    BY BlockMetadataTopicsProper DEF BothBlockStreams
  <2> QED BY <2>1, <2>2, <2>3, TwoTopics, DeliverBlockKeeps
<1>5. CASE ConfirmBlock
  <2>1. PICK id \in BlockIDs :
          DeliverBlock(GrpcListenToConfirmedBlocks,
                       << EventAPITopicBlockMetadataConfirmed, GetTopicBlockMetadata(id) >>)
    BY <1>5 DEF ConfirmBlock
  <2>2. EventAPITopicBlockMetadataConfirmed # GetTopicBlockMetadata(id)
    BY NamesAreLevels DEF EventAPITopicBlockMetadataConfirmed, GetTopicBlockMetadata
  <2>3. /\ EventAPITopicBlockMetadataConfirmed \in Proper(GrpcListenToConfirmedBlocks)
        /\ GetTopicBlockMetadata(id) \in Proper(GrpcListenToConfirmedBlocks)
    BY BlockMetadataTopicsProper DEF BothBlockStreams
  <2> QED BY <2>1, <2>2, <2>3, TwoTopics, DeliverBlockKeeps
<1>6. CASE UNCHANGED vars
  BY <1>6 DEF TopicsInv, vars, Published, Proper, AnyTopics
<1> QED BY <1>1, <1>2, <1>3, <1>4, <1>5, <1>6 DEF Next

LEMMA TopicsAlways == Spec => []TopicsInv
  BY TopicsInit, TopicsNext, PTL DEF Spec

-----------------------------------------------------------------------------
(* What subscribers rely on.                                               *)

\* A topic that a callback publishes on is one of its stream's.
LEMMA PublishedTopicsAreProper ==
  ASSUME TopicsInv
  PROVE  /\ \A p \in Range(delivery.publications) : p \in Published(delivery.stream)
         /\ \A t \in PublishedOn : t \in Proper(delivery.stream)
<1> DEFINE s == delivery.publications
           T == Published(delivery.stream)
<1>1. s \in Seq(T)
  BY DEF TopicsInv
<1>2. \A p \in Range(s) : p \in T
  <2> HIDE DEF s, T
  <2> QED BY <1>1 DEF Range
<1>3. ASSUME NEW p \in Range(s), NEW t \in Range(p.topics) PROVE t \in Proper(delivery.stream)
  <2>1. p.topics \in Seq(Proper(delivery.stream))
    BY <1>2 DEF Published
  <2> QED BY <1>3, <2>1 DEF Range
<1> QED BY <1>2, <1>3 DEF PublishedOn

\* Every topic that a callback publishes on is made of levels that exist: no
\* nil address and no missing chain ID ends up in one (topics.go).
THEOREM TopicTypes == Spec => []TypeOK
<1>1. TopicsInv => TypeOK
  <2> SUFFICES ASSUME TopicsInv PROVE TypeOK
    OBVIOUS
  <2>1. \A k : Proper(k) \subseteq Seq(Levels)
    BY DEF Proper
  <2>2. ASSUME NEW p \in Range(delivery.publications) PROVE p.topics \in Seq(Seq(Levels))
    <3>1. p.topics \in Seq(Proper(delivery.stream))
      BY PublishedTopicsAreProper DEF Published
    <3> QED BY <2>1, <3>1
  <2> QED BY <2>2 DEF TopicsInv, TypeOK
<1> QED BY <1>1, TopicsAlways, PTL

\* Whoever subscribes to a topic that a callback publishes on, in either
\* format, starts the callback's stream, for all outputs, blocks and
\* addresses (onSubscribeTopic against the listeners of server.go).
THEOREM SubscribersReachTheirStream == Spec => []PublishedWhereSubscribed
<1>1. TopicsInv => PublishedWhereSubscribed
  <2> SUFFICES ASSUME TopicsInv, NEW t \in PublishedOn
               PROVE  delivery.stream \in StartedBy(t) /\ delivery.stream \in StartedBy(Append(t, "raw"))
    BY DEF PublishedWhereSubscribed
  <2>1. t \in Proper(delivery.stream)
    BY PublishedTopicsAreProper
  <2>2. /\ t \in Seq(Levels) /\ t # <<>> /\ t[Len(t)] # "raw"
        /\ delivery.stream \in StartedBy(t)
    BY <2>1 DEF Proper
  <2>3. TrimRaw(t) = TrimRaw(Append(t, "raw"))
    BY <2>2, BothFormats
  <2> QED BY <2>2, <2>3 DEF StartedBy
<1> QED BY <1>1, TopicsAlways, PTL

\* No publication names a topic twice, and an output is published for "any"
\* of an address once, if and only if a condition names that address
\* (addressesToPublishForAny in topics.go).
THEOREM ToldOnce == Spec => []NobodyIsToldTwice
<1>1. TopicsInv => NobodyIsToldTwice
  BY PublishedTopicsAreProper DEF NobodyIsToldTwice, Published, AnyTopics
<1> QED BY <1>1, TopicsAlways, PTL

\* The parsers of topics.go invert its topic functions: the subscriber of a
\* published topic triggers the fetch of its one object, or none.
THEOREM FetchesInvertTopics == Spec => []FetchAnswersSubscriber
<1>1. TopicsInv => FetchAnswersSubscriber
  <2> SUFFICES ASSUME TopicsInv, NEW t \in PublishedOn
               PROVE  LET fetched == IF OfOneObject(t) THEN {t} ELSE {}
                      IN  Fetches(t) = fetched /\ Fetches(Append(t, "raw")) = fetched
    BY DEF FetchAnswersSubscriber
  <2>1. t \in Proper(delivery.stream)
    BY PublishedTopicsAreProper
  <2>2. /\ t \in Seq(Levels) /\ t # <<>> /\ t[Len(t)] # "raw"
        /\ FetchedTopics(t) = IF OfOneObject(t) THEN {t} ELSE {}
    BY <2>1 DEF Proper
  <2>3. TrimRaw(t) = t /\ TrimRaw(Append(t, "raw")) = t
    BY <2>2, BothFormats
  <2> QED BY <2>2, <2>3 DEF Fetches
<1> QED BY <1>1, TopicsAlways, PTL

-----------------------------------------------------------------------------
(* What the topics of a callback show.                                     *)

\* The chain that an output is shown as, on the topic of its chain.
ChainID(o) == IF o.chain = None THEN OutputID(o) ELSE o.chain
OfChain(o, c) == o.new.kind \in ChainKinds /\ ChainID(o) = c

Outputs(o, spent) ==
  [topics |-> << GetTopicOutput(OutputID(o)) >> \o GetChainTopicsForOutput(o)
              \o GetUnlockConditionTopicsForOutput(o),
   shows |-> << o, spent >>]
Included(n) == Publication(<< GetTopicTransactionsIncludedBlockMetadata(TransactionIDs[n]) >>)

\* The topics of an output are those of outputs, and one of them is that of
\* its chain.
LEMMA TopicsOfOutput ==
  ASSUME NEW o \in Output, NEW spent \in BOOLEAN
  PROVE  /\ \A t \in Range(Outputs(o, spent).topics) : t[1] = "outputs"
         /\ \A kind, c : << "outputs", kind, c >> \in Range(Outputs(o, spent).topics)
                           <=> kind = o.new.kind /\ OfChain(o, c)
<1> DEFINE t     == GetTopicOutput(OutputID(o))
           chain == GetChainTopicsForOutput(o)
           rest  == GetUnlockConditionTopicsForOutput(o)
           k     == GrpcListenToLedgerUpdates
<1>0. k \in LedgerStreams
  BY DEF LedgerStreams
<1>1. t \in Seq(Levels) /\ Len(t) = 2 /\ t[1] = "outputs"
  BY OutputTypes, NamesAreLevels DEF GetTopicOutput, Levels
<1>2. /\ chain \in Seq(Seq(Levels)) /\ \A u \in Range(chain) : u[1] = "outputs"
      /\ \A kind, c : << "outputs", kind, c >> \in Range(chain)
                        <=> kind = o.new.kind /\ OfChain(o, c)
  <2>1. CASE o.new.kind \notin ChainKinds
    <3>1. chain = <<>>
      BY <2>1 DEF GetChainTopicsForOutput
    <3>2. <<>> \in Seq(Seq(Levels)) /\ DOMAIN <<>> = {}
      OBVIOUS
    <3> HIDE DEF chain
    <3>3. Range(chain) = {}
      BY <3>1, <3>2 DEF Range
    <3> QED BY <2>1, <3>1, <3>2, <3>3 DEF OfChain
  <2>2. CASE o.new.kind \in ChainKinds
    <3> DEFINE u == << "outputs", o.new.kind, ChainID(o) >>
    <3>1. chain = << u >>
      BY <2>2 DEF GetChainTopicsForOutput, ChainID
    <3>2. ChainID(o) \in OutputNames
      BY OutputTypes DEF ChainID
    <3>3. u \in Seq(Levels) /\ u[1] = "outputs"
      BY <2>2, <3>2, NamesAreLevels DEF Levels
    <3>4. \A kind, c : << "outputs", kind, c >> = u <=> kind = o.new.kind /\ ChainID(o) = c
      OBVIOUS
    <3> HIDE DEF u, chain
    <3>5. << u >> \in Seq(Seq(Levels)) /\ DOMAIN << u >> = {1} /\ << u >>[1] = u
      BY <3>3
    <3>6. Range(chain) = {u}
      BY <3>1, <3>5 DEF Range
    <3> QED BY <2>2, <3>1, <3>3, <3>4, <3>5, <3>6 DEF OfChain
  <2> QED BY <2>1, <2>2
<1>3. rest \in Seq(Seq(Levels)) /\ \A u \in Range(rest) : u[1] = "outputs" /\ Len(u) = 4
  <2>1. rest \in Seq(Proper(k)) /\ \A u \in Range(rest) : u[1] = "outputs" /\ Len(u) = 4
    BY <1>0, UnlockTopics
  <2>2. Proper(k) \subseteq Seq(Levels)
    BY DEF Proper
  <2> QED BY <2>1, <2>2
<1> HIDE DEF t, chain, rest
<1> DEFINE one == << t >>
           s   == one \o chain \o rest
<1>4. one \in Seq(Seq(Levels)) /\ Range(one) = {t}
  <2>1. DOMAIN << t >> = {1} /\ << t >>[1] = t /\ << t >> \in Seq(Seq(Levels))
    BY <1>1
  <2> QED BY <2>1 DEF Range
<1> HIDE DEF one
<1>5. \A u : u \in Range(s) <=> u = t \/ u \in Range(chain) \/ u \in Range(rest)
  <2>1. one \o chain \in Seq(Seq(Levels)) /\ Range(one \o chain) = Range(one) \cup Range(chain)
    BY <1>2, <1>4, ConcatRange, ConcatProperties
  <2>2. PICK first \in Seq(Seq(Levels)) : first = one \o chain
    BY <2>1
  <2>3. Range(first \o rest) = Range(first) \cup Range(rest)
    BY <1>3, ConcatRange
  <2>4. s = first \o rest
    BY <2>2
  <2> HIDE DEF s
  <2> QED BY <1>4, <2>1, <2>2, <2>3, <2>4
<1>6. Outputs(o, spent).topics = s
  BY DEF Outputs, s, one, t, chain, rest
<1> HIDE DEF s
<1>7. \A kind, c : Len(<< "outputs", kind, c >>) = 3
  OBVIOUS
<1>8. ASSUME NEW kind, NEW c
      PROVE  << "outputs", kind, c >> \in Range(s) <=> kind = o.new.kind /\ OfChain(o, c)
  <2> DEFINE u == << "outputs", kind, c >>
  <2>1. Len(u) = 3
    BY <1>7
  <2> HIDE DEF u
  <2>2. u # t /\ u \notin Range(rest)
    <3>1. Len(t) = 2 /\ \A v \in Range(rest) : Len(v) = 4
      BY <1>1, <1>3
    <3>2. Len(u) # 2 /\ Len(u) # 4
      BY <2>1
    <3> QED BY <3>1, <3>2, Zenon
  <2>3. u \in Range(s) <=> u \in Range(chain)
    BY <1>5, <2>2
  <2> QED BY <1>2, <2>3 DEF u
<1>9. \A u \in Range(s) : u[1] = "outputs"
  BY <1>1, <1>2, <1>3, <1>5
<1> QED BY <1>6, <1>8, <1>9

LEMMA PublishOutputParts ==
  ASSUME NEW o \in Output, NEW spent \in BOOLEAN
  PROVE  PublishOutput(o, spent)
           = (IF ~spent /\ o.index = 0 THEN << Included(o.tx) >> ELSE <<>>) \o << Outputs(o, spent) >>
  BY DEF PublishOutput, Included, Outputs

\* Only the publications of an output show a chain.
LEMMA ShowNoChain ==
  \A n, c : ~ShowsChain(Included(n), c) /\ ~ShowsChain(TransactionMetadata(n), c)
  BY DEF ShowsChain, Included, TransactionMetadata, Publication

LEMMA ShownByOutput ==
  ASSUME NEW o \in Output, NEW spent \in BOOLEAN
  PROVE  /\ \A c : \A p \in Range(PublishOutput(o, spent)) :
              ShowsChain(p, c) => OfChain(o, c) /\ p.shows = << o, spent >>
         /\ \A c : OfChain(o, c) => \E p \in Range(PublishOutput(o, spent)) : ShowsChain(p, c)
<1> DEFINE before == IF ~spent /\ o.index = 0 THEN << Included(o.tx) >> ELSE <<>>
           shown  == Outputs(o, spent)
           T      == {Included(o.tx), shown}
<1>1. before \in Seq(T) /\ Range(before) \subseteq {Included(o.tx)}
  <2>1. \A x : << x >> \in Seq({x}) /\ DOMAIN << x >> = {1} /\ << x >>[1] = x
    OBVIOUS
  <2>2. <<>> \in Seq(T) /\ DOMAIN <<>> = {}
    OBVIOUS
  <2>3. \A x : Range(<< x >>) = {x}
    BY <2>1 DEF Range
  <2>4. Range(<<>>) = {}
    BY <2>2 DEF Range
  <2>5. << Included(o.tx) >> \in Seq(T)
    OBVIOUS
  <2> QED BY <2>2, <2>3, <2>4, <2>5
<1>2. << shown >> \in Seq(T) /\ Range(<< shown >>) = {shown}
  <2>1. DOMAIN << shown >> = {1} /\ << shown >>[1] = shown /\ << shown >> \in Seq(T)
    OBVIOUS
  <2> QED BY <2>1 DEF Range
<1>3. PublishOutput(o, spent) = before \o << shown >>
  BY PublishOutputParts
<1>4. ASSUME NEW c
      PROVE  ShowsChain(shown, c) <=> OfChain(o, c)
  <2>1. shown.shows = << o, spent >> /\ shown.shows # None
    <3>1. << o, spent >> \in Output \X BOOLEAN
      OBVIOUS
    <3> QED BY <3>1, NoneAssumption DEF Outputs
  <2>2. \A kind : << "outputs", kind, c >> \in Range(shown.topics) <=> kind = o.new.kind /\ OfChain(o, c)
    BY TopicsOfOutput
  <2> QED BY <2>1, <2>2 DEF ShowsChain, OfChain
<1>5. shown.shows = << o, spent >>
  BY DEF Outputs
<1> HIDE DEF before, shown, T
<1>6. Range(PublishOutput(o, spent)) = Range(before) \cup {shown}
  <2>1. PICK one \in Seq(T) : one = << shown >> /\ Range(one) = {shown}
    BY <1>2
  <2>2. Range(before \o one) = Range(before) \cup Range(one)
    BY <1>1, ConcatRange
  <2> QED BY <1>3, <2>1, <2>2
<1>7. ASSUME NEW p \in Range(PublishOutput(o, spent)), NEW c, ShowsChain(p, c) PROVE p = shown
  BY <1>1, <1>6, <1>7, ShowNoChain
<1> QED BY <1>4, <1>5, <1>6, <1>7

-----------------------------------------------------------------------------
(* The last publication of a callback that shows a chain.                  *)

\* Publications of what is spent, followed by publications of what is not.
ShowsFrom(before, after, consumed, created) ==
  /\ \A c : \A p \in Range(before) : ShowsChain(p, c) => \E o \in consumed : OfChain(o, c)
  /\ \A c : \A p \in Range(after) :
       ShowsChain(p, c) => \E o \in created : OfChain(o, c) /\ p.shows = << o, FALSE >>
  /\ \A c : \A o \in created : OfChain(o, c) => \E p \in Range(after) : ShowsChain(p, c)

LEMMA CallbacksShow ==
  ASSUME NEW consumed, consumed \subseteq Output, IsFiniteSet(consumed),
         NEW created, created \subseteq Output, IsFiniteSet(created), NEW k \in LedgerStreams
  PROVE  /\ ShowsFrom(Each(SpentOutputs(consumed)), Each(FreshUpdates(created)), consumed, created)
         /\ \A n \in DOMAIN TransactionIDs :
              ShowsFrom(Each(SpentOutputs(consumed)),
                        Each(FreshOutputs(created)) \o << TransactionMetadata(n) >>, consumed, created)
<1> DEFINE T == Published(k)
           spent == Each(SpentOutputs(consumed))
           fresh == Each(FreshOutputs(created))
           updates == Each(FreshUpdates(created))
<1>1. /\ SpentOutputs(consumed) \in [consumed -> Seq(T)]
      /\ FreshOutputs(created) \in [created -> Seq(T)]
      /\ FreshUpdates(created) \in [created -> Seq(T)]
      /\ fresh \in Seq(T)
  BY PartsProper
<1> HIDE DEF T
<1>2. /\ \A p : p \in Range(spent) <=> \E o \in consumed : p \in Range(PublishOutput(o, TRUE))
      /\ \A p : p \in Range(fresh) <=> \E o \in created : p \in Range(PublishOutput(o, FALSE))
      /\ \A p : p \in Range(updates) <=> \E o \in created : p \in Range(UpdateOf(o))
  <2>1. \A p : p \in Range(spent) <=> \E o \in consumed : p \in Range(SpentOutputs(consumed)[o])
    BY <1>1, EachProperties
  <2>2. \A p : p \in Range(fresh) <=> \E o \in created : p \in Range(FreshOutputs(created)[o])
    BY <1>1, EachProperties
  <2>3. \A p : p \in Range(updates) <=> \E o \in created : p \in Range(FreshUpdates(created)[o])
    BY <1>1, EachProperties
  <2> HIDE DEF spent, fresh, updates
  <2> QED BY <2>1, <2>2, <2>3 DEF SpentOutputs, FreshOutputs, FreshUpdates
<1> HIDE DEF spent, fresh, updates
<1>3. \A c : \A p \in Range(spent) : ShowsChain(p, c) => \E o \in consumed : OfChain(o, c)
  BY <1>2, ShownByOutput
<1>4. ASSUME NEW o \in created
      PROVE  /\ \A c : \A p \in Range(UpdateOf(o)) : ShowsChain(p, c) => OfChain(o, c) /\ p.shows = << o, FALSE >>
             /\ \A c : OfChain(o, c) => \E p \in Range(UpdateOf(o)) : ShowsChain(p, c)
  <2> DEFINE more == IF o.index = 0 THEN << TransactionMetadata(o.tx) >> ELSE <<>>
  <2>1. PublishOutput(o, FALSE) \in Seq(T)
    BY PublishOutputProper DEF T
  <2>2. more \in Seq(T) /\ Range(more) \subseteq {TransactionMetadata(o.tx)}
    <3>1. o.tx \in DOMAIN TransactionIDs
      BY IDsAssumption DEF Output
    <3>2. << TransactionMetadata(o.tx) >> \in Seq(T)
      BY <3>1, TransactionMetadataProper DEF T
    <3>3. <<>> \in Seq(T) /\ Range(<<>>) = {} /\ Range(<< TransactionMetadata(o.tx) >>) = {TransactionMetadata(o.tx)}
      BY SingleRange
    <3> QED BY <3>2, <3>3
  <2>3. UpdateOf(o) = PublishOutput(o, FALSE) \o more
    BY DEF UpdateOf
  <2> HIDE DEF more
  <2>4. Range(UpdateOf(o)) = Range(PublishOutput(o, FALSE)) \cup Range(more)
    BY <2>1, <2>2, <2>3, ConcatRange
  <2>5. \A c : \A p \in Range(more) : ~ShowsChain(p, c)
    BY <2>2, ShowNoChain
  <2>6. o \in Output
    OBVIOUS
  <2> QED BY <2>4, <2>5, <2>6, ShownByOutput
<1>5. ShowsFrom(spent, updates, consumed, created)
  BY <1>2, <1>3, <1>4 DEF ShowsFrom
<1>6. ASSUME NEW n \in DOMAIN TransactionIDs
      PROVE  ShowsFrom(spent, fresh \o << TransactionMetadata(n) >>, consumed, created)
  <2> DEFINE last == << TransactionMetadata(n) >>
  <2>1. last \in Seq(T) /\ Range(last) = {TransactionMetadata(n)}
    BY TransactionMetadataProper, SingleRange DEF T
  <2> HIDE DEF last
  <2>2. Range(fresh \o last) = Range(fresh) \cup Range(last)
    BY <1>1, <2>1, ConcatRange
  <2>3. \A c : \A p \in Range(last) : ~ShowsChain(p, c)
    BY <2>1, ShowNoChain
  <2>4. /\ \A c : \A p \in Range(fresh) :
             ShowsChain(p, c) => \E o \in created : OfChain(o, c) /\ p.shows = << o, FALSE >>
        /\ \A c : \A o \in created : OfChain(o, c) => \E p \in Range(fresh) : ShowsChain(p, c)
    <3>1. ASSUME NEW c, NEW p \in Range(fresh), ShowsChain(p, c)
          PROVE  \E o \in created : OfChain(o, c) /\ p.shows = << o, FALSE >>
      <4>1. PICK o \in created : p \in Range(PublishOutput(o, FALSE))
        BY <1>2, <3>1
      <4>2. OfChain(o, c) /\ p.shows = << o, FALSE >>
        BY <3>1, <4>1, ShownByOutput
      <4> QED BY <4>2
    <3>2. ASSUME NEW c, NEW o \in created, OfChain(o, c)
          PROVE  \E p \in Range(fresh) : ShowsChain(p, c)
      <4>1. PICK p \in Range(PublishOutput(o, FALSE)) : ShowsChain(p, c)
        BY <3>2, ShownByOutput
      <4> QED BY <1>2, <4>1
    <3> QED BY <3>1, <3>2
  <2>5. ShowsFrom(spent, fresh \o last, consumed, created)
    BY <1>3, <2>2, <2>3, <2>4 DEF ShowsFrom
  <2> QED BY <2>5 DEF last
<1> QED BY <1>5, <1>6 DEF spent, fresh, updates

LEMMA MaxIsLast ==
  ASSUME NEW n \in Nat, NEW S \in SUBSET (1 .. n), S # {}
  PROVE  Max(S) \in S /\ \A x \in S : Max(S) >= x
<1> DEFINE Bounds == { u \in Nat : \A x \in S : u >= x }
<1>1. n \in Bounds /\ Bounds \subseteq Nat
  OBVIOUS
<1>2. PICK u \in Bounds : \A v \in Bounds : ~(<<v, u>> \in OpToRel(<, Nat))
  <2>1. Bounds # {} /\ Bounds \subseteq Nat
    BY <1>1
  <2> HIDE DEF Bounds
  <2> QED BY <2>1, NatLessThanWellFounded, WFMin
<1>3. u \in Nat /\ \A x \in S : u >= x
  OBVIOUS
<1>4. u \in S
  <2> SUFFICES ASSUME u \notin S PROVE FALSE
    OBVIOUS
  <2>1. u - 1 \in Nat /\ \A x \in S : u - 1 >= x
    <3>1. \A x \in S : x \in Nat /\ x >= 1 /\ u >= x /\ u # x
      BY <1>3
    <3>2. PICK y \in S : y \in Nat /\ y >= 1 /\ u >= y
      BY <3>1
    <3>3. ASSUME NEW x \in S PROVE u - 1 >= x
      <4>1. x \in Nat /\ u >= x /\ u # x
        BY <3>1
      <4> QED BY <1>3, <4>1
    <3> QED BY <1>3, <3>2, <3>3
  <2>2. u - 1 \in Bounds
    BY <2>1
  <2>3. <<u - 1, u>> \in OpToRel(<, Nat)
    BY <1>3, <2>1 DEF OpToRel
  <2> QED BY <1>2, <2>2, <2>3
<1> QED BY <1>3, <1>4 DEF Max

Shown(s, c) == { i \in DOMAIN s : ShowsChain(s[i], c) }

LEMMA LastShown ==
  ASSUME NEW T, NEW a \in Seq(T), NEW b \in Seq(T), NEW consumed, NEW created,
         ShowsFrom(a, b, consumed, created), NEW c
  PROVE  /\ (\A o \in consumed \cup created : ~OfChain(o, c)) => Shown(a \o b, c) = {}
         /\ \A o \in created :
              OfChain(o, c) /\ (\A q \in created : OfChain(q, c) => q = o)
                => /\ Shown(a \o b, c) # {}
                   /\ (a \o b)[Max(Shown(a \o b, c))].shows = << o, FALSE >>
<1> DEFINE s     == a \o b
           shown == { i \in DOMAIN s : ShowsChain(s[i], c) }
<1>0. shown = Shown(a \o b, c)
  BY DEF Shown
<1>1. /\ s \in Seq(T) /\ Len(s) = Len(a) + Len(b) /\ DOMAIN s = 1 .. Len(s)
      /\ \A i \in 1 .. Len(s) : s[i] = IF i <= Len(a) THEN a[i] ELSE b[i - Len(a)]
      /\ Len(a) \in Nat /\ Len(b) \in Nat /\ DOMAIN a = 1 .. Len(a) /\ DOMAIN b = 1 .. Len(b)
  BY ConcatProperties
<1> HIDE DEF s
<1>2. \A i \in 1 .. Len(s) : \/ i \in DOMAIN a /\ s[i] = a[i]
                             \/ i > Len(a) /\ i - Len(a) \in DOMAIN b /\ s[i] = b[i - Len(a)]
  BY <1>1
<1>3. (\A o \in consumed \cup created : ~OfChain(o, c)) => shown = {}
  <2>1. \A i \in DOMAIN a : a[i] \in Range(a)
    BY DEF Range
  <2>2. \A i \in DOMAIN b : b[i] \in Range(b)
    BY DEF Range
  <2> QED BY <1>1, <1>2, <2>1, <2>2 DEF ShowsFrom
<1>4. ASSUME NEW o \in created, OfChain(o, c), \A q \in created : OfChain(q, c) => q = o
      PROVE  shown # {} /\ s[Max(shown)].shows = << o, FALSE >>
  <2>1. PICK j \in DOMAIN b : ShowsChain(b[j], c)
    BY <1>4 DEF ShowsFrom, Range
  <2>2. Len(a) + j \in shown
    <3>1. Len(a) + j \in 1 .. Len(s) /\ ~(Len(a) + j <= Len(a)) /\ (Len(a) + j) - Len(a) = j
      BY <1>1
    <3>2. s[Len(a) + j] = b[(Len(a) + j) - Len(a)]
      BY <1>1, <3>1
    <3>3. s[Len(a) + j] = b[j]
      BY <3>1, <3>2
    <3> QED BY <1>1, <2>1, <3>1, <3>3
  <2>3. shown \in SUBSET (1 .. Len(s)) /\ Len(s) \in Nat
    BY <1>1
  <2> DEFINE m == Max(shown)
  <2>4. m \in shown /\ m >= Len(a) + j
    <3> HIDE DEF shown
    <3> QED BY <2>2, <2>3, MaxIsLast
  <2>5. m \in 1 .. Len(s) /\ ShowsChain(s[m], c)
    BY <1>1, <2>4
  <2> HIDE DEF m, shown
  <2>6. m - Len(a) \in DOMAIN b /\ s[m] = b[m - Len(a)]
    <3>1. m > Len(a) /\ j >= 1
      BY <1>1, <2>4, <2>5
    <3> QED BY <1>1, <2>5, <3>1
  <2>7. s[m] \in Range(b)
    BY <2>6 DEF Range
  <2>8. PICK q \in created : OfChain(q, c) /\ s[m].shows = << q, FALSE >>
    BY <2>5, <2>7 DEF ShowsFrom
  <2> QED BY <1>4, <2>2, <2>8 DEF m
<1> HIDE DEF shown
<1> QED BY <1>0, <1>3, <1>4 DEF s

\* The outputs of a ledger state: each is shown on the topic of the chain that
\* it continues, and no two continue the same.
Identified(S) ==
  /\ \A o \in S : o.new.kind \in ChainKinds => ChainID(o) = o.origin
  /\ \A o, p \in S : o.origin = p.origin => o = p

\* A ledger state becomes R: some outputs are consumed and some created.
LedgerChange(S, consumed, created, R) ==
  /\ S \subseteq Output /\ Identified(S) /\ consumed \subseteq S /\ created \subseteq Output
  /\ R = (S \ consumed) \cup created /\ Identified(R)

Current(shown, S) == \A o \in S : o.new.kind \in ChainKinds => shown[o.origin] = << o, FALSE >>

\* If a stream's subscribers are up to date before a change of the ledger is
\* published, then they are afterwards.
LEMMA StaysCurrent ==
  ASSUME NEW k \in LedgerStreams, DOMAIN latest = LedgerStreams,
         NEW S, NEW consumed, NEW created, NEW R, LedgerChange(S, consumed, created, R),
         NEW T, NEW a \in Seq(T), NEW b \in Seq(T), ShowsFrom(a, b, consumed, created),
         Deliver(k, a \o b), Current(latest[k], S)
  PROVE  Current(latest'[k], R)
<1>0. /\ S \subseteq Output /\ Identified(S) /\ consumed \subseteq S /\ created \subseteq Output
      /\ R = (S \ consumed) \cup created /\ Identified(R)
  BY DEF LedgerChange
<1> SUFFICES ASSUME NEW o \in R, o.new.kind \in ChainKinds
             PROVE  latest'[k][o.origin] = << o, FALSE >>
  BY DEF Current
<1> DEFINE c == o.origin
           s == a \o b
           shown == Shown(s, c)
<1>1. o \in Output /\ c \in OutputNames
  BY <1>0 DEF Output
<1>2. latest'[k][c] = IF shown = {} THEN latest[k][c] ELSE s[Max(shown)].shows
  BY <1>1 DEF Deliver, Shown
<1>3. /\ (\A q \in consumed \cup created : ~OfChain(q, c)) => shown = {}
      /\ \A p \in created : OfChain(p, c) /\ (\A q \in created : OfChain(q, c) => q = p)
           => shown # {} /\ s[Max(shown)].shows = << p, FALSE >>
  <2>1. PICK x : x = c
    OBVIOUS
  <2>2. a \in Seq(T) /\ b \in Seq(T) /\ ShowsFrom(a, b, consumed, created)
    OBVIOUS
  <2>3. (\A q \in consumed \cup created : ~OfChain(q, x)) => Shown(a \o b, x) = {}
    BY <2>2, LastShown, Zenon
  <2>4. \A p \in created :
          OfChain(p, x) /\ (\A q \in created : OfChain(q, x) => q = p)
            => /\ Shown(a \o b, x) # {}
               /\ (a \o b)[Max(Shown(a \o b, x))].shows = << p, FALSE >>
    BY <2>2, LastShown, Zenon
  <2> QED BY <2>1, <2>3, <2>4
<1> HIDE DEF shown, s
<1>4. \A q \in created : OfChain(q, c) => q = o
  BY <1>0 DEF Identified, OfChain
<1>5. CASE o \in created
  <2>1. OfChain(o, c)
    BY <1>0 DEF OfChain, Identified
  <2> QED BY <1>2, <1>3, <1>4, <1>5, <2>1
<1>6. CASE o \notin created
  <2>1. o \in S /\ o \notin consumed
    BY <1>0, <1>6
  <2>2. \A q \in consumed : ~OfChain(q, c)
    BY <1>0, <2>1 DEF OfChain, Identified
  <2>3. \A q \in created : ~OfChain(q, c)
    BY <1>4, <1>6
  <2>4. shown = {}
    BY <1>3, <2>2, <2>3
  <2> QED BY <1>2, <2>1, <2>4 DEF Current
<1> QED BY <1>5, <1>6

-----------------------------------------------------------------------------
(* Whoever follows a chain: the second inductive invariant adds that every *)
(* unspent output is shown on the topic of its chain and continues it      *)
(* alone, and that its chain began with an output of a known transaction.  *)

ChainInv ==
  /\ TopicsInv
  /\ DOMAIN latest = LedgerStreams
  /\ Identified(unspent) /\ Identified(committed)
  /\ \A o \in unspent : \E m \in 1 .. accepted : o.origin \in Range(OutputIDs[m])
  /\ ChainSubscriberIsCurrent

LEMMA NewIdentities ==
  ASSUME NEW n \in DOMAIN TransactionIDs, NEW i \in {0, 1}
  PROVE  /\ OutputIDs[n][i + 1] \in Range(OutputIDs[n]) /\ OutputIDs[n][i + 1] \in OutputNames
         /\ \A new : /\ Created(n, i, new).origin = OutputIDs[n][i + 1]
                     /\ ChainID(Created(n, i, new)) = OutputIDs[n][i + 1]
         /\ \A o \in Output : /\ Continued(n, i, o).origin = o.origin
                              /\ ChainID(Continued(n, i, o)) = o.origin
<1>1. n \in DOMAIN OutputIDs /\ i + 1 \in DOMAIN OutputIDs[n]
  BY IDsAssumption
<1>2. OutputIDs[n][i + 1] \in Range(OutputIDs[n]) /\ OutputIDs[n][i + 1] \in OutputNames
  BY <1>1 DEF OutputNames, Range
<1>3. \A id \in OutputNames : id # None
  BY NamesAreLevels, NoneAssumption
<1>4. ASSUME NEW new
      PROVE  /\ Created(n, i, new).origin = OutputIDs[n][i + 1]
             /\ ChainID(Created(n, i, new)) = OutputIDs[n][i + 1]
  BY <1>2, <1>3 DEF Created, ChainID, OutputID
<1>5. ASSUME NEW o \in Output
      PROVE  /\ Continued(n, i, o).origin = o.origin
             /\ ChainID(Continued(n, i, o)) = o.origin
  BY <1>3 DEF Continued, ChainID, Output
<1> QED BY <1>2, <1>4, <1>5

\* A transaction continues the chain it spends at most once, and begins others.
LEMMA CreatedAreIdentified ==
  ASSUME NEW n \in DOMAIN TransactionIDs, NEW o \in Output, NEW new,
         NEW created \in CreatedSets(n, o, new), o.origin \notin Range(OutputIDs[n])
  PROVE  /\ \A p \in created : /\ ChainID(p) = p.origin
                               /\ p.origin = o.origin \/ p.origin \in Range(OutputIDs[n])
         /\ \A p, q \in created : p.origin = q.origin => p = q
<1>1. /\ OutputIDs[n][1] \in Range(OutputIDs[n]) /\ OutputIDs[n][2] \in Range(OutputIDs[n])
      /\ OutputIDs[n][1] # OutputIDs[n][2]
  <2>1. n \in DOMAIN OutputIDs /\ DOMAIN OutputIDs[n] = {1, 2}
    BY IDsAssumption
  <2> QED BY <2>1, DistinctIDsAssumption DEF Range
<1>2. \A x : /\ Created(n, 0, x).origin = OutputIDs[n][1] /\ ChainID(Created(n, 0, x)) = OutputIDs[n][1]
             /\ Created(n, 1, x).origin = OutputIDs[n][2] /\ ChainID(Created(n, 1, x)) = OutputIDs[n][2]
  BY NewIdentities
<1>3. /\ Continued(n, 0, o).origin = o.origin /\ ChainID(Continued(n, 0, o)) = o.origin
      /\ Continued(n, 1, o).origin = o.origin /\ ChainID(Continued(n, 1, o)) = o.origin
  BY NewIdentities
<1> QED BY <1>1, <1>2, <1>3 DEF CreatedSets

LEMMA ChainInit == Init => ChainInv
<1> SUFFICES ASSUME Init PROVE ChainInv
  OBVIOUS
<1>1. TopicsInv
  BY TopicsInit
<1>2. unspent = {Genesis} /\ committed = {Genesis} /\ accepted = 1 /\ DOMAIN latest = LedgerStreams
  BY DEF Init
<1>3. Genesis.new.kind = "basic" /\ Genesis.origin = OutputIDs[1][1]
  BY NewOutputsAssumption DEF Genesis
<1>4. Genesis.origin \in Range(OutputIDs[1])
  BY <1>3, IDsAssumption DEF Range
<1>5. "basic" \notin ChainKinds
  BY DEF ChainKinds
<1>6. Identified(unspent) /\ Identified(committed) /\ ChainSubscriberIsCurrent
  BY <1>2, <1>3, <1>5 DEF Identified, ChainSubscriberIsCurrent
<1>7. 1 \in 1 .. accepted
  BY <1>2
<1> QED BY <1>1, <1>2, <1>4, <1>6, <1>7 DEF ChainInv

LEMMA ChainAccept == ChainInv /\ AcceptTransaction => ChainInv'
<1> SUFFICES ASSUME ChainInv, AcceptTransaction PROVE ChainInv'
  OBVIOUS
<1> DEFINE A == GrpcListenToAcceptedTransactions
           L == GrpcListenToLedgerUpdates
           T == Published(A)
<1>1. TopicsInv /\ TopicsInv'
  BY TopicsAccept DEF ChainInv
<1>2. PICK n : n = accepted + 1
  OBVIOUS
<1>3. /\ n \in 1 .. Len(TransactionIDs) /\ n \in DOMAIN TransactionIDs
      /\ accepted' = n /\ committed' = committed
  BY <1>1, <1>2, AcceptParts
<1>4. PICK o \in unspent, new \in NewOutputs : \E created \in CreatedSets(n, o, new) :
        /\ created \subseteq Output /\ IsFiniteSet(created)
        /\ unspent' = (unspent \ {o}) \cup created
        /\ Deliver(A, OnAcceptedTransaction(n, {o}, created))
  BY <1>1, <1>2, AcceptParts
<1>5. PICK created \in CreatedSets(n, o, new) :
        /\ created \subseteq Output /\ IsFiniteSet(created)
        /\ unspent' = (unspent \ {o}) \cup created
        /\ Deliver(A, OnAcceptedTransaction(n, {o}, created))
  BY <1>4
<1>6. o \in Output /\ unspent \subseteq Output /\ accepted \in Nat
  BY <1>1 DEF TopicsInv
<1>7. \A p \in unspent : p.origin \notin Range(OutputIDs[n])
  <2> SUFFICES ASSUME NEW p \in unspent, p.origin \in Range(OutputIDs[n]) PROVE FALSE
    OBVIOUS
  <2>1. PICK m \in 1 .. accepted : p.origin \in Range(OutputIDs[m])
    BY DEF ChainInv
  <2>2. m # n /\ m \in DOMAIN OutputIDs /\ n \in DOMAIN OutputIDs
    BY <1>2, <1>3, <1>6, IDsAssumption
  <2>3. DOMAIN OutputIDs[m] = {1, 2} /\ DOMAIN OutputIDs[n] = {1, 2}
    BY <2>2, IDsAssumption
  <2> QED BY <2>1, <2>2, <2>3, DistinctIDsAssumption DEF Range
<1>8. /\ \A p \in created : /\ ChainID(p) = p.origin
                            /\ p.origin = o.origin \/ p.origin \in Range(OutputIDs[n])
      /\ \A p, q \in created : p.origin = q.origin => p = q
  BY <1>3, <1>5, <1>6, <1>7, CreatedAreIdentified
<1>9. Identified(unspent)'
  <2>1. \A p \in created, q \in unspent \ {o} : p.origin # q.origin
    BY <1>7, <1>8 DEF ChainInv, Identified
  <2>2. Identified(unspent')
    BY <1>5, <1>8, <2>1 DEF ChainInv, Identified
  <2> QED BY <2>2 DEF Identified, ChainID, OutputID
<1>10. \A p \in unspent' : \E m \in 1 .. n : p.origin \in Range(OutputIDs[m])
  <2>1. \A p \in unspent : \E m \in 1 .. n : p.origin \in Range(OutputIDs[m])
    BY <1>2, <1>6 DEF ChainInv
  <2>2. n \in 1 .. n
    BY <1>3
  <2> QED BY <1>5, <1>8, <2>1, <2>2
<1>11. A \in LedgerStreams /\ L \in LedgerStreams /\ A # L
  BY DEF LedgerStreams, GrpcListenToAcceptedTransactions, GrpcListenToLedgerUpdates
<1>12. DOMAIN latest' = LedgerStreams /\ latest'[L] = latest[L]
  BY <1>5, <1>11 DEF ChainInv, Deliver
<1>13. Current(latest'[A], unspent')
  <2> DEFINE a == Each(SpentOutputs({o}))
             b == Each(FreshOutputs(created)) \o << TransactionMetadata(n) >>
  <2>1. {o} \subseteq Output /\ IsFiniteSet({o})
    BY <1>6, FS_Singleton
  <2>2. a \in Seq(T) /\ Each(FreshOutputs(created)) \in Seq(T) /\ << TransactionMetadata(n) >> \in Seq(T)
    BY <1>3, <1>5, <1>11, <2>1, PartsProper, TransactionMetadataProper
  <2>3. b \in Seq(T)
    BY <2>2, ConcatProperties
  <2>4. OnAcceptedTransaction(n, {o}, created) = a \o b
    <3>1. OnAcceptedTransaction(n, {o}, created)
            = a \o Each(FreshOutputs(created)) \o << TransactionMetadata(n) >>
      BY <1>5, <2>1, CallbackParts
    <3>2. PICK x \in Seq(T), y \in Seq(T), z \in Seq(T) :
            x = a /\ y = Each(FreshOutputs(created)) /\ z = << TransactionMetadata(n) >>
      BY <2>2
    <3>3. (x \o y) \o z = x \o (y \o z)
      BY ConcatAssociative
    <3> HIDE DEF a
    <3> QED BY <3>1, <3>2, <3>3
  <2>5. ShowsFrom(a, b, {o}, created)
    BY <1>3, <1>5, <1>11, <2>1, CallbacksShow
  <2>6. LedgerChange(unspent, {o}, created, unspent')
    BY <1>5, <1>6, <1>9 DEF ChainInv, LedgerChange, Identified, ChainID, OutputID
  <2>7. Current(latest[A], unspent)
    BY DEF ChainInv, ChainSubscriberIsCurrent, Current
  <2>8. DOMAIN latest = LedgerStreams /\ Deliver(A, a \o b)
    BY <1>5, <2>4 DEF ChainInv
  <2> HIDE DEF a, b, T, A
  <2> QED BY <1>11, <2>2, <2>3, <2>5, <2>6, <2>7, <2>8, StaysCurrent
<1>14. ChainSubscriberIsCurrent'
  BY <1>3, <1>12, <1>13 DEF ChainInv, ChainSubscriberIsCurrent, Current
<1>15. Identified(committed)'
  BY <1>3 DEF ChainInv, Identified, ChainID, OutputID
<1> QED BY <1>1, <1>3, <1>9, <1>10, <1>12, <1>14, <1>15 DEF ChainInv

LEMMA ChainCommit == ChainInv /\ CommitSlot => ChainInv'
<1> SUFFICES ASSUME ChainInv, CommitSlot PROVE ChainInv'
  OBVIOUS
<1> DEFINE A == GrpcListenToAcceptedTransactions
           L == GrpcListenToLedgerUpdates
           T == Published(L)
           spent == committed \ unspent
           fresh == unspent \ committed
           a == Each(SpentOutputs(spent))
           b == Each(FreshUpdates(fresh))
<1>1. TopicsInv /\ TopicsInv'
  BY TopicsCommit DEF ChainInv
<1>2. A \in LedgerStreams /\ L \in LedgerStreams /\ A # L
  BY DEF LedgerStreams, GrpcListenToAcceptedTransactions, GrpcListenToLedgerUpdates
<1>3. spent \subseteq Output /\ IsFiniteSet(spent) /\ fresh \subseteq Output /\ IsFiniteSet(fresh)
  <2>1. spent \in SUBSET committed /\ fresh \in SUBSET unspent
    OBVIOUS
  <2> HIDE DEF spent, fresh
  <2> QED BY <1>1, <2>1, FS_Subset DEF TopicsInv
<1>4. committed' = unspent /\ unspent' = unspent /\ accepted' = accepted
  BY DEF CommitSlot
<1>5. Deliver(L, OnLedgerUpdate(spent, fresh))
  BY DEF CommitSlot
<1>6. LedgerChange(committed, spent, fresh, unspent)
  BY <1>1 DEF ChainInv, TopicsInv, LedgerChange
<1> HIDE DEF spent, fresh
<1>7. OnLedgerUpdate(spent, fresh) = a \o b
  BY <1>3, CallbackParts
<1>8. a \in Seq(T) /\ b \in Seq(T)
  BY <1>2, <1>3, PartsProper
<1>9. ShowsFrom(a, b, spent, fresh)
  BY <1>2, <1>3, CallbacksShow
<1>10. DOMAIN latest = LedgerStreams /\ Current(latest[L], committed) /\ Current(latest[A], unspent)
  BY DEF ChainInv, ChainSubscriberIsCurrent, Current
<1>11. DOMAIN latest' = LedgerStreams /\ latest'[A] = latest[A]
  BY <1>2, <1>5, <1>10 DEF Deliver
<1>12. Deliver(L, a \o b)
  BY <1>5, <1>7
<1>13. Current(latest'[L], unspent)
  <2> HIDE DEF a, b, T, L
  <2> QED BY <1>2, <1>6, <1>8, <1>9, <1>10, <1>12, StaysCurrent
<1>14. ChainSubscriberIsCurrent'
  BY <1>4, <1>10, <1>11, <1>13 DEF ChainSubscriberIsCurrent, Current
<1>15. Identified(committed)' /\ Identified(unspent)'
  BY <1>4 DEF ChainInv, Identified, ChainID, OutputID
<1> QED BY <1>1, <1>4, <1>11, <1>14, <1>15 DEF ChainInv

LEMMA ChainNext == ChainInv /\ [Next]_vars => ChainInv'
<1> SUFFICES ASSUME ChainInv, [Next]_vars PROVE ChainInv'
  OBVIOUS
<1>1. CASE AcceptTransaction
  BY <1>1, ChainAccept
<1>2. CASE CommitSlot
  BY <1>2, ChainCommit
<1>3. CASE NewBlock \/ AcceptBlock \/ ConfirmBlock \/ UNCHANGED vars
  <2>1. UNCHANGED <<unspent, committed, accepted, latest, announced>>
    BY <1>3 DEF NewBlock, AcceptBlock, ConfirmBlock, DeliverBlock, vars
  <2>2. TopicsInv'
    BY TopicsNext DEF ChainInv
  <2>3. Identified(committed)' /\ Identified(unspent)'
    BY <2>1 DEF ChainInv, Identified, ChainID, OutputID
  <2> QED BY <2>1, <2>2, <2>3 DEF ChainInv, ChainSubscriberIsCurrent
<1> QED BY <1>1, <1>2, <1>3 DEF Next

\* The last message on the topic of a chain shows its unspent output, on the
\* stream of accepted transactions as on that of commitments, whichever
\* transactions there are and in whatever order a callback goes through its
\* outputs (GetChainTopicsForOutput, the loops of the two listeners).
THEOREM FollowersSeeTheChain == Spec => []ChainSubscriberIsCurrent
<1>1. Init => ChainInv
  BY ChainInit
<1>2. ChainInv /\ [Next]_vars => ChainInv'
  BY ChainNext
<1>3. ChainInv => ChainSubscriberIsCurrent
  BY DEF ChainInv
<1> QED BY <1>1, <1>2, <1>3, PTL DEF Spec

-----------------------------------------------------------------------------
(* How often a callback publishes on a topic.                              *)

Never(s, t) == \A i \in DOMAIN s : t \notin Range(s[i].topics)
Once(s, t)  == \E i \in DOMAIN s : \A j \in DOMAIN s : t \in Range(s[j].topics) <=> j = i

LEMMA NeverInRange ==
  ASSUME NEW s, NEW t
  PROVE  Never(s, t) <=> \A p \in Range(s) : t \notin Range(p.topics)
  BY DEF Never, Range

LEMMA JoinOnce ==
  ASSUME NEW T, NEW a \in Seq(T), NEW b \in Seq(T), NEW t
  PROVE  /\ Never(a, t) /\ Never(b, t) => Never(a \o b, t)
         /\ Never(a, t) /\ Once(b, t) => Once(a \o b, t)
         /\ Once(a, t) /\ Never(b, t) => Once(a \o b, t)
<1> DEFINE s == a \o b
<1>1. /\ DOMAIN s = 1 .. Len(a) + Len(b) /\ Len(a) \in Nat /\ Len(b) \in Nat
      /\ DOMAIN a = 1 .. Len(a) /\ DOMAIN b = 1 .. Len(b)
      /\ \A i \in DOMAIN s : s[i] = IF i <= Len(a) THEN a[i] ELSE b[i - Len(a)]
  BY ConcatProperties
<1> HIDE DEF s
<1>2. \A i \in DOMAIN s : \/ i \in DOMAIN a /\ s[i] = a[i]
                          \/ i > Len(a) /\ i - Len(a) \in DOMAIN b /\ s[i] = b[i - Len(a)]
  BY <1>1
<1>3. Never(a, t) /\ Never(b, t) => Never(s, t)
  BY <1>2 DEF Never
<1>4. ASSUME Never(a, t), Once(b, t) PROVE Once(s, t)
  <2>1. PICK i \in DOMAIN b : \A j \in DOMAIN b : t \in Range(b[j].topics) <=> j = i
    BY <1>4 DEF Once
  <2>2. PICK m \in Nat : m = Len(a) + i
    BY <1>1
  <2>3. m \in DOMAIN s
    BY <1>1, <2>2
  <2>4. ASSUME NEW j \in DOMAIN s PROVE t \in Range(s[j].topics) <=> j = m
    <3>1. CASE j \in DOMAIN a /\ s[j] = a[j]
      BY <1>1, <1>4, <2>2, <3>1 DEF Never
    <3>2. CASE j > Len(a) /\ j - Len(a) \in DOMAIN b /\ s[j] = b[j - Len(a)]
      <4>1. t \in Range(s[j].topics) <=> j - Len(a) = i
        BY <2>1, <3>2
      <4>2. j - Len(a) = i <=> j = m
        BY <1>1, <2>2
      <4> QED BY <4>1, <4>2
    <3> QED BY <1>2, <3>1, <3>2
  <2> QED BY <2>3, <2>4 DEF Once
<1>5. ASSUME Once(a, t), Never(b, t) PROVE Once(s, t)
  <2>1. PICK i \in DOMAIN a : \A j \in DOMAIN a : t \in Range(a[j].topics) <=> j = i
    BY <1>5 DEF Once
  <2>2. i \in DOMAIN s /\ i <= Len(a)
    BY <1>1
  <2>3. ASSUME NEW j \in DOMAIN s PROVE t \in Range(s[j].topics) <=> j = i
    <3>1. CASE j \in DOMAIN a /\ s[j] = a[j]
      BY <2>1, <3>1
    <3>2. CASE j > Len(a) /\ j - Len(a) \in DOMAIN b /\ s[j] = b[j - Len(a)]
      <4>1. t \notin Range(s[j].topics)
        BY <1>5, <3>2 DEF Never
      <4>2. j # i
        BY <1>1, <2>2, <3>2
      <4> QED BY <4>1, <4>2
    <3> QED BY <1>2, <3>1, <3>2
  <2> QED BY <2>2, <2>3 DEF Once
<1> QED BY <1>3, <1>4, <1>5 DEF s

LEMMA FlattenOnce ==
  ASSUME NEW T, NEW seqs \in Seq(Seq(T)), NEW t, NEW i \in DOMAIN seqs, Once(seqs[i], t),
         \A j \in DOMAIN seqs : j # i => Never(seqs[j], t)
  PROVE  Once(FlattenSeq(seqs), t)
<1>1. PICK n \in Nat : n = Len(seqs) /\ DOMAIN seqs = 1 .. n
  OBVIOUS
<1>2. i \in 1 .. n /\ n # 0 /\ n \in 1 .. n
  BY <1>1
<1>3. PICK F : /\ FlattenSeq(seqs) = F[n]
               /\ \A m \in 1 .. n : F[m] = IF m = 1 THEN seqs[m] ELSE F[m - 1] \o seqs[m]
  BY <1>1, <1>2, FlattenPrefixes
<1> DEFINE Good(k) == F[k] \in Seq(T) /\ IF k < i THEN Never(F[k], t) ELSE Once(F[k], t)
           Bad == { k \in 1 .. n : ~Good(k) }
<1>4. Bad = {}
  <2> SUFFICES ASSUME Bad # {} PROVE FALSE
    OBVIOUS
  <2>1. PICK m \in Bad : \A k \in Bad : ~(<<k, m>> \in OpToRel(<, Nat))
    <3>1. Bad \subseteq Nat
      OBVIOUS
    <3> HIDE DEF Bad
    <3> QED BY <3>1, NatLessThanWellFounded, WFMin
  <2>2. m \in 1 .. n /\ ~Good(m) /\ seqs[m] \in Seq(T)
    BY <1>1
  <2>3. F[m] = IF m = 1 THEN seqs[m] ELSE F[m - 1] \o seqs[m]
    BY <1>3, <2>2
  <2>4. IF m = i THEN Once(seqs[m], t) ELSE Never(seqs[m], t)
    BY <1>1, <2>2
  <2>5. CASE m = 1
    <3>1. m < i \/ m = i
      BY <1>2, <2>5
    <3> QED BY <1>2, <2>2, <2>3, <2>4, <2>5, <3>1
  <2>6. CASE m # 1
    <3>1. m - 1 \in 1 .. n /\ m - 1 < m /\ m \in Nat /\ m - 1 \in Nat
      BY <1>1, <2>2, <2>6
    <3>2. Good(m - 1)
      <4>1. <<m - 1, m>> \in OpToRel(<, Nat)
        BY <3>1 DEF OpToRel
      <4> QED BY <2>1, <3>1, <4>1
    <3>3. PICK a \in Seq(T), b \in Seq(T) : a = F[m - 1] /\ b = seqs[m]
      BY <2>2, <3>2
    <3>4. F[m] = a \o b
      BY <2>3, <2>6, <3>3
    <3>5. F[m] \in Seq(T)
      BY <3>4, ConcatProperties
    <3>6. CASE m < i
      <4>1. Never(a, t) /\ Never(b, t)
        BY <1>2, <2>4, <3>1, <3>2, <3>3, <3>6
      <4>2. Never(a \o b, t)
        BY <4>1, JoinOnce
      <4> QED BY <2>2, <3>4, <3>5, <3>6, <4>2
    <3>7. CASE m = i
      <4>1. Never(a, t) /\ Once(b, t)
        BY <1>2, <2>4, <3>1, <3>2, <3>3, <3>7
      <4>2. Once(a \o b, t)
        BY <4>1, JoinOnce
      <4> QED BY <2>2, <3>4, <3>5, <3>7, <4>2
    <3>8. CASE m > i
      <4>1. Once(a, t) /\ Never(b, t)
        BY <1>2, <2>4, <3>1, <3>2, <3>3, <3>8
      <4>2. Once(a \o b, t)
        BY <4>1, JoinOnce
      <4> QED BY <1>2, <2>2, <3>1, <3>4, <3>5, <3>8, <4>2
    <3> QED BY <1>2, <3>1, <3>6, <3>7, <3>8
  <2> QED BY <2>5, <2>6
<1>5. Good(n)
  BY <1>2, <1>4
<1> QED BY <1>2, <1>3, <1>5

LEMMA EachOnce ==
  ASSUME NEW T, NEW S, IsFiniteSet(S), NEW F \in [S -> Seq(T)], NEW t
  PROVE  /\ (\A x \in S : Never(F[x], t)) => Never(Each(F), t)
         /\ \A x \in S : Once(F[x], t) /\ (\A y \in S : y # x => Never(F[y], t)) => Once(Each(F), t)
<1>1. ASSUME \A x \in S : Never(F[x], t) PROVE Never(Each(F), t)
  <2>1. \A p : p \in Range(Each(F)) <=> \E x \in S : p \in Range(F[x])
    BY EachProperties
  <2> QED BY <1>1, <2>1, NeverInRange
<1>2. ASSUME NEW x \in S, Once(F[x], t), \A y \in S : y # x => Never(F[y], t)
      PROVE  Once(Each(F), t)
  <2> DEFINE order == SetToSeq(S)
             parts == [i \in DOMAIN order |-> F[order[i]]]
  <2>1. order \in Seq(S) /\ IsInjective(order) /\ Range(order) = S
    BY SetToSeqProperties
  <2>2. Each(F) = FlattenSeq(parts)
    BY DEF Each
  <2> HIDE DEF order
  <2>3. parts \in Seq(Seq(T)) /\ DOMAIN parts = DOMAIN order
    <3>1. DOMAIN order = 1 .. Len(order) /\ Len(order) \in Nat
      BY <2>1
    <3>2. \A i \in 1 .. Len(order) : F[order[i]] \in Seq(T)
      BY <2>1
    <3> QED BY <3>1, <3>2
  <2>4. PICK i \in DOMAIN order : order[i] = x
    BY <2>1 DEF Range
  <2>5. \A j \in DOMAIN order : order[j] \in S /\ (j # i => order[j] # x)
    BY <2>1, <2>4 DEF Range, IsInjective
  <2>6. \A j \in DOMAIN parts : parts[j] = F[order[j]]
    BY <2>3
  <2> HIDE DEF parts
  <2>7. Once(parts[i], t) /\ \A j \in DOMAIN parts : j # i => Never(parts[j], t)
    BY <1>2, <2>3, <2>4, <2>5, <2>6
  <2> QED BY <2>2, <2>3, <2>4, <2>7, FlattenOnce
<1> QED BY <1>1, <1>2

IncludedTopic(m) == GetTopicTransactionsIncludedBlockMetadata(TransactionIDs[m])
MetadataTopic(m) == GetTopicTransactionMetadata(TransactionIDs[m])
TopicsOf(m) == {IncludedTopic(m), MetadataTopic(m)}

LEMMA TopicsOfTransactions ==
  /\ \A m \in DOMAIN TransactionIDs : TopicsOf(m) \subseteq TransactionTopics
  /\ \A t \in TransactionTopics : \E m \in DOMAIN TransactionIDs : t \in TopicsOf(m)
  /\ \A m, n \in DOMAIN TransactionIDs :
       /\ IncludedTopic(m) = IncludedTopic(n) => m = n
       /\ MetadataTopic(m) = MetadataTopic(n) => m = n
       /\ IncludedTopic(m) # MetadataTopic(n)
  /\ \A m : IncludedTopic(m)[1] # "outputs" /\ MetadataTopic(m)[1] # "outputs"
<1>1. /\ \A m : IncludedTopic(m) = << "transactions", TransactionIDs[m], "included-block-metadata" >>
      /\ \A m : MetadataTopic(m) = << "transaction-metadata", TransactionIDs[m] >>
  BY DEF IncludedTopic, MetadataTopic, GetTopicTransactionsIncludedBlockMetadata,
         GetTopicTransactionMetadata
<1>2. \A m \in DOMAIN TransactionIDs : TopicsOf(m) \subseteq TransactionTopics
  BY DEF TopicsOf, TransactionTopics, IncludedTopic, MetadataTopic
<1>3. \A t \in TransactionTopics : \E m \in DOMAIN TransactionIDs : t \in TopicsOf(m)
  BY DEF TopicsOf, TransactionTopics, IncludedTopic, MetadataTopic
<1>4. ASSUME NEW m \in DOMAIN TransactionIDs, NEW n \in DOMAIN TransactionIDs
      PROVE  /\ IncludedTopic(m) = IncludedTopic(n) => m = n
             /\ MetadataTopic(m) = MetadataTopic(n) => m = n
             /\ IncludedTopic(m) # MetadataTopic(n)
  <2>1. /\ IncludedTopic(m)[1] = "transactions" /\ IncludedTopic(m)[2] = TransactionIDs[m]
        /\ IncludedTopic(n)[2] = TransactionIDs[n]
    BY <1>1
  <2>2. /\ MetadataTopic(m)[2] = TransactionIDs[m] /\ MetadataTopic(n)[2] = TransactionIDs[n]
        /\ MetadataTopic(n)[1] = "transaction-metadata"
    BY <1>1
  <2> QED BY <2>1, <2>2, DistinctIDsAssumption
<1>5. \A m : IncludedTopic(m)[1] # "outputs" /\ MetadataTopic(m)[1] # "outputs"
  BY <1>1
<1> QED BY <1>2, <1>3, <1>4, <1>5

\* A sequence of one publication.
LEMMA OnePublication ==
  ASSUME NEW p, NEW t
  PROVE  IF t \in Range(p.topics) THEN Once(<< p >>, t) ELSE Never(<< p >>, t)
<1>1. DOMAIN << p >> = {1} /\ << p >>[1] = p
  OBVIOUS
<1> QED BY <1>1 DEF Once, Never

LEMMA AnnouncedByMetadata ==
  ASSUME NEW n \in DOMAIN TransactionIDs, NEW m \in DOMAIN TransactionIDs
  PROVE  /\ Never(<< TransactionMetadata(n) >>, IncludedTopic(m))
         /\ m = n => Once(<< TransactionMetadata(n) >>, MetadataTopic(m))
         /\ m # n => Never(<< TransactionMetadata(n) >>, MetadataTopic(m))
<1>1. TransactionMetadata(n).topics = << MetadataTopic(n) >>
  BY DEF TransactionMetadata, Publication, MetadataTopic
<1>2. Range(TransactionMetadata(n).topics) = {MetadataTopic(n)}
  BY <1>1, SingleRange
<1> QED BY <1>2, OnePublication, TopicsOfTransactions

\* The first output of transaction m announces its inclusion.
First(o, m) == o.tx = m /\ o.index = 0

LEMMA AnnouncedByOutput ==
  ASSUME NEW o \in Output, NEW spent \in BOOLEAN, NEW m \in DOMAIN TransactionIDs
  PROVE  /\ Never(PublishOutput(o, spent), MetadataTopic(m))
         /\ ~spent /\ First(o, m) => Once(PublishOutput(o, spent), IncludedTopic(m))
         /\ spent \/ ~First(o, m) => Never(PublishOutput(o, spent), IncludedTopic(m))
<1> DEFINE announcement == IF ~spent /\ o.index = 0 THEN << Included(o.tx) >> ELSE <<>>
           T == {Included(o.tx), Outputs(o, spent)}
<1>1. /\ announcement \in Seq(T) /\ << Outputs(o, spent) >> \in Seq(T)
      /\ PublishOutput(o, spent) = announcement \o << Outputs(o, spent) >>
  BY PublishOutputParts
<1>2. Never(<< Outputs(o, spent) >>, IncludedTopic(m)) /\ Never(<< Outputs(o, spent) >>, MetadataTopic(m))
  <2>1. \A t \in Range(Outputs(o, spent).topics) : t[1] = "outputs"
    BY TopicsOfOutput
  <2>2. IncludedTopic(m)[1] # "outputs" /\ MetadataTopic(m)[1] # "outputs"
    BY TopicsOfTransactions
  <2>3. /\ IncludedTopic(m) \notin Range(Outputs(o, spent).topics)
        /\ MetadataTopic(m) \notin Range(Outputs(o, spent).topics)
    BY <2>1, <2>2
  <2> QED BY <2>3, OnePublication
<1>3. Range(Included(o.tx).topics) = {IncludedTopic(o.tx)}
  <2>1. Included(o.tx).topics = << IncludedTopic(o.tx) >>
    BY DEF Included, Publication, IncludedTopic
  <2> QED BY <2>1, SingleRange
<1>4. o.tx \in DOMAIN TransactionIDs
  BY IDsAssumption DEF Output
<1>5. Never(<<>>, IncludedTopic(m)) /\ Never(<<>>, MetadataTopic(m))
  <2>1. DOMAIN <<>> = {}
    OBVIOUS
  <2> QED BY <2>1 DEF Never
<1>6. Never(announcement, MetadataTopic(m))
  BY <1>3, <1>4, <1>5, OnePublication, TopicsOfTransactions
<1>7. ~spent /\ First(o, m) => Once(announcement, IncludedTopic(m))
  BY <1>3, OnePublication DEF First
<1>8. spent \/ ~First(o, m) => Never(announcement, IncludedTopic(m))
  BY <1>3, <1>4, <1>5, OnePublication, TopicsOfTransactions DEF First
<1> HIDE DEF announcement, T
<1>9. PICK last \in Seq(T) : last = << Outputs(o, spent) >>
  BY <1>1
<1> QED BY <1>1, <1>2, <1>6, <1>7, <1>8, <1>9, JoinOnce

LEMMA AnnouncedByUpdate ==
  ASSUME NEW o \in Output, NEW m \in DOMAIN TransactionIDs, NEW t \in TopicsOf(m)
  PROVE  IF First(o, m) THEN Once(UpdateOf(o), t) ELSE Never(UpdateOf(o), t)
<1> DEFINE more == IF o.index = 0 THEN << TransactionMetadata(o.tx) >> ELSE <<>>
           k    == GrpcListenToLedgerUpdates
           T    == Published(k)
<1>1. PublishOutput(o, FALSE) \in Seq(T) /\ k \in LedgerStreams
  BY PublishOutputProper DEF LedgerStreams
<1>2. o.tx \in DOMAIN TransactionIDs
  BY IDsAssumption DEF Output
<1>3. << TransactionMetadata(o.tx) >> \in Seq(T)
  BY <1>1, <1>2, TransactionMetadataProper
<1> HIDE DEF T
<1>4. more \in Seq(T)
  BY <1>3
<1>5. Never(<<>>, t)
  <2>1. DOMAIN <<>> = {}
    OBVIOUS
  <2> QED BY <2>1 DEF Never
<1>6. UpdateOf(o) = PublishOutput(o, FALSE) \o more
  BY DEF UpdateOf
<1>7. CASE t = IncludedTopic(m)
  <2>1. Never(more, t)
    BY <1>2, <1>5, <1>7, AnnouncedByMetadata
  <2>2. IF First(o, m) THEN Once(PublishOutput(o, FALSE), t) ELSE Never(PublishOutput(o, FALSE), t)
    BY <1>7, AnnouncedByOutput
  <2> HIDE DEF more
  <2> QED BY <1>1, <1>4, <1>6, <2>1, <2>2, JoinOnce
<1>8. CASE t = MetadataTopic(m)
  <2>1. IF First(o, m) THEN Once(more, t) ELSE Never(more, t)
    BY <1>2, <1>5, <1>8, AnnouncedByMetadata DEF First
  <2>2. Never(PublishOutput(o, FALSE), t)
    BY <1>8, AnnouncedByOutput
  <2> HIDE DEF more
  <2> QED BY <1>1, <1>4, <1>6, <2>1, <2>2, JoinOnce
<1> QED BY <1>7, <1>8 DEF TopicsOf

LEMMA AnnouncedByCommit ==
  ASSUME NEW consumed, consumed \subseteq Output, IsFiniteSet(consumed),
         NEW created, created \subseteq Output, IsFiniteSet(created),
         NEW m \in DOMAIN TransactionIDs, NEW t \in TopicsOf(m)
  PROVE  /\ (\A o \in created : ~First(o, m)) => Never(OnLedgerUpdate(consumed, created), t)
         /\ \A o \in created : First(o, m) /\ (\A q \in created : First(q, m) => q = o)
              => Once(OnLedgerUpdate(consumed, created), t)
<1> DEFINE k == GrpcListenToLedgerUpdates
           T == Published(k)
           spent == Each(SpentOutputs(consumed))
           updates == Each(FreshUpdates(created))
<1>1. k \in LedgerStreams
  BY DEF LedgerStreams
<1>2. /\ SpentOutputs(consumed) \in [consumed -> Seq(T)] /\ FreshUpdates(created) \in [created -> Seq(T)]
      /\ spent \in Seq(T) /\ updates \in Seq(T)
  BY <1>1, PartsProper
<1> HIDE DEF T
<1>3. Never(spent, t)
  <2>1. \A o \in consumed : Never(SpentOutputs(consumed)[o], t)
    BY AnnouncedByOutput DEF SpentOutputs, TopicsOf
  <2> QED BY <1>2, <2>1, EachOnce
<1>4. \A o \in created :
        FreshUpdates(created)[o] = UpdateOf(o)
        /\ IF First(o, m) THEN Once(UpdateOf(o), t) ELSE Never(UpdateOf(o), t)
  BY AnnouncedByUpdate DEF FreshUpdates
<1>5. (\A o \in created : ~First(o, m)) => Never(updates, t)
  BY <1>2, <1>4, EachOnce
<1>6. ASSUME NEW o \in created, First(o, m), \A q \in created : First(q, m) => q = o
      PROVE  Once(updates, t)
  <2>1. Once(FreshUpdates(created)[o], t)
    BY <1>4, <1>6
  <2>2. \A q \in created : q # o => Never(FreshUpdates(created)[q], t)
    BY <1>4, <1>6
  <2> QED BY <1>2, <2>1, <2>2, EachOnce
<1>7. OnLedgerUpdate(consumed, created) = spent \o updates
  BY CallbackParts
<1> HIDE DEF spent, updates
<1>8. /\ Never(updates, t) => Never(spent \o updates, t)
      /\ Once(updates, t) => Once(spent \o updates, t)
  BY <1>2, <1>3, JoinOnce
<1> QED BY <1>5, <1>6, <1>7, <1>8

LEMMA AnnouncedByAcceptance ==
  ASSUME NEW consumed, consumed \subseteq Output, IsFiniteSet(consumed),
         NEW created, created \subseteq Output, IsFiniteSet(created),
         NEW n \in DOMAIN TransactionIDs, \A o \in created : o.tx = n,
         NEW o \in created, First(o, n), \A q \in created : First(q, n) => q = o,
         NEW m \in DOMAIN TransactionIDs, NEW t \in TopicsOf(m)
  PROVE  IF m = n THEN Once(OnAcceptedTransaction(n, consumed, created), t)
                  ELSE Never(OnAcceptedTransaction(n, consumed, created), t)
<1> DEFINE k == GrpcListenToAcceptedTransactions
           T == Published(k)
           spent == Each(SpentOutputs(consumed))
           fresh == Each(FreshOutputs(created))
           last == << TransactionMetadata(n) >>
<1>1. k \in LedgerStreams
  BY DEF LedgerStreams
<1>2. /\ SpentOutputs(consumed) \in [consumed -> Seq(T)] /\ FreshOutputs(created) \in [created -> Seq(T)]
      /\ spent \in Seq(T) /\ fresh \in Seq(T) /\ last \in Seq(T)
  BY <1>1, PartsProper, TransactionMetadataProper
<1> HIDE DEF T
<1>3. Never(spent, t)
  <2>1. \A q \in consumed : Never(SpentOutputs(consumed)[q], t)
    BY AnnouncedByOutput DEF SpentOutputs, TopicsOf
  <2> QED BY <1>2, <2>1, EachOnce
<1>4. \A q \in created :
        /\ FreshOutputs(created)[q] = PublishOutput(q, FALSE)
        /\ Never(PublishOutput(q, FALSE), MetadataTopic(m))
        /\ First(q, m) => Once(PublishOutput(q, FALSE), IncludedTopic(m))
        /\ ~First(q, m) => Never(PublishOutput(q, FALSE), IncludedTopic(m))
  BY AnnouncedByOutput DEF FreshOutputs
<1>5. Never(fresh, MetadataTopic(m))
  <2>1. \A q \in created : Never(FreshOutputs(created)[q], MetadataTopic(m))
    BY <1>4
  <2> QED BY <1>2, <2>1, EachOnce
<1>6. m = n => Once(fresh, IncludedTopic(m))
  <2> SUFFICES ASSUME m = n PROVE Once(fresh, IncludedTopic(m))
    OBVIOUS
  <2>1. Once(FreshOutputs(created)[o], IncludedTopic(m))
    BY <1>4
  <2>2. \A q \in created : q # o => Never(FreshOutputs(created)[q], IncludedTopic(m))
    BY <1>4
  <2> QED BY <1>2, <2>1, <2>2, EachOnce
<1>7. m # n => Never(fresh, IncludedTopic(m))
  <2> SUFFICES ASSUME m # n PROVE Never(fresh, IncludedTopic(m))
    OBVIOUS
  <2>1. \A q \in created : Never(FreshOutputs(created)[q], IncludedTopic(m))
    BY <1>4 DEF First
  <2> QED BY <1>2, <2>1, EachOnce
<1>8. /\ Never(last, IncludedTopic(m)) /\ (m = n => Once(last, MetadataTopic(m)))
      /\ (m # n => Never(last, MetadataTopic(m)))
  BY AnnouncedByMetadata
<1>9. OnAcceptedTransaction(n, consumed, created) = spent \o fresh \o last
  BY CallbackParts
<1> HIDE DEF spent, fresh, last
<1>10. /\ Never(fresh, t) => Never(spent \o fresh, t)
       /\ Once(fresh, t) => Once(spent \o fresh, t)
  BY <1>2, <1>3, JoinOnce
<1>11. PICK both \in Seq(T) : both = spent \o fresh
  BY <1>2, ConcatProperties
<1>12. /\ Never(both, t) /\ Never(last, t) => Never(both \o last, t)
       /\ Never(both, t) /\ Once(last, t) => Once(both \o last, t)
       /\ Once(both, t) /\ Never(last, t) => Once(both \o last, t)
  BY <1>2, JoinOnce
<1> QED BY <1>5, <1>6, <1>7, <1>8, <1>9, <1>10, <1>11, <1>12 DEF TopicsOf

\* What a callback adds to the counts.
Counted == [LedgerStreams -> [TransactionTopics -> Nat]]

LEMMA DeliverCounts ==
  ASSUME NEW k \in LedgerStreams, NEW T, NEW s \in Seq(T), announced \in Counted, Deliver(k, s)
  PROVE  /\ announced' \in Counted
         /\ \A l \in LedgerStreams : l # k => announced'[l] = announced[l]
         /\ \A t \in TransactionTopics :
              /\ Never(s, t) => announced'[k][t] = announced[k][t]
              /\ Once(s, t) => announced'[k][t] = announced[k][t] + 1
<1> DEFINE on(t) == { i \in DOMAIN s : t \in Range(s[i].topics) }
<1>1. announced' = [announced EXCEPT ![k] = [t \in TransactionTopics |->
                      announced[k][t] + Cardinality(on(t))]]
  BY DEF Deliver
<1>2. \A t : Cardinality(on(t)) \in Nat
  <2>1. TAKE t
  <2>2. DOMAIN s = 1 .. Len(s) /\ Len(s) \in Nat
    OBVIOUS
  <2>3. IsFiniteSet(1 .. Len(s))
    BY <2>2, FS_Interval
  <2>4. on(t) \in SUBSET (1 .. Len(s))
    BY <2>2
  <2> HIDE DEF on
  <2> QED BY <2>3, <2>4, FS_Subset, FS_CardinalityType
<1>3. \A t : Never(s, t) => Cardinality(on(t)) = 0
  <2>1. \A t : Never(s, t) => on(t) = {}
    BY DEF Never
  <2> HIDE DEF on
  <2> QED BY <2>1, FS_EmptySet
<1>4. \A t : Once(s, t) => Cardinality(on(t)) = 1
  <2>1. ASSUME NEW t, Once(s, t) PROVE \E i : on(t) = {i}
    <3>1. PICK i \in DOMAIN s : \A j \in DOMAIN s : t \in Range(s[j].topics) <=> j = i
      BY <2>1 DEF Once
    <3>2. \A j : j \in on(t) <=> j = i
      BY <3>1
    <3> HIDE DEF on
    <3>3. on(t) = {i}
      BY <3>2
    <3> QED BY <3>3
  <2> HIDE DEF on
  <2> QED BY <2>1, FS_Singleton
<1> HIDE DEF on
<1>5. \A t \in TransactionTopics : announced'[k][t] = announced[k][t] + Cardinality(on(t))
  BY <1>1 DEF Counted
<1>6. \A t \in TransactionTopics : announced[k][t] \in Nat
  BY DEF Counted
<1>7. announced' \in Counted
  BY <1>1, <1>2, <1>6 DEF Counted
<1>8. \A l \in LedgerStreams : l # k => announced'[l] = announced[l]
  BY <1>1 DEF Counted
<1> QED BY <1>3, <1>4, <1>5, <1>6, <1>7, <1>8

-----------------------------------------------------------------------------
(* What is announced: the third inductive invariant says in addition which *)
(* transactions the ledger's outputs belong to, that no two are the first  *)
(* of the same, and that an uncommitted first output was not announced yet *)
(* by the stream of commitments.                                           *)

AnnouncedOnce(m, t) ==
  /\ announced[GrpcListenToAcceptedTransactions][t] = IF 1 < m /\ m <= accepted THEN 1 ELSE 0
  /\ announced[GrpcListenToLedgerUpdates][t] \in 0 .. 1
  /\ m > accepted => announced[GrpcListenToLedgerUpdates][t] = 0
  /\ \A o \in unspent \ committed :
       First(o, m) => announced[GrpcListenToLedgerUpdates][t] = 0
  /\ \A o \in committed :
       First(o, m) /\ m > 1 => announced[GrpcListenToLedgerUpdates][t] = 1

AnnounceInv ==
  /\ TopicsInv
  /\ announced \in Counted
  /\ \A o \in unspent \cup committed : o.tx <= accepted
  /\ \A m, o, q : o \in unspent \cup committed /\ q \in unspent \cup committed
                    /\ First(o, m) /\ First(q, m) => o = q
  /\ \A m \in DOMAIN TransactionIDs : \A t \in TopicsOf(m) : AnnouncedOnce(m, t)

LEMMA AnnounceInit == Init => AnnounceInv
<1> SUFFICES ASSUME Init PROVE AnnounceInv
  OBVIOUS
<1>1. TopicsInv
  BY TopicsInit
<1>2. unspent = {Genesis} /\ committed = {Genesis} /\ accepted = 1 /\ Genesis.tx = 1
  BY DEF Init, Genesis
<1>3. announced = [k \in LedgerStreams |-> [t \in TransactionTopics |-> 0]]
  BY DEF Init
<1>4. announced \in Counted
  BY <1>3 DEF Counted
<1>5. ASSUME NEW m \in DOMAIN TransactionIDs, NEW t \in TopicsOf(m) PROVE AnnouncedOnce(m, t)
  <2>1. t \in TransactionTopics /\ m \in Nat
    BY TopicsOfTransactions, IDsAssumption
  <2>2. \A k \in LedgerStreams : announced[k][t] = 0
    BY <1>3, <2>1
  <2> QED BY <1>2, <2>1, <2>2 DEF AnnouncedOnce, LedgerStreams, First
<1> QED BY <1>1, <1>2, <1>4, <1>5 DEF AnnounceInv

\* A transaction creates one first output, and all it creates is its own.
LEMMA CreatedOfOne ==
  ASSUME NEW n, NEW o, NEW new, NEW created \in CreatedSets(n, o, new)
  PROVE  /\ \A p \in created : p.tx = n
         /\ \E p \in created : First(p, n) /\ \A q \in created : First(q, n) => q = p
<1>1. \A i, x : /\ Created(n, i, x).tx = n /\ Created(n, i, x).index = i
                /\ Continued(n, i, x).tx = n /\ Continued(n, i, x).index = i
  BY DEF Created, Continued
<1>2. \/ created = {Created(n, 0, new)} \/ created = {Continued(n, 0, o)}
      \/ created = {Continued(n, 0, o), Created(n, 1, new)}
      \/ created = {Created(n, 0, new), Continued(n, 1, o)}
      \/ created = {Created(n, 0, new), Created(n, 1, o.new)}
  BY DEF CreatedSets
<1> QED BY <1>1, <1>2 DEF First

LEMMA AnnounceAccept == AnnounceInv /\ AcceptTransaction => AnnounceInv'
<1> SUFFICES ASSUME AnnounceInv, AcceptTransaction PROVE AnnounceInv'
  OBVIOUS
<1> DEFINE A == GrpcListenToAcceptedTransactions
           L == GrpcListenToLedgerUpdates
           T == Published(A)
<1>1. TopicsInv /\ TopicsInv'
  BY TopicsAccept DEF AnnounceInv
<1>2. PICK n : n = accepted + 1
  OBVIOUS
<1>3. /\ n \in 1 .. Len(TransactionIDs) /\ n \in DOMAIN TransactionIDs
      /\ accepted' = n /\ committed' = committed
  BY <1>1, <1>2, AcceptParts
<1>4. PICK o \in unspent, new \in NewOutputs : \E created \in CreatedSets(n, o, new) :
        /\ created \subseteq Output /\ IsFiniteSet(created)
        /\ unspent' = (unspent \ {o}) \cup created
        /\ Deliver(A, OnAcceptedTransaction(n, {o}, created))
  BY <1>1, <1>2, AcceptParts
<1>5. PICK created \in CreatedSets(n, o, new) :
        /\ created \subseteq Output /\ IsFiniteSet(created)
        /\ unspent' = (unspent \ {o}) \cup created
        /\ Deliver(A, OnAcceptedTransaction(n, {o}, created))
  BY <1>4
<1>6. /\ {o} \subseteq Output /\ IsFiniteSet({o})
      /\ accepted \in Nat /\ accepted >= 1 /\ n > accepted
      /\ \A x \in unspent \cup committed : x.tx \in Nat
  <2>1. {o} \subseteq Output /\ IsFiniteSet({o})
    BY <1>1, FS_Singleton DEF TopicsInv
  <2>2. accepted \in Nat /\ accepted >= 1 /\ n > accepted
    BY <1>1, <1>2, IDsAssumption DEF TopicsInv
  <2>3. \A x \in Output : x.tx \in Nat
    BY IDsAssumption DEF Output
  <2>4. unspent \subseteq Output /\ committed \subseteq Output
    BY <1>1 DEF TopicsInv
  <2> QED BY <2>1, <2>2, <2>3, <2>4
<1>7. PICK p \in created : First(p, n) /\ \A q \in created : First(q, n) => q = p
  BY <1>5, CreatedOfOne
<1>8. \A q \in created : q.tx = n
  BY <1>5, CreatedOfOne
<1>9. A \in LedgerStreams /\ L \in LedgerStreams /\ A # L
  BY DEF LedgerStreams, GrpcListenToAcceptedTransactions, GrpcListenToLedgerUpdates
<1>10. OnAcceptedTransaction(n, {o}, created) \in Seq(T)
  BY <1>3, <1>5, <1>6, <1>9, LedgerCallbacks
<1>11. announced \in Counted
  BY DEF AnnounceInv
<1> HIDE DEF T, A, L
<1>12. /\ announced' \in Counted /\ announced'[L] = announced[L]
       /\ \A t \in TransactionTopics :
            /\ Never(OnAcceptedTransaction(n, {o}, created), t) => announced'[A][t] = announced[A][t]
            /\ Once(OnAcceptedTransaction(n, {o}, created), t) => announced'[A][t] = announced[A][t] + 1
  BY <1>5, <1>9, <1>10, <1>11, DeliverCounts
<1>13. \A x \in unspent' \cup committed' : x.tx <= n
  BY <1>3, <1>5, <1>6, <1>8 DEF AnnounceInv
<1>14. ASSUME NEW m, NEW x \in unspent' \cup committed', NEW y \in unspent' \cup committed',
              First(x, m), First(y, m)
       PROVE  x = y
  <2>1. \A z \in unspent \cup committed : z.tx # n
    BY <1>6 DEF AnnounceInv
  <2>2. CASE m = n
    <3>1. x \in created /\ y \in created
      BY <1>3, <1>5, <1>14, <2>1, <2>2 DEF First
    <3> QED BY <1>7, <1>14, <2>2, <3>1
  <2>3. CASE m # n
    <3>1. x \in unspent \cup committed /\ y \in unspent \cup committed
      BY <1>3, <1>5, <1>8, <1>14, <2>3 DEF First
    <3> QED BY <1>14, <3>1 DEF AnnounceInv
  <2> QED BY <2>2, <2>3
<1>15. ASSUME NEW m \in DOMAIN TransactionIDs, NEW t \in TopicsOf(m)
       PROVE  AnnouncedOnce(m, t)'
  <2>1. t \in TransactionTopics /\ m \in Nat /\ AnnouncedOnce(m, t)
    BY TopicsOfTransactions, IDsAssumption DEF AnnounceInv
  <2>2. IF m = n THEN Once(OnAcceptedTransaction(n, {o}, created), t)
                 ELSE Never(OnAcceptedTransaction(n, {o}, created), t)
    BY <1>3, <1>5, <1>6, <1>7, <1>8, AnnouncedByAcceptance
  <2>3. announced'[A][t] = IF m = n THEN announced[A][t] + 1 ELSE announced[A][t]
    BY <1>12, <2>1, <2>2
  <2>4. announced'[A][t] = IF 1 < m /\ m <= accepted' THEN 1 ELSE 0
    BY <1>2, <1>3, <1>6, <2>1, <2>3 DEF AnnouncedOnce, A
  <2>5. announced'[L][t] \in 0 .. 1 /\ (m > accepted' => announced'[L][t] = 0)
    BY <1>3, <1>6, <1>12, <2>1 DEF AnnouncedOnce, L
  <2>6. \A x \in unspent' \ committed' : First(x, m) => announced'[L][t] = 0
    <3>1. TAKE x \in unspent' \ committed'
    <3>2. CASE x \in created
      BY <1>6, <1>8, <1>12, <2>1, <3>2 DEF AnnouncedOnce, First, L
    <3>3. CASE x \notin created
      BY <1>3, <1>5, <1>12, <2>1, <3>1, <3>3 DEF AnnouncedOnce, L
    <3> QED BY <3>2, <3>3
  <2>7. \A x \in committed' : First(x, m) /\ m > 1 => announced'[L][t] = 1
    BY <1>3, <1>12, <2>1 DEF AnnouncedOnce, L
  <2> QED BY <2>4, <2>5, <2>6, <2>7 DEF AnnouncedOnce, First, A, L
<1>16. \A m \in DOMAIN TransactionIDs : \A t \in TopicsOf(m)' : AnnouncedOnce(m, t)'
  BY <1>15 DEF TopicsOf, IncludedTopic, MetadataTopic
<1>17. (announced \in Counted)'
  BY <1>12 DEF Counted
<1>18. (\A x \in unspent \cup committed : x.tx <= accepted)'
  BY <1>3, <1>13
<1>19. (\A m, x, y : x \in unspent \cup committed /\ y \in unspent \cup committed
                      /\ First(x, m) /\ First(y, m) => x = y)'
  BY <1>14 DEF First
<1> QED BY <1>1, <1>16, <1>17, <1>18, <1>19 DEF AnnounceInv

LEMMA AnnounceCommit == AnnounceInv /\ CommitSlot => AnnounceInv'
<1> SUFFICES ASSUME AnnounceInv, CommitSlot PROVE AnnounceInv'
  OBVIOUS
<1> DEFINE A == GrpcListenToAcceptedTransactions
           L == GrpcListenToLedgerUpdates
           T == Published(L)
           spent == committed \ unspent
           fresh == unspent \ committed
<1>1. TopicsInv /\ TopicsInv'
  BY TopicsCommit DEF AnnounceInv
<1>2. spent \subseteq Output /\ IsFiniteSet(spent) /\ fresh \subseteq Output /\ IsFiniteSet(fresh)
  <2>1. spent \in SUBSET committed /\ fresh \in SUBSET unspent
    OBVIOUS
  <2> HIDE DEF spent, fresh
  <2> QED BY <1>1, <2>1, FS_Subset DEF TopicsInv
<1>3. committed' = unspent /\ unspent' = unspent /\ accepted' = accepted
  BY DEF CommitSlot
<1>4. Deliver(L, OnLedgerUpdate(spent, fresh))
  BY DEF CommitSlot
<1>5. A \in LedgerStreams /\ L \in LedgerStreams /\ A # L
  BY DEF LedgerStreams, GrpcListenToAcceptedTransactions, GrpcListenToLedgerUpdates
<1>6. \A x : x \in fresh <=> x \in unspent /\ x \notin committed
  OBVIOUS
<1> HIDE DEF spent, fresh
<1>7. OnLedgerUpdate(spent, fresh) \in Seq(T)
  BY <1>2, <1>5, LedgerCallbacks
<1>8. announced \in Counted
  BY DEF AnnounceInv
<1> HIDE DEF T, A, L
<1>9. /\ announced' \in Counted /\ announced'[A] = announced[A]
      /\ \A t \in TransactionTopics :
           /\ Never(OnLedgerUpdate(spent, fresh), t) => announced'[L][t] = announced[L][t]
           /\ Once(OnLedgerUpdate(spent, fresh), t) => announced'[L][t] = announced[L][t] + 1
  BY <1>4, <1>5, <1>7, <1>8, DeliverCounts
<1>10. \A m, x, y : x \in unspent \cup committed /\ y \in unspent \cup committed
                      /\ First(x, m) /\ First(y, m) => x = y
  BY DEF AnnounceInv
<1>11. ASSUME NEW m \in DOMAIN TransactionIDs, NEW t \in TopicsOf(m)
       PROVE  AnnouncedOnce(m, t)'
  <2>1. t \in TransactionTopics /\ m \in Nat /\ accepted \in Nat /\ AnnouncedOnce(m, t)
    BY <1>1, TopicsOfTransactions, IDsAssumption DEF AnnounceInv, TopicsInv
  <2>2. announced'[A][t] = IF 1 < m /\ m <= accepted' THEN 1 ELSE 0
    BY <1>3, <1>9, <2>1 DEF AnnouncedOnce, A
  <2>3. CASE \E p \in fresh : First(p, m)
    <3>1. PICK p \in fresh : First(p, m)
      BY <2>3
    <3>2. \A q \in fresh : First(q, m) => q = p
      BY <1>6, <1>10, <3>1
    <3>3. Once(OnLedgerUpdate(spent, fresh), t)
      BY <1>2, <3>1, <3>2, AnnouncedByCommit
    <3>4. announced[L][t] = 0
      BY <1>6, <2>1, <3>1 DEF AnnouncedOnce, L
    <3>5. announced'[L][t] = 1
      BY <1>9, <2>1, <3>3, <3>4
    <3>6. m <= accepted
      BY <1>6, <3>1 DEF AnnounceInv, First
    <3> QED BY <1>3, <2>1, <2>2, <3>5, <3>6 DEF AnnouncedOnce, A, L
  <2>4. CASE ~\E p \in fresh : First(p, m)
    <3>1. Never(OnLedgerUpdate(spent, fresh), t)
      BY <1>2, <2>4, AnnouncedByCommit
    <3>2. announced'[L][t] = announced[L][t]
      BY <1>9, <2>1, <3>1
    <3>3. \A x \in committed' : First(x, m) => x \in committed
      BY <1>3, <1>6, <2>4
    <3>4. announced'[L][t] \in 0 .. 1 /\ (m > accepted' => announced'[L][t] = 0)
      BY <1>3, <2>1, <3>2 DEF AnnouncedOnce, L
    <3>5. \A x \in committed' : First(x, m) /\ m > 1 => announced'[L][t] = 1
      BY <2>1, <3>2, <3>3 DEF AnnouncedOnce, L
    <3> QED BY <1>3, <2>2, <3>4, <3>5 DEF AnnouncedOnce, First, A, L
  <2> QED BY <2>3, <2>4
<1>12. \A m \in DOMAIN TransactionIDs : \A t \in TopicsOf(m)' : AnnouncedOnce(m, t)'
  BY <1>11 DEF TopicsOf, IncludedTopic, MetadataTopic
<1>13. (announced \in Counted)'
  BY <1>9 DEF Counted
<1>14. (\A x \in unspent \cup committed : x.tx <= accepted)'
  BY <1>3 DEF AnnounceInv
<1>15. (\A m, x, y : x \in unspent \cup committed /\ y \in unspent \cup committed
                      /\ First(x, m) /\ First(y, m) => x = y)'
  BY <1>3, <1>10 DEF First
<1> QED BY <1>1, <1>12, <1>13, <1>14, <1>15 DEF AnnounceInv

LEMMA AnnounceNext == AnnounceInv /\ [Next]_vars => AnnounceInv'
<1> SUFFICES ASSUME AnnounceInv, [Next]_vars PROVE AnnounceInv'
  OBVIOUS
<1>1. CASE AcceptTransaction
  BY <1>1, AnnounceAccept
<1>2. CASE CommitSlot
  BY <1>2, AnnounceCommit
<1>3. CASE NewBlock \/ AcceptBlock \/ ConfirmBlock \/ UNCHANGED vars
  <2>1. UNCHANGED <<unspent, committed, accepted, latest, announced>>
    BY <1>3 DEF NewBlock, AcceptBlock, ConfirmBlock, DeliverBlock, vars
  <2>2. TopicsInv'
    BY TopicsNext DEF AnnounceInv
  <2>3. (announced \in Counted)'
    BY <2>1 DEF AnnounceInv, Counted
  <2>4. \A m \in DOMAIN TransactionIDs : \A t \in TopicsOf(m)' : AnnouncedOnce(m, t)'
    BY <2>1 DEF AnnounceInv, AnnouncedOnce, TopicsOf, IncludedTopic, MetadataTopic, First
  <2> QED BY <2>1, <2>2, <2>3, <2>4 DEF AnnounceInv, First
<1> QED BY <1>1, <1>2, <1>3 DEF Next

\* The stream of accepted transactions announces each transaction once on each
\* of its topics, however many outputs it has and whenever they are spent; the
\* stream of commitments does so at most once, and has done so if it has shown
\* the first output unspent (the tests of index 0 in server.go and publish.go).
THEOREM AnnouncementsAreUnique == Spec => []TransactionsAnnouncedOnce
<1>1. Init => AnnounceInv
  BY AnnounceInit
<1>2. AnnounceInv /\ [Next]_vars => AnnounceInv'
  BY AnnounceNext
<1>3. AnnounceInv => TransactionsAnnouncedOnce
  <2> SUFFICES ASSUME AnnounceInv, NEW n \in 2 .. accepted, NEW t \in TopicsOf(n)
               PROVE  /\ announced[GrpcListenToAcceptedTransactions][t] = 1
                      /\ announced[GrpcListenToLedgerUpdates][t] \in 0 .. 1
                      /\ (\E o \in committed : o.tx = n /\ o.index = 0)
                           => announced[GrpcListenToLedgerUpdates][t] = 1
    BY DEF TransactionsAnnouncedOnce, TopicsOf, IncludedTopic, MetadataTopic
  <2>1. n \in DOMAIN TransactionIDs /\ 1 < n /\ n <= accepted
    BY IDsAssumption DEF AnnounceInv, TopicsInv
  <2>2. AnnouncedOnce(n, t)
    BY <2>1 DEF AnnounceInv
  <2> QED BY <2>1, <2>2 DEF AnnouncedOnce, First
<1> QED BY <1>1, <1>2, <1>3, PTL DEF Spec
=============================================================================
