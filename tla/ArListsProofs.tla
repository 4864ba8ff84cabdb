---------------------------- MODULE ArListsProofs ----------------------------
(***************************************************************************)
(* Proofs that the linked lists of ArLists are lists and do what the       *)
(* sequences of ArQueues do, for every number of handles.  The inductive   *)
(* invariant names the three sequences: following q_next from a head gives *)
(* exactly that sequence (Walked), so what is proved of it holds of Walk.  *)
(***************************************************************************)
EXTENDS ArLists, SequencesExt, SequenceTheorems, FiniteSetTheorems,
        NaturalsInduction, TLAPS

Links == [Handles -> Handles \cup {Null}]

\* What head and tail of a list are for its sequence.
Start(s) == IF s = <<>> THEN Null ELSE s[1]
End(s) == IF s = <<>> THEN Null ELSE s[Len(s)]

Elems(s) == {s[i] : i \in DOMAIN s}

Once(s) == \A i, j \in 1..Len(s) : s[i] = s[j] => i = j

\* The links nx join the elements of s, each once, from the first to the last.
Chained(nx, s) ==
    /\ s \in Seq(Handles)
    /\ Once(s)
    /\ \A i \in 1..Len(s) : nx[s[i]] = IF i < Len(s) THEN s[i + 1] ELSE Null

\* The three lists are the sequences p, q and r.
Lists(p, q, r) ==
    /\ Chained(next, p) /\ Chained(next, q) /\ Chained(next, r)
    /\ Elems(p) \cap Elems(q) = {}
    /\ Elems(p) \cap Elems(r) = {} /\ Elems(q) \cap Elems(r) = {}
    /\ out \cap (Elems(p) \cup Elems(q) \cup Elems(r)) = {}
    /\ phead = Start(p) /\ ptail = End(p)
    /\ qhead = Start(q) /\ qtail = End(q) /\ rhead = Start(r)

TypeOK == next \in Links /\ out \subseteq Handles

IInv == TypeOK /\ \E p, q, r \in Seq(Handles) : Lists(p, q, r)

-----------------------------------------------------------------------------
(* Walk.                                                                   *)

\* A set of naturals has a least element.
LEMMA Least ==
    ASSUME NEW T, T \subseteq Nat, T # {}
    PROVE  \E x \in T : \A y \in T : ~(y < x)
<1>. DEFINE Less == {z \in Nat \X Nat : z[1] < z[2]}
<1>1. IsWellFoundedOn(Less, Nat) BY NatLessThanWellFounded DEF OpToRel
<1>2. \E x \in T : \A y \in T : ~(<<y, x>> \in Less) BY <1>1, WFMin
<1>. QED BY <1>2

\* A sequence of different handles is no longer than there are handles.
LEMMA NotLonger ==
    ASSUME NEW s \in Seq(Handles), Once(s)
    PROVE  Cardinality(Handles) \in Nat /\ Len(s) <= Cardinality(Handles)
<1>1. Cardinality(Handles) \in Nat BY FS_CardinalityType, ArListsAssumption
<1>2. s \in Injection(1..Len(s), Handles) BY DEF Injection, IsInjective, Once
<1>3. Cardinality(1..Len(s)) <= Cardinality(Handles)
  BY <1>2, FS_Injection, ArListsAssumption
<1>. QED BY <1>1, <1>3, FS_Interval

\* Walk from its first element finds the sequence that the links join.
LEMMA Walked ==
    ASSUME NEW s, Chained(next, s)
    PROVE  Walk(Start(s)) = s
<1>. DEFINE n == Cardinality(Handles)
            p == Start(s)
            Rule(at) == at = [i \in 0..n |->
                IF i = 0 THEN p
                ELSE IF at[i - 1] = Null THEN Null ELSE next[at[i - 1]]]
            way == [i \in 0..n |-> IF i < Len(s) THEN s[i + 1] ELSE Null]
<1>1. /\ s \in Seq(Handles) /\ Len(s) \in Nat
      /\ n \in Nat /\ Len(s) <= n
  BY NotLonger DEF Chained, Once
<1>2. Rule(way)
  <2>1. ASSUME NEW i \in 0..n
        PROVE  way[i] = IF i = 0 THEN p
                        ELSE IF way[i - 1] = Null THEN Null ELSE next[way[i - 1]]
    <3>1. CASE i = 0 BY <1>1, <3>1 DEF Start
    <3>2. CASE i # 0
      <4>1. i - 1 \in 0..n /\ i - 1 < n BY <1>1, <3>2
      <4>2. CASE i - 1 < Len(s)
        <5>1. i \in 1..Len(s) /\ way[i - 1] = s[i] /\ s[i] \in Handles
          BY <1>1, <4>1, <4>2
        <5>2. way[i - 1] # Null BY <5>1, ArListsAssumption
        <5>3. next[s[i]] = IF i < Len(s) THEN s[i + 1] ELSE Null
          BY <5>1 DEF Chained, Once
        <5>. QED BY <3>2, <5>1, <5>2, <5>3
      <4>3. CASE ~(i - 1 < Len(s))
        BY <1>1, <3>2, <4>1, <4>3
      <4>. QED BY <4>2, <4>3
    <3>. QED BY <3>1, <3>2
  <2>. QED BY <2>1
<1>3. ASSUME NEW at, Rule(at) PROVE at = way
  <2>. DEFINE Bad == {i \in 0..n : at[i] # way[i]}
  <2>1. SUFFICES ASSUME Bad # {} PROVE FALSE BY <1>3
  <2>2. PICK i \in Bad : \A j \in Bad : ~(j < i)
    <3>1. Bad \subseteq Nat BY <1>1
    <3>. HIDE DEF Bad
    <3>. QED BY <2>1, <3>1, Least
  <2>3. CASE i = 0
    <3>1. at[0] = p BY <1>1, <1>3
    <3>2. way[0] = p BY <1>1 DEF Start
    <3>. QED BY <2>2, <2>3, <3>1, <3>2
  <2>4. CASE i # 0
    <3>1. i \in 0..n /\ i - 1 \in 0..n /\ i - 1 < i /\ i - 1 \notin Bad
      BY <1>1, <2>2, <2>4
    <3>2. at[i - 1] = way[i - 1] BY <3>1
    <3>3. at[i] = IF at[i - 1] = Null THEN Null ELSE next[at[i - 1]]
      BY <1>3, <2>4, <3>1
    <3>4. way[i] = IF way[i - 1] = Null THEN Null ELSE next[way[i - 1]]
      BY <1>2, <2>4, <3>1
    <3>. QED BY <2>2, <3>2, <3>3, <3>4
  <2>. QED BY <2>3, <2>4
<1>4. (CHOOSE at : Rule(at)) = way
  <2>1. Rule(CHOOSE at : Rule(at)) BY <1>2
  <2>. QED BY <1>3, <2>1
<1>. DEFINE at == CHOOSE f : Rule(f)
            len == Cardinality({i \in 0..n : at[i] # Null})
<1>5. Walk(p) = [i \in 1..len |-> at[i - 1]] BY DEF Walk
<1>6. len = Len(s)
  <2>1. {i \in 0..n : way[i] # Null} = 0..(Len(s) - 1)
    <3>1. ASSUME NEW i \in 0..n PROVE way[i] # Null <=> i < Len(s)
      BY <1>1, ArListsAssumption
    <3>. QED BY <1>1, <3>1
  <2>2. Cardinality(0..(Len(s) - 1)) = Len(s)
    <3>1. 0 \in Int /\ Len(s) - 1 \in Int BY <1>1
    <3>2. Cardinality(0..(Len(s) - 1)) =
            IF 0 > Len(s) - 1 THEN 0 ELSE (Len(s) - 1) - 0 + 1
      BY <3>1, FS_Interval
    <3>. QED BY <1>1, <3>2
  <2>. QED BY <1>4, <2>1, <2>2
<1>7. \A i \in 1..Len(s) : way[i - 1] = s[i] BY <1>1
<1>8. Walk(p) = [i \in 1..Len(s) |-> s[i]] BY <1>4, <1>5, <1>6, <1>7
<1>. QED BY <1>1, <1>8

-----------------------------------------------------------------------------
(* The pieces of list surgery.                                             *)

\* What Chained says, for a sequence and its length.
LEMMA ChainFacts ==
    ASSUME NEW nx, NEW s, Chained(nx, s)
    PROVE  /\ s \in Seq(Handles) /\ Len(s) \in Nat /\ DOMAIN s = 1..Len(s)
           /\ s = <<>> <=> Len(s) = 0
           /\ \A i \in 1..Len(s) : s[i] \in Handles /\ s[i] # Null /\ s[i] \in Elems(s)
           /\ Elems(s) \subseteq Handles
           /\ s # <<>> => Start(s) \in Elems(s) /\ End(s) \in Elems(s)
           /\ (Start(s) = Null <=> s = <<>>) /\ (End(s) = Null <=> s = <<>>)
BY ArListsAssumption DEF Chained, Once, Elems, Start, End

\* The list without elements, and the one of one element.
LEMMA SmallChains ==
    ASSUME NEW nx
    PROVE  /\ Chained(nx, <<>>) /\ Elems(<<>>) = {}
           /\ Start(<<>>) = Null /\ End(<<>>) = Null
           /\ \A h \in Handles :
                nx[h] = Null => /\ Chained(nx, <<h>>) /\ Elems(<<h>>) = {h}
                                /\ Start(<<h>>) = h /\ End(<<h>>) = h /\ <<h>> # <<>>
BY DEF Chained, Once, Elems, Start, End

\* Links that are the same on a list leave it as it is.
LEMMA SameChain ==
    ASSUME NEW nx, NEW to, NEW s, Chained(nx, s), \A h \in Elems(s) : to[h] = nx[h]
    PROVE  Chained(to, s)
BY ChainFacts DEF Chained, Once

\* The elements of two sequences behind one another.
LEMMA ElemsConcat ==
    ASSUME NEW s \in Seq(Handles), NEW t \in Seq(Handles)
    PROVE  Elems(s \o t) = Elems(s) \cup Elems(t)
<1>. DEFINE u == s \o t
<1>1. /\ u \in Seq(Handles) /\ Len(u) = Len(s) + Len(t) /\ DOMAIN u = 1..Len(u)
      /\ \A i \in 1..Len(u) : u[i] = IF i <= Len(s) THEN s[i] ELSE t[i - Len(s)]
  BY ConcatProperties, LenProperties
<1>2. /\ Len(s) \in Nat /\ DOMAIN s = 1..Len(s)
      /\ Len(t) \in Nat /\ DOMAIN t = 1..Len(t)
  BY LenProperties
<1>3. Elems(u) \subseteq Elems(s) \cup Elems(t)
  <2>1. ASSUME NEW i \in DOMAIN u PROVE u[i] \in Elems(s) \cup Elems(t)
    <3>1. CASE i <= Len(s) BY <1>1, <1>2, <3>1 DEF Elems
    <3>2. CASE ~(i <= Len(s))
      <4>1. i - Len(s) \in DOMAIN t /\ u[i] = t[i - Len(s)] BY <1>1, <1>2, <3>2
      <4>. QED BY <4>1 DEF Elems
    <3>. QED BY <3>1, <3>2
  <2>. QED BY <2>1 DEF Elems
<1>4. Elems(s) \subseteq Elems(u)
  <2>1. ASSUME NEW i \in DOMAIN s PROVE i \in DOMAIN u /\ u[i] = s[i]
    BY <1>1, <1>2
  <2>. QED BY <2>1 DEF Elems
<1>5. Elems(t) \subseteq Elems(u)
  <2>1. ASSUME NEW i \in DOMAIN t
        PROVE  Len(s) + i \in DOMAIN u /\ u[Len(s) + i] = t[i]
    BY <1>1, <1>2
  <2>2. ASSUME NEW i \in DOMAIN t PROVE t[i] \in Elems(u) BY <2>1 DEF Elems
  <2>. QED BY <2>2 DEF Elems
<1>. QED BY <1>3, <1>4, <1>5

\* Two sequences of different elements that have none in common.
LEMMA OnceConcat ==
    ASSUME NEW s \in Seq(Handles), NEW t \in Seq(Handles), Once(s), Once(t),
           Elems(s) \cap Elems(t) = {}
    PROVE  Once(s \o t)
<1>. DEFINE u == s \o t
<1>1. /\ u \in Seq(Handles) /\ Len(u) = Len(s) + Len(t) /\ DOMAIN u = 1..Len(u)
      /\ \A i \in 1..Len(u) : u[i] = IF i <= Len(s) THEN s[i] ELSE t[i - Len(s)]
  BY ConcatProperties, LenProperties
<1>2. /\ Len(s) \in Nat /\ DOMAIN s = 1..Len(s)
      /\ Len(t) \in Nat /\ DOMAIN t = 1..Len(t)
  BY LenProperties
<1>3. \A i \in 1..Len(s), j \in 1..Len(t) : s[i] # t[j]
  BY <1>2 DEF Elems
<1>4. \A i, j \in 1..Len(u) : u[i] = u[j] => i = j
  <2>. TAKE i, j \in 1..Len(u)
  <2>. HAVE u[i] = u[j]
  <2>1. CASE i <= Len(s) /\ j <= Len(s) BY <1>1, <1>2, <2>1 DEF Once
  <2>2. CASE i > Len(s) /\ j > Len(s)
    <3>1. i - Len(s) \in 1..Len(t) /\ j - Len(s) \in 1..Len(t)
          /\ t[i - Len(s)] = t[j - Len(s)]
      BY <1>1, <1>2, <2>2
    <3>. QED BY <1>1, <1>2, <3>1 DEF Once
  <2>3. CASE i <= Len(s) /\ j > Len(s) BY <1>1, <1>2, <1>3, <2>3
  <2>4. CASE i > Len(s) /\ j <= Len(s) BY <1>1, <1>2, <1>3, <2>4
  <2>. QED BY <1>1, <1>2, <2>1, <2>2, <2>3, <2>4
<1>. QED BY <1>4 DEF Once

\* One list behind another: of the first one's links only the last changes.
LEMMA Join ==
    ASSUME NEW nx, NEW s, Chained(nx, s), NEW to, NEW t, Chained(to, t),
           Elems(s) \cap Elems(t) = {},
           \A h \in Elems(s) \ {End(s)} : to[h] = nx[h],
           s # <<>> => to[End(s)] = Start(t)
    PROVE  /\ Chained(to, s \o t) /\ Elems(s \o t) = Elems(s) \cup Elems(t)
           /\ Start(s \o t) = IF s = <<>> THEN Start(t) ELSE Start(s)
           /\ End(s \o t) = IF t = <<>> THEN End(s) ELSE End(t)
<1>. DEFINE u == s \o t
<1>1. /\ u \in Seq(Handles) /\ Len(u) = Len(s) + Len(t) /\ DOMAIN u = 1..Len(u)
      /\ \A i \in 1..Len(u) : u[i] = IF i <= Len(s) THEN s[i] ELSE t[i - Len(s)]
  BY ConcatProperties, LenProperties, ChainFacts
<1>2. /\ s \in Seq(Handles) /\ Len(s) \in Nat /\ DOMAIN s = 1..Len(s)
      /\ t \in Seq(Handles) /\ Len(t) \in Nat /\ DOMAIN t = 1..Len(t)
      /\ (s = <<>> <=> Len(s) = 0) /\ (t = <<>> <=> Len(t) = 0)
  BY ChainFacts
<1>4. Once(u) BY <1>2, OnceConcat DEF Chained
<1>5. \A i \in 1..Len(u) : to[u[i]] = IF i < Len(u) THEN u[i + 1] ELSE Null
  <2>. TAKE i \in 1..Len(u)
  <2>1. CASE i < Len(s)
    <3>1. s[i] \in Elems(s) /\ s[i] # End(s)
      BY <1>2, <2>1 DEF Chained, Once, Elems, End
    <3>2. to[s[i]] = s[i + 1] BY <1>2, <2>1, <3>1 DEF Chained, Once
    <3>. QED BY <1>1, <1>2, <2>1, <3>2
  <2>2. CASE i = Len(s)
    <3>1. u[i] = End(s) /\ s # <<>> BY <1>1, <1>2, <2>2 DEF End
    <3>2. to[u[i]] = Start(t) BY <3>1
    <3>. QED BY <1>1, <1>2, <2>2, <3>2 DEF Start
  <2>3. CASE i > Len(s)
    <3>1. i - Len(s) \in 1..Len(t) /\ u[i] = t[i - Len(s)] BY <1>1, <1>2, <2>3
    <3>2. to[u[i]] = IF i - Len(s) < Len(t) THEN t[i - Len(s) + 1] ELSE Null
      BY <3>1 DEF Chained, Once
    <3>3. i < Len(u) => u[i + 1] = t[i - Len(s) + 1] BY <1>1, <1>2, <2>3
    <3>. QED BY <1>1, <1>2, <2>3, <3>2, <3>3
  <2>4. i \in Int /\ Len(s) \in Int
    <3>1. Len(u) \in Nat BY <1>1, <1>2
    <3>. QED BY <1>2, <3>1
  <2>5. i < Len(s) \/ i = Len(s) \/ i > Len(s) BY <2>4
  <2>. QED BY <2>1, <2>2, <2>3, <2>5
<1>6. Elems(u) = Elems(s) \cup Elems(t) BY <1>2, ElemsConcat
<1>7. (u = <<>> <=> Len(u) = 0) BY <1>1
<1>8. Start(u) = IF s = <<>> THEN Start(t) ELSE Start(s)
  BY <1>1, <1>2, <1>7 DEF Start
<1>9. End(u) = IF t = <<>> THEN End(s) ELSE End(t)
  BY <1>1, <1>2, <1>7 DEF End
<1>. QED BY <1>1, <1>4, <1>5, <1>6, <1>8, <1>9 DEF Chained, Once

\* A handle goes behind a list, as in ar_addquery() and in the dispatcher's send.
LEMMA Behind ==
    ASSUME NEW nx, NEW s, Chained(nx, s), NEW h \in Handles \ Elems(s), NEW to, to[h] = Null,
           \A x \in Elems(s) \ {End(s)} : to[x] = nx[x],
           s # <<>> => to[End(s)] = h
    PROVE  /\ Chained(to, Append(s, h)) /\ Elems(Append(s, h)) = Elems(s) \cup {h}
           /\ Start(Append(s, h)) = IF s = <<>> THEN h ELSE Start(s)
           /\ End(Append(s, h)) = h
<1>. DEFINE t == <<h>>
<1>1. /\ Chained(to, t) /\ Elems(t) = {h} /\ Start(t) = h /\ End(t) = h /\ t # <<>>
  BY SmallChains
<1>2. Append(s, h) = s \o t BY AppendIsConcat DEF Chained, Once
<1>. HIDE DEF t
<1>3. /\ Chained(to, s \o t) /\ Elems(s \o t) = Elems(s) \cup Elems(t)
      /\ Start(s \o t) = IF s = <<>> THEN Start(t) ELSE Start(s)
      /\ End(s \o t) = IF t = <<>> THEN End(s) ELSE End(t)
  BY <1>1, Join
<1>. QED BY <1>1, <1>2, <1>3

\* A handle goes in front of a list, as in ar_requery() and ar_cancelquery().
LEMMA InFront ==
    ASSUME NEW to, NEW s, Chained(to, s), NEW h \in Handles \ Elems(s), to[h] = Start(s)
    PROVE  /\ Chained(to, <<h>> \o s) /\ Elems(<<h>> \o s) = Elems(s) \cup {h}
           /\ Start(<<h>> \o s) = h
           /\ End(<<h>> \o s) = IF s = <<>> THEN h ELSE End(s)
<1>. DEFINE t == <<h>>
<1>1. PICK lone : lone = [x \in Handles |-> Null] OBVIOUS
<1>2. /\ Chained(lone, t) /\ Elems(t) = {h} /\ Start(t) = h /\ End(t) = h /\ t # <<>>
  BY <1>1, SmallChains
<1>. HIDE DEF t
<1>3. /\ Chained(to, t \o s) /\ Elems(t \o s) = Elems(t) \cup Elems(s)
      /\ Start(t \o s) = IF t = <<>> THEN Start(s) ELSE Start(t)
      /\ End(t \o s) = IF s = <<>> THEN End(t) ELSE End(s)
  BY <1>2, Join
<1>. QED BY <1>2, <1>3 DEF t

\* The head of a list is taken off.
LEMMA Pop ==
    ASSUME NEW nx, NEW s, Chained(nx, s), s # <<>>
    PROVE  /\ Chained(nx, Tail(s)) /\ Elems(Tail(s)) = Elems(s) \ {Start(s)}
           /\ nx[Start(s)] = Start(Tail(s)) /\ Head(s) = Start(s)
           /\ End(Tail(s)) = IF nx[Start(s)] = Null THEN Null ELSE End(s)
<1>. DEFINE u == Tail(s)
<1>1. /\ s \in Seq(Handles) /\ Len(s) \in Nat \ {0} /\ DOMAIN s = 1..Len(s)
      /\ \A i \in 1..Len(s) : s[i] # Null
  BY ChainFacts
<1>2. /\ u \in Seq(Handles) /\ Len(u) = Len(s) - 1 /\ DOMAIN u = 1..Len(u)
      /\ \A i \in 1..Len(u) : u[i] = s[i + 1]
      /\ Head(s) = s[1] /\ (u = <<>> <=> Len(s) = 1)
  BY <1>1
<1>3. Chained(nx, u) BY <1>1, <1>2 DEF Chained, Once
<1>4. Elems(u) = Elems(s) \ {s[1]}
  <2>1. \A i \in 2..Len(s) : i - 1 \in 1..Len(u) /\ u[i - 1] = s[i] /\ s[i] # s[1]
    BY <1>1, <1>2 DEF Chained, Once
  <2>2. \A i \in 1..Len(u) : i + 1 \in 2..Len(s) /\ u[i] = s[i + 1]
    BY <1>1, <1>2
  <2>3. Elems(u) \subseteq Elems(s) \ {s[1]} BY <1>1, <1>2, <2>1, <2>2 DEF Elems
  <2>4. Elems(s) \ {s[1]} \subseteq Elems(u)
    <3>1. ASSUME NEW i \in DOMAIN s, s[i] # s[1] PROVE s[i] \in Elems(u)
      <4>1. i \in 2..Len(s) BY <1>1, <3>1
      <4>2. i - 1 \in DOMAIN u /\ s[i] = u[i - 1] BY <1>2, <2>1, <4>1
      <4>. QED BY <4>2 DEF Elems
    <3>. QED BY <3>1 DEF Elems
  <2>. QED BY <2>3, <2>4
<1>5. nx[s[1]] = Start(u) BY <1>1, <1>2 DEF Chained, Once, Start
<1>6. End(u) = IF nx[s[1]] = Null THEN Null ELSE End(s)
  BY <1>1, <1>2, <1>5 DEF Start, End
<1>. QED BY <1>1, <1>2, <1>3, <1>4, <1>5, <1>6 DEF Start

\* An element is taken out; its predecessor takes over its link.
LEMMA Drop ==
    ASSUME NEW nx, NEW s, Chained(nx, s), NEW k \in DOMAIN s, NEW to,
           \A h \in Elems(s) : h # s[k] /\ (k = 1 \/ h # s[k - 1]) => to[h] = nx[h],
           k > 1 => to[s[k - 1]] = nx[s[k]]
    PROVE  /\ Chained(to, RemoveAt(s, k)) /\ Elems(RemoveAt(s, k)) = Elems(s) \ {s[k]}
           /\ Start(RemoveAt(s, k)) = IF k = 1 THEN nx[s[k]] ELSE Start(s)
           /\ End(RemoveAt(s, k)) = IF nx[s[k]] # Null THEN End(s)
                                    ELSE IF k = 1 THEN Null ELSE s[k - 1]
           /\ nx[s[k]] = Null <=> s[k] = End(s)
<1>. DEFINE u == RemoveAt(s, k)
            a == SubSeq(s, 1, k - 1)
            b == SubSeq(s, k + 1, Len(s))
<1>1. /\ s \in Seq(Handles) /\ Len(s) \in Nat \ {0} /\ DOMAIN s = 1..Len(s)
      /\ \A i \in 1..Len(s) : s[i] # Null
      /\ k \in 1..Len(s)
  BY ChainFacts
<1>2. /\ a \in Seq(Handles) /\ Len(a) = k - 1
      /\ \A i \in 1..(k - 1) : a[i] = s[i]
  BY <1>1
<1>3. /\ b \in Seq(Handles) /\ Len(b) = Len(s) - k
      /\ \A i \in 1..(Len(s) - k) : b[i] = s[k + i]
  BY <1>1
<1>4. /\ a \o b \in Seq(Handles) /\ Len(a \o b) = Len(a) + Len(b)
      /\ \A i \in 1..(Len(a) + Len(b)) :
            (a \o b)[i] = IF i <= Len(a) THEN a[i] ELSE b[i - Len(a)]
  BY <1>2, <1>3, ConcatProperties
<1>5. u = a \o b BY DEF RemoveAt
<1>. HIDE DEF u, a, b
<1>6. /\ u \in Seq(Handles) /\ Len(u) = Len(s) - 1 /\ DOMAIN u = 1..Len(u)
      /\ (u = <<>> <=> Len(u) = 0)
  <2>1. u \in Seq(Handles) /\ Len(u) = (k - 1) + (Len(s) - k) BY <1>2, <1>3, <1>4, <1>5
  <2>2. Len(u) = Len(s) - 1 BY <1>1, <2>1
  <2>. QED BY <2>1, <2>2, LenProperties, EmptySeq
<1>7. \A i \in 1..Len(u) : u[i] = IF i < k THEN s[i] ELSE s[i + 1]
  <2>. TAKE i \in 1..Len(u)
  <2>1. CASE i < k
    <3>1. i \in 1..(k - 1) /\ i <= Len(a) /\ i \in 1..(Len(a) + Len(b))
      BY <1>1, <1>2, <1>3, <1>6, <2>1
    <3>. QED BY <1>2, <1>4, <1>5, <2>1, <3>1
  <2>2. CASE ~(i < k)
    <3>0. /\ i \in Int /\ k \in Int /\ Len(s) \in Int /\ 1 <= i /\ i <= Len(s) - 1
          /\ Len(a) = k - 1 /\ Len(b) = Len(s) - k
      BY <1>1, <1>2, <1>3, <1>6
    <3>1. /\ i - Len(a) \in 1..(Len(s) - k) /\ ~(i <= Len(a)) /\ i \in 1..(Len(a) + Len(b))
          /\ k + (i - Len(a)) = i + 1
      <4>1. i - Len(a) = i - (k - 1) /\ Len(a) + Len(b) = Len(s) - 1 BY <3>0
      <4>2. i - (k - 1) \in 1..(Len(s) - k) BY <2>2, <3>0
      <4>3. ~(i <= k - 1) BY <2>2, <3>0
      <4>5. k + (i - (k - 1)) = i + 1 BY <3>0
      <4>4. i \in 1..(Len(s) - 1) BY <3>0
      <4>. QED BY <3>0, <4>1, <4>2, <4>3, <4>4, <4>5
    <3>2. b[i - Len(a)] = s[i + 1] BY <1>3, <3>1
    <3>. QED BY <1>4, <1>5, <2>2, <3>1, <3>2
  <2>. QED BY <2>1, <2>2
<1>8. \A i, j \in 1..Len(u) : u[i] = u[j] => i = j
  <2>. TAKE i, j \in 1..Len(u)
  <2>. HAVE u[i] = u[j]
  <2>1. PICK i1, j1 \in 1..Len(s) : /\ u[i] = s[i1] /\ i1 = IF i < k THEN i ELSE i + 1
                                    /\ u[j] = s[j1] /\ j1 = IF j < k THEN j ELSE j + 1
    BY <1>1, <1>6, <1>7
  <2>2. s[i1] = s[j1] BY <2>1
  <2>3. i1 = j1 BY <2>2 DEF Chained, Once
  <2>. QED BY <1>1, <1>6, <2>1, <2>3
<1>9. \A i \in 1..Len(u) : to[u[i]] = IF i < Len(u) THEN u[i + 1] ELSE Null
  <2>. TAKE i \in 1..Len(u)
  <2>0. i \in Int /\ k \in Int BY <1>1, <1>6
  <2>1. CASE i < k - 1
    <3>1. /\ i \in 1..Len(s) /\ k - 1 \in 1..Len(s) /\ i # k /\ i # k - 1 /\ u[i] = s[i]
          /\ i < Len(u) /\ i + 1 \in 1..Len(u) /\ u[i + 1] = s[i + 1] /\ i < Len(s)
      BY <1>1, <1>6, <1>7, <2>1
    <3>2. s[i] \in Elems(s) /\ s[i] # s[k] /\ s[i] # s[k - 1]
      BY <1>1, <3>1 DEF Chained, Once, Elems
    <3>. QED BY <1>1, <3>1, <3>2 DEF Chained, Once
  <2>2. CASE i = k - 1
    <3>1. /\ k > 1 /\ u[i] = s[k - 1]
          /\ i < Len(u) <=> k < Len(s)
          /\ k < Len(s) => i + 1 \in 1..Len(u) /\ u[i + 1] = s[k + 1]
      BY <1>1, <1>6, <1>7, <2>2
    <3>2. to[s[k - 1]] = nx[s[k]] BY <3>1
    <3>3. nx[s[k]] = IF k < Len(s) THEN s[k + 1] ELSE Null BY <1>1 DEF Chained, Once
    <3>. QED BY <3>1, <3>2, <3>3
  <2>3. CASE i >= k
    <3>1. /\ i + 1 \in 1..Len(s) /\ i + 1 # k /\ u[i] = s[i + 1]
          /\ i < Len(u) <=> i + 1 < Len(s)
          /\ i < Len(u) => i + 1 \in 1..Len(u) /\ u[i + 1] = s[(i + 1) + 1]
          /\ k > 1 => k - 1 \in 1..Len(s) /\ k - 1 # i + 1
      BY <1>1, <1>6, <1>7, <2>3
    <3>2. s[i + 1] \in Elems(s) /\ s[i + 1] # s[k] /\ (k = 1 \/ s[i + 1] # s[k - 1])
      BY <1>1, <3>1 DEF Chained, Once, Elems
    <3>3. nx[s[i + 1]] = IF i + 1 < Len(s) THEN s[(i + 1) + 1] ELSE Null
      BY <3>1 DEF Chained, Once
    <3>. QED BY <3>1, <3>2, <3>3
  <2>4. i < k - 1 \/ i = k - 1 \/ i >= k BY <2>0
  <2>. QED BY <2>1, <2>2, <2>3, <2>4
<1>10. Elems(u) = Elems(s) \ {s[k]}
  <2>1. ASSUME NEW i \in DOMAIN u PROVE u[i] \in Elems(s) /\ u[i] # s[k]
    <3>1. PICK j \in 1..Len(s) : u[i] = s[j] /\ j # k BY <1>1, <1>6, <1>7, <2>1
    <3>. QED BY <1>1, <3>1 DEF Chained, Once, Elems
  <2>2. ASSUME NEW i \in DOMAIN s, s[i] # s[k] PROVE s[i] \in Elems(u)
    <3>1. i \in Int /\ k \in Int /\ i # k BY <1>1, <2>2
    <3>2. CASE i < k
      <4>1. i \in DOMAIN u /\ u[i] = s[i] BY <1>1, <1>6, <1>7, <3>2
      <4>. QED BY <4>1 DEF Elems
    <3>3. CASE i > k
      <4>1. i - 1 \in DOMAIN u /\ u[i - 1] = s[i] BY <1>1, <1>6, <1>7, <3>3
      <4>. QED BY <4>1 DEF Elems
    <3>. QED BY <3>1, <3>2, <3>3
  <2>. QED BY <2>1, <2>2 DEF Elems
<1>11. nx[s[k]] = IF k < Len(s) THEN s[k + 1] ELSE Null BY <1>1 DEF Chained, Once
<1>12. k < Len(s) <=> nx[s[k]] # Null BY <1>1, <1>11
<1>13. Start(u) = IF k = 1 THEN nx[s[k]] ELSE Start(s)
  BY <1>1, <1>6, <1>7, <1>11 DEF Start
<1>14. End(u) = IF nx[s[k]] # Null THEN End(s) ELSE IF k = 1 THEN Null ELSE s[k - 1]
  BY <1>1, <1>6, <1>7, <1>12 DEF End
<1>15. nx[s[k]] = Null <=> s[k] = End(s) BY <1>1, <1>12 DEF Chained, Once, End
<1>. QED BY <1>6, <1>8, <1>9, <1>10, <1>13, <1>14, <1>15 DEF Chained, Once, u

\* What ar_requery() and ar_cancelquery() do to the links for a handle h behind last.
Relinked(nx, h, last, v) ==
    [x \in Handles |-> CASE x = h    -> v
                         [] x = last -> nx[h]
                         [] OTHER    -> nx[x]]

\* Taking a handle out of the middle, front or end of a list.
LEMMA Cut ==
    ASSUME NEW nx \in Links, NEW s, Chained(nx, s), NEW k \in DOMAIN s,
           NEW last, last = IF k = 1 THEN Null ELSE s[k - 1],
           NEW v \in Handles \cup {Null}, NEW to, to = Relinked(nx, s[k], last, v)
    PROVE  /\ to \in Links /\ to[s[k]] = v
           /\ \A x \in Handles \ Elems(s) : to[x] = nx[x]
           /\ Chained(to, RemoveAt(s, k)) /\ Elems(RemoveAt(s, k)) = Elems(s) \ {s[k]}
           /\ Start(RemoveAt(s, k)) = IF last = Null THEN nx[s[k]] ELSE Start(s)
           /\ End(RemoveAt(s, k)) = IF last = Null
                                    THEN IF nx[s[k]] = Null THEN Null ELSE End(s)
                                    ELSE IF End(s) = s[k] THEN last ELSE End(s)
           /\ s[k] \in Elems(s) /\ s[k] \in Handles
<1>1. /\ DOMAIN s = 1..Len(s) /\ Len(s) \in Nat /\ s[k] \in Elems(s) /\ s[k] \in Handles
      /\ Elems(s) \subseteq Handles
  BY ChainFacts
<1>2. CASE k = 1
  <2>1. last = Null BY <1>2
  <2>2. /\ to \in Links /\ to[s[k]] = v
        /\ \A x \in Handles \ {s[k]} : to[x] = nx[x]
    BY <1>1, <2>1, ArListsAssumption DEF Relinked, Links
  <2>3. \A x \in Elems(s) : x # s[k] /\ (k = 1 \/ x # s[k - 1]) => to[x] = nx[x]
    BY <1>1, <2>2
  <2>4. ~(k > 1) BY <1>2
  <2>5. /\ Chained(to, RemoveAt(s, k)) /\ Elems(RemoveAt(s, k)) = Elems(s) \ {s[k]}
        /\ Start(RemoveAt(s, k)) = nx[s[k]]
        /\ End(RemoveAt(s, k)) = IF nx[s[k]] # Null THEN End(s) ELSE Null
    BY <1>2, <2>3, <2>4, Drop
  <2>. QED BY <1>1, <2>1, <2>2, <2>5
<1>3. CASE k # 1
  <2>1. /\ k - 1 \in 1..Len(s) /\ last = s[k - 1] /\ last \in Elems(s) /\ k > 1
        /\ last \in Handles /\ last # Null
    BY <1>1, <1>3, ChainFacts
  <2>2. last # s[k] BY <1>1, <2>1 DEF Chained, Once
  <2>3. nx[s[k]] \in Handles \cup {Null} BY <1>1 DEF Links
  <2>4. /\ to \in Links /\ to[s[k]] = v /\ to[last] = nx[s[k]]
        /\ \A x \in Handles \ {s[k], last} : to[x] = nx[x]
    BY <1>1, <2>1, <2>2, <2>3 DEF Relinked, Links
  <2>5. \A x \in Elems(s) : x # s[k] /\ (k = 1 \/ x # s[k - 1]) => to[x] = nx[x]
    BY <1>1, <1>3, <2>1, <2>4
  <2>6. to[s[k - 1]] = nx[s[k]] BY <2>1, <2>4
  <2>7. /\ Chained(to, RemoveAt(s, k)) /\ Elems(RemoveAt(s, k)) = Elems(s) \ {s[k]}
        /\ Start(RemoveAt(s, k)) = Start(s)
        /\ End(RemoveAt(s, k)) = IF nx[s[k]] # Null THEN End(s) ELSE last
        /\ nx[s[k]] = Null <=> s[k] = End(s)
    BY <1>3, <2>1, <2>5, <2>6, Drop
  <2>. QED BY <1>1, <2>1, <2>4, <2>7
<1>. QED BY <1>2, <1>3

-----------------------------------------------------------------------------
(* The steps.                                                              *)

Walks ==
    \A p, q, r : Lists(p, q, r) =>
        /\ Walk(phead) = p /\ Walk(qhead) = q /\ Walk(rhead) = r
        /\ OnList(phead) = Elems(p) /\ OnList(qhead) = Elems(q) /\ OnList(rhead) = Elems(r)

\* Walk finds the three sequences.
LEMMA Found == Walks
<1>. USE DEF Walks
<1>. TAKE p, q, r
<1>. HAVE Lists(p, q, r)
<1>1. Walk(phead) = p /\ Walk(qhead) = q /\ Walk(rhead) = r BY Walked DEF Lists
<1>. QED BY <1>1 DEF OnList, Elems

\* The element in front of another, as the searches of ar_requery() and
\* ar_cancelquery() leave it in "last".
LEMMA Predecessor ==
    ASSUME NEW s, NEW x, Chained(next, s), Walk(x) = s, NEW k \in DOMAIN s
    PROVE  Before(x, s[k]) = IF k = 1 THEN Null ELSE s[k - 1]
<1>1. s \in Seq(Handles) /\ Len(s) \in Nat /\ DOMAIN s = 1..Len(s) /\ k \in 1..Len(s)
  BY ChainFacts
<1>2. CASE k = 1 BY <1>1, <1>2 DEF Before
<1>3. CASE k # 1
  <2>1. s[1] # s[k] BY <1>1, <1>3 DEF Chained, Once
  <2>. DEFINE w == Walk(x)
  <2>2. k - 1 \in DOMAIN w /\ k - 1 < Len(w) /\ w[(k - 1) + 1] = s[k] BY <1>1, <1>3
  <2>3. \A i \in DOMAIN w : i < Len(w) /\ w[i + 1] = s[k] => i = k - 1
    <3>. TAKE i \in DOMAIN w
    <3>. HAVE i < Len(w) /\ w[i + 1] = s[k]
    <3>1. i + 1 \in 1..Len(s) BY <1>1
    <3>2. i + 1 = k BY <1>1, <3>1 DEF Chained, Once
    <3>. QED BY <1>1, <3>2
  <2>4. (CHOOSE i \in DOMAIN w : i < Len(w) /\ w[i + 1] = s[k]) = k - 1
    <3>. HIDE DEF w
    <3>. QED BY <2>2, <2>3
  <2>5. Before(x, s[k]) =
          IF w[1] = s[k] THEN Null
          ELSE w[CHOOSE i \in DOMAIN w : i < Len(w) /\ w[i + 1] = s[k]]
    BY DEF Before
  <2>6. w = s OBVIOUS
  <2>. HIDE DEF w
  <2>7. Before(x, s[k]) = w[k - 1] BY <2>1, <2>4, <2>5, <2>6
  <2>. QED BY <1>3, <2>6, <2>7
<1>. QED BY <1>2, <1>3

\* What a step has to show: the sequences after it.
LEMMA Kept ==
    ASSUME NEW p, NEW q, NEW r, TypeOK', Lists(p, q, r)'
    PROVE  IInv' /\ Walk(phead)' = p /\ Walk(qhead)' = q /\ Walk(rhead)' = r
<1>1. Walks' BY Found, PTL
<1>2. p \in Seq(Handles) /\ q \in Seq(Handles) /\ r \in Seq(Handles)
  BY DEF Lists, Chained, Once
<1>3. Walk(phead)' = p /\ Walk(qhead)' = q /\ Walk(rhead)' = r BY <1>1 DEF Walks
<1>. QED BY <1>2, <1>3 DEF IInv

\* A recycled handle leaves its list.
LEMMA TakeRecycledOK ==
    ASSUME NEW p, NEW q, NEW r, TypeOK, Lists(p, q, r), TakeRecycled
    PROVE  IInv' /\ Queues!Next
<1>1. r # <<>> /\ Start(r) \in Elems(r) /\ Elems(r) \subseteq Handles
  BY ChainFacts DEF Lists, TakeRecycled, Start
<1>2. TypeOK' BY <1>1 DEF TypeOK, TakeRecycled, Lists
<1>3. Lists(p, q, Tail(r))'
  <2>1. /\ Chained(next, Tail(r)) /\ Elems(Tail(r)) = Elems(r) \ {Start(r)}
        /\ next[Start(r)] = Start(Tail(r))
    BY <1>1, Pop DEF Lists
  <2>. QED BY <1>1, <2>1 DEF Lists, TakeRecycled
<1>4. Walk(phead) = p /\ Walk(qhead) = q /\ Walk(rhead) = r BY Found DEF Walks
<1>5. IInv' /\ Walk(phead)' = p /\ Walk(qhead)' = q /\ Walk(rhead)' = Tail(r)
  BY <1>2, <1>3, Kept
<1>6. Queues!Take BY <1>1, <1>4, <1>5 DEF Queues!Take
<1>. QED BY <1>5, <1>6 DEF Queues!Next

\* A new handle is on no list.
LEMMA TakeNewOK ==
    ASSUME NEW p, NEW q, NEW r, TypeOK, Lists(p, q, r), NEW h \in Handles, TakeNew(h)
    PROVE  IInv' /\ UNCHANGED Queues!vars
<1>1. h \notin Elems(p) \cup Elems(q) \cup Elems(r)
  BY Found DEF TakeNew, Fresh, Walks
<1>2. TypeOK' BY DEF TypeOK, TakeNew
<1>3. Lists(p, q, r)' BY <1>1 DEF Lists, TakeNew
<1>. QED BY <1>2, <1>3, Kept, Found DEF Queues!vars, Walks

\* ar_addquery() puts a handle behind the pending ones.
LEMMA EnqueueOK ==
    ASSUME NEW p, NEW q, NEW r, TypeOK, Lists(p, q, r), NEW h \in Handles, Enqueue(h)
    PROVE  IInv' /\ Queues!Next
<1>1. /\ p \in Seq(Handles) /\ Elems(p) \subseteq Handles /\ (Start(p) = Null <=> p = <<>>)
      /\ p # <<>> => End(p) \in Elems(p)
  BY ChainFacts DEF Lists
<1>2. h \notin Elems(p) \cup Elems(q) \cup Elems(r) BY DEF Enqueue, Lists
<1>3. /\ next' \in Links /\ next'[h] = Null
      /\ \A x \in Handles \ {h, End(p)} : next'[x] = next[x]
      /\ p # <<>> => next'[End(p)] = h
  BY <1>1, <1>2 DEF Enqueue, Lists, TypeOK, Links
<1>4. TypeOK' BY <1>3 DEF TypeOK, Enqueue
<1>5. PICK u : u = Append(p, h) OBVIOUS
<1>6. /\ Chained(next', u) /\ Elems(u) = Elems(p) \cup {h}
      /\ Start(u) = IF p = <<>> THEN h ELSE Start(p)
      /\ End(u) = h
  <2>1. \A x \in Elems(p) \ {End(p)} : next'[x] = next[x] BY <1>1, <1>2, <1>3
  <2>. QED BY <1>2, <1>3, <1>5, <2>1, Behind DEF Lists
<1>7. Chained(next', q) /\ Chained(next', r)
  <2>1. /\ Elems(q) \subseteq Handles /\ Elems(r) \subseteq Handles
        /\ p = <<>> => End(p) = Null
    BY ChainFacts DEF Lists, End
  <2>2. \A x \in Elems(q) \cup Elems(r) : next'[x] = next[x]
    BY <1>1, <1>2, <1>3, <2>1, ArListsAssumption DEF Lists
  <2>. QED BY <2>2, SameChain DEF Lists
<1>8. Lists(u, q, r)' BY <1>1, <1>2, <1>6, <1>7 DEF Lists, Enqueue
<1>9. Walk(phead) = p /\ Walk(qhead) = q /\ Walk(rhead) = r BY Found DEF Walks
<1>10. IInv' /\ Walk(phead)' = u /\ Walk(qhead)' = q /\ Walk(rhead)' = r
  BY <1>4, <1>8, Kept
<1>11. ~Queues!Contains(Queues!All, h)
  <2>1. q \in Seq(Handles) /\ r \in Seq(Handles) BY DEF Lists, Chained, Once
  <2>2. Elems(p \o q \o r) = Elems(p) \cup Elems(q) \cup Elems(r)
    <3>1. p \o q \in Seq(Handles) /\ Elems(p \o q) = Elems(p) \cup Elems(q)
      BY <1>1, <2>1, ElemsConcat, ConcatProperties
    <3>. QED BY <2>1, <3>1, ElemsConcat
  <2>3. p \o q \o r \in Seq(Handles) BY <1>1, <2>1, ConcatProperties
  <2>4. ~Queues!Contains(p \o q \o r, h) BY <1>2, <2>2, <2>3 DEF Queues!Contains, Elems
  <2>5. Queues!All = p \o q \o r BY <1>9 DEF Queues!All
  <2>. QED BY <2>4, <2>5
<1>12. Queues!Enqueue(h) BY <1>5, <1>9, <1>10, <1>11 DEF Queues!Enqueue
<1>. QED BY <1>10, <1>12 DEF Queues!Next

\* The dispatcher takes the first pending query and puts it behind the active ones.
LEMMA SendOK ==
    ASSUME NEW p, NEW q, NEW r, TypeOK, Lists(p, q, r), Send
    PROVE  IInv' /\ Queues!Next
<1>. DEFINE h == Start(p)
<1>1. /\ p # <<>> /\ h \in Elems(p) /\ Elems(p) \subseteq Handles /\ h \in Handles
      /\ q \in Seq(Handles) /\ Elems(q) \subseteq Handles /\ Elems(r) \subseteq Handles
      /\ (End(q) = Null <=> q = <<>>)
      /\ q # <<>> => End(q) \in Elems(q)
  BY ChainFacts DEF Lists, Send, Start
<1>2. h \notin Elems(q) \cup Elems(r) BY <1>1 DEF Lists
<1>3. /\ next' \in Links /\ next'[h] = Null
      /\ \A x \in Handles \ {h, End(q)} : next'[x] = next[x]
      /\ q # <<>> => next'[End(q)] = h
  BY <1>1, <1>2 DEF Send, Lists, TypeOK, Links
<1>4. TypeOK' BY <1>3 DEF TypeOK, Send
<1>5. /\ Chained(next, Tail(p)) /\ Elems(Tail(p)) = Elems(p) \ {h}
      /\ next[h] = Start(Tail(p)) /\ Head(p) = h
      /\ End(Tail(p)) = IF next[h] = Null THEN Null ELSE End(p)
  BY <1>1, Pop DEF Lists
<1>6. PICK u : u = Append(q, h) OBVIOUS
<1>7. /\ Chained(next', u) /\ Elems(u) = Elems(q) \cup {h}
      /\ Start(u) = IF q = <<>> THEN h ELSE Start(q)
      /\ End(u) = h
  <2>1. \A x \in Elems(q) \ {End(q)} : next'[x] = next[x] BY <1>1, <1>2, <1>3
  <2>. QED BY <1>1, <1>2, <1>3, <1>6, <2>1, Behind DEF Lists
<1>8. Chained(next', Tail(p)) /\ Chained(next', r)
  <2>1. \A x \in Elems(Tail(p)) \cup Elems(r) : next'[x] = next[x]
    BY <1>1, <1>2, <1>3, <1>5, ArListsAssumption DEF Lists
  <2>. QED BY <1>5, <2>1, SameChain DEF Lists
<1>9. Lists(Tail(p), u, r)' BY <1>1, <1>2, <1>5, <1>7, <1>8 DEF Lists, Send
<1>10. Walk(phead) = p /\ Walk(qhead) = q /\ Walk(rhead) = r BY Found DEF Walks
<1>11. IInv' /\ Walk(phead)' = Tail(p) /\ Walk(qhead)' = u /\ Walk(rhead)' = r
  BY <1>4, <1>9, Kept
<1>12. Queues!Send BY <1>1, <1>5, <1>6, <1>10, <1>11 DEF Queues!Send
<1>. QED BY <1>11, <1>12 DEF Queues!Next

\* ar_requeue(): the active list in front of the pending one.
LEMMA RequeueOK ==
    ASSUME NEW p, NEW q, NEW r, TypeOK, Lists(p, q, r), Requeue
    PROVE  IInv' /\ Queues!Next
<1>1. /\ q # <<>> /\ End(q) \in Elems(q) /\ Elems(q) \subseteq Handles
      /\ Elems(p) \subseteq Handles /\ Elems(r) \subseteq Handles
      /\ (Start(p) = Null <=> p = <<>>) /\ (p # <<>> => Start(p) \in Handles)
  BY ChainFacts DEF Lists, Requeue, Start
<1>2. next[End(q)] = Null
  <2>1. Len(q) \in 1..Len(q) /\ ~(Len(q) < Len(q)) BY <1>1, ChainFacts DEF Lists
  <2>. QED BY <1>1, <2>1 DEF Lists, Chained, Once, End
<1>3. /\ next' \in Links /\ next'[End(q)] = Start(p)
      /\ \A x \in Handles \ {End(q)} : next'[x] = next[x]
  BY <1>1, <1>2 DEF Requeue, Lists, TypeOK, Links
<1>4. TypeOK' BY <1>3 DEF TypeOK, Requeue
<1>5. Chained(next', p) /\ Chained(next', r)
  <2>1. \A x \in Elems(p) \cup Elems(r) : next'[x] = next[x]
    BY <1>1, <1>3 DEF Lists
  <2>. QED BY <2>1, SameChain DEF Lists
<1>6. /\ Chained(next', q \o p) /\ Elems(q \o p) = Elems(q) \cup Elems(p)
      /\ Start(q \o p) = IF q = <<>> THEN Start(p) ELSE Start(q)
      /\ End(q \o p) = IF p = <<>> THEN End(q) ELSE End(p)
  <2>1. Chained(next, q) /\ Elems(q) \cap Elems(p) = {} BY DEF Lists
  <2>2. \A x \in Elems(q) \ {End(q)} : next'[x] = next[x] BY <1>1, <1>3
  <2>. QED BY <1>3, <1>5, <2>1, <2>2, Join
<1>7. Lists(q \o p, <<>>, r)'
  BY <1>1, <1>5, <1>6, SmallChains DEF Lists, Requeue
<1>8. Walk(phead) = p /\ Walk(qhead) = q /\ Walk(rhead) = r BY Found DEF Walks
<1>9. IInv' /\ Walk(phead)' = q \o p /\ Walk(qhead)' = <<>> /\ Walk(rhead)' = r
  BY <1>4, <1>7, Kept
<1>10. Queues!Requeue BY <1>8, <1>9 DEF Queues!Requeue
<1>. QED BY <1>9, <1>10 DEF Queues!Next

\* ar_alldead(): the pending list behind the active one.
LEMMA AllDeadOK ==
    ASSUME NEW p, NEW q, NEW r, TypeOK, Lists(p, q, r), AllDead
    PROVE  IInv' /\ Queues!Next
<1>1. /\ p # <<>> /\ Start(p) \in Handles
      /\ Elems(q) \subseteq Handles /\ Elems(p) \subseteq Handles /\ Elems(r) \subseteq Handles
      /\ (End(q) = Null <=> q = <<>>) /\ (q # <<>> => End(q) \in Elems(q))
  BY ChainFacts DEF Lists, AllDead, Start
<1>2. /\ next' \in Links /\ (q # <<>> => next'[End(q)] = Start(p))
      /\ \A x \in Handles \ {End(q)} : next'[x] = next[x]
  BY <1>1 DEF AllDead, Lists, TypeOK, Links
<1>3. TypeOK' BY <1>2 DEF TypeOK, AllDead
<1>4. Chained(next', p) /\ Chained(next', r)
  <2>1. \A x \in Elems(p) \cup Elems(r) : next'[x] = next[x]
    BY <1>1, <1>2, ArListsAssumption DEF Lists
  <2>. QED BY <2>1, SameChain DEF Lists
<1>5. /\ Chained(next', q \o p) /\ Elems(q \o p) = Elems(q) \cup Elems(p)
      /\ Start(q \o p) = IF q = <<>> THEN Start(p) ELSE Start(q)
      /\ End(q \o p) = IF p = <<>> THEN End(q) ELSE End(p)
  <2>1. Chained(next, q) /\ Elems(q) \cap Elems(p) = {} BY DEF Lists
  <2>2. \A x \in Elems(q) \ {End(q)} : next'[x] = next[x] BY <1>1, <1>2
  <2>. QED BY <1>2, <1>4, <2>1, <2>2, Join
<1>6. Lists(<<>>, q \o p, r)'
  BY <1>1, <1>4, <1>5, SmallChains DEF Lists, AllDead, Start
<1>7. Walk(phead) = p /\ Walk(qhead) = q /\ Walk(rhead) = r BY Found DEF Walks
<1>8. IInv' /\ Walk(phead)' = <<>> /\ Walk(qhead)' = q \o p /\ Walk(rhead)' = r
  BY <1>3, <1>6, Kept
<1>9. Queues!AllDead BY <1>7, <1>8 DEF Queues!AllDead
<1>. QED BY <1>8, <1>9 DEF Queues!Next

\* ar_requery(): a query leaves the active list for the front of the pending one.
LEMMA RequeryOK ==
    ASSUME NEW p, NEW q, NEW r, TypeOK, Lists(p, q, r), NEW h \in Handles, Requery(h)
    PROVE  IInv' /\ Queues!Next
<1>1. Walk(phead) = p /\ Walk(qhead) = q /\ Walk(rhead) = r /\ OnList(qhead) = Elems(q)
  BY Found DEF Walks
<1>2. PICK k \in DOMAIN q : h = q[k] BY <1>1 DEF Requery, Elems
<1>3. PICK last : last = IF k = 1 THEN Null ELSE q[k - 1] OBVIOUS
<1>4. Before(qhead, h) = last BY <1>1, <1>2, <1>3, Predecessor DEF Lists
<1>5. next' = Relinked(next, h, last, Start(p))
  BY <1>4 DEF Requery, Relinked, Lists
<1>6. /\ Elems(p) \subseteq Handles /\ Elems(r) \subseteq Handles
      /\ Start(p) \in Handles \cup {Null} /\ (Start(p) = Null <=> p = <<>>)
  BY ChainFacts DEF Lists, Start
<1>7. PICK u, w : u = RemoveAt(q, k) /\ w = <<h>> \o p OBVIOUS
<1>8. /\ next' \in Links /\ next'[h] = Start(p)
      /\ \A x \in Handles \ Elems(q) : next'[x] = next[x]
      /\ Chained(next', u) /\ Elems(u) = Elems(q) \ {h}
      /\ Start(u) = IF last = Null THEN next[h] ELSE Start(q)
      /\ End(u) = IF last = Null THEN IF next[h] = Null THEN Null ELSE End(q)
                  ELSE IF End(q) = h THEN last ELSE End(q)
      /\ h \in Elems(q)
  BY <1>2, <1>3, <1>5, <1>6, <1>7, Cut DEF Lists, TypeOK
<1>9. Chained(next', p) /\ Chained(next', r)
  <2>1. \A x \in Elems(p) \cup Elems(r) : next'[x] = next[x]
    BY <1>6, <1>8 DEF Lists
  <2>. QED BY <2>1, SameChain DEF Lists
<1>10. /\ Chained(next', w) /\ Elems(w) = Elems(p) \cup {h} /\ Start(w) = h
       /\ End(w) = IF p = <<>> THEN h ELSE End(p)
  BY <1>7, <1>8, <1>9, InFront DEF Lists
<1>11. TypeOK' BY <1>8 DEF TypeOK, Requery
<1>12. Lists(w, u, r)'
  <2>1. /\ phead' = Start(w) /\ ptail' = End(w) /\ qhead' = Start(u) /\ qtail' = End(u)
        /\ UNCHANGED <<rhead, out>>
    BY <1>4, <1>6, <1>8, <1>10 DEF Requery, Lists
  <2>. QED BY <1>8, <1>9, <1>10, <2>1 DEF Lists
<1>13. IInv' /\ Walk(phead)' = w /\ Walk(qhead)' = u /\ Walk(rhead)' = r
  BY <1>11, <1>12, Kept
<1>14. Queues!Requery
  <2>1. u = Queues!RemoveAt(q, k) BY <1>7 DEF RemoveAt, Queues!RemoveAt
  <2>. QED BY <1>1, <1>2, <1>7, <1>13, <2>1 DEF Queues!Requery
<1>. QED BY <1>13, <1>14 DEF Queues!Next

\* ar_cancelquery() of a pending query.
LEMMA CancelPendingOK ==
    ASSUME NEW p, NEW q, NEW r, TypeOK, Lists(p, q, r), NEW h \in Handles, CancelPending(h)
    PROVE  IInv' /\ Queues!Next
<1>1. Walk(phead) = p /\ Walk(qhead) = q /\ Walk(rhead) = r /\ OnList(phead) = Elems(p)
  BY Found DEF Walks
<1>2. PICK k \in DOMAIN p : h = p[k] BY <1>1 DEF CancelPending, Elems
<1>3. PICK last : last = IF k = 1 THEN Null ELSE p[k - 1] OBVIOUS
<1>4. Before(phead, h) = last BY <1>1, <1>2, <1>3, Predecessor DEF Lists
<1>5. next' = Relinked(next, h, last, Start(r))
  BY <1>4 DEF CancelPending, Release, Relinked, Lists
<1>6. /\ Elems(q) \subseteq Handles /\ Elems(r) \subseteq Handles
      /\ Start(r) \in Handles \cup {Null}
  BY ChainFacts DEF Lists, Start
<1>7. PICK u, w : u = RemoveAt(p, k) /\ w = <<h>> \o r OBVIOUS
<1>8. /\ next' \in Links /\ next'[h] = Start(r)
      /\ \A x \in Handles \ Elems(p) : next'[x] = next[x]
      /\ Chained(next', u) /\ Elems(u) = Elems(p) \ {h}
      /\ Start(u) = IF last = Null THEN next[h] ELSE Start(p)
      /\ End(u) = IF last = Null THEN IF next[h] = Null THEN Null ELSE End(p)
                  ELSE IF End(p) = h THEN last ELSE End(p)
      /\ h \in Elems(p)
  BY <1>2, <1>3, <1>5, <1>6, <1>7, Cut DEF Lists, TypeOK
<1>9. Chained(next', q) /\ Chained(next', r)
  <2>1. \A x \in Elems(q) \cup Elems(r) : next'[x] = next[x]
    BY <1>6, <1>8 DEF Lists
  <2>. QED BY <2>1, SameChain DEF Lists
<1>10. Chained(next', w) /\ Elems(w) = Elems(r) \cup {h} /\ Start(w) = h
  BY <1>7, <1>8, <1>9, InFront DEF Lists
<1>11. TypeOK' BY <1>8 DEF TypeOK, CancelPending
<1>12. Lists(u, q, w)'
  <2>1. /\ phead' = Start(u) /\ ptail' = End(u) /\ rhead' = Start(w)
        /\ UNCHANGED <<qhead, qtail, out>>
    BY <1>4, <1>6, <1>8, <1>10 DEF CancelPending, Release, Lists
  <2>. QED BY <1>8, <1>9, <1>10, <2>1 DEF Lists
<1>13. IInv' /\ Walk(phead)' = u /\ Walk(qhead)' = q /\ Walk(rhead)' = w
  BY <1>11, <1>12, Kept
<1>14. Queues!CancelPending
  <2>1. u = Queues!RemoveAt(p, k) BY <1>7 DEF RemoveAt, Queues!RemoveAt
  <2>. QED BY <1>1, <1>2, <1>7, <1>13, <2>1 DEF Queues!CancelPending
<1>. QED BY <1>13, <1>14 DEF Queues!Next

\* ar_cancelquery() of an active query.
LEMMA CancelActiveOK ==
    ASSUME NEW p, NEW q, NEW r, TypeOK, Lists(p, q, r), NEW h \in Handles, CancelActive(h)
    PROVE  IInv' /\ Queues!Next
<1>1. Walk(phead) = p /\ Walk(qhead) = q /\ Walk(rhead) = r /\ OnList(qhead) = Elems(q)
  BY Found DEF Walks
<1>2. PICK k \in DOMAIN q : h = q[k] BY <1>1 DEF CancelActive, Elems
<1>3. PICK last : last = IF k = 1 THEN Null ELSE q[k - 1] OBVIOUS
<1>4. Before(qhead, h) = last BY <1>1, <1>2, <1>3, Predecessor DEF Lists
<1>5. next' = Relinked(next, h, last, Start(r))
  BY <1>4 DEF CancelActive, Release, Relinked, Lists
<1>6. /\ Elems(p) \subseteq Handles /\ Elems(r) \subseteq Handles
      /\ Start(r) \in Handles \cup {Null}
  BY ChainFacts DEF Lists, Start
<1>7. PICK u, w : u = RemoveAt(q, k) /\ w = <<h>> \o r OBVIOUS
<1>8. /\ next' \in Links /\ next'[h] = Start(r)
      /\ \A x \in Handles \ Elems(q) : next'[x] = next[x]
      /\ Chained(next', u) /\ Elems(u) = Elems(q) \ {h}
      /\ Start(u) = IF last = Null THEN next[h] ELSE Start(q)
      /\ End(u) = IF last = Null THEN IF next[h] = Null THEN Null ELSE End(q)
                  ELSE IF End(q) = h THEN last ELSE End(q)
      /\ h \in Elems(q)
  BY <1>2, <1>3, <1>5, <1>6, <1>7, Cut DEF Lists, TypeOK
<1>9. Chained(next', p) /\ Chained(next', r)
  <2>1. \A x \in Elems(p) \cup Elems(r) : next'[x] = next[x]
    BY <1>6, <1>8 DEF Lists
  <2>. QED BY <2>1, SameChain DEF Lists
<1>10. Chained(next', w) /\ Elems(w) = Elems(r) \cup {h} /\ Start(w) = h
  BY <1>7, <1>8, <1>9, InFront DEF Lists
<1>11. TypeOK' BY <1>8 DEF TypeOK, CancelActive
<1>12. Lists(p, u, w)'
  <2>1. /\ qhead' = Start(u) /\ qtail' = End(u) /\ rhead' = Start(w)
        /\ UNCHANGED <<phead, ptail, out>>
    BY <1>4, <1>6, <1>8, <1>10 DEF CancelActive, Release, Lists
  <2>. QED BY <1>8, <1>9, <1>10, <2>1 DEF Lists
<1>13. IInv' /\ Walk(phead)' = p /\ Walk(qhead)' = u /\ Walk(rhead)' = w
  BY <1>11, <1>12, Kept
<1>14. Queues!CancelActive
  <2>1. u = Queues!RemoveAt(q, k) BY <1>7 DEF RemoveAt, Queues!RemoveAt
  <2>. QED BY <1>1, <1>2, <1>7, <1>13, <2>1 DEF Queues!CancelActive
<1>. QED BY <1>13, <1>14 DEF Queues!Next

-----------------------------------------------------------------------------
(* The theorems.                                                           *)

\* At first all lists are empty.
LEMMA InitOK == Init => IInv /\ Queues!Init
<1>. SUFFICES ASSUME Init PROVE IInv /\ Queues!Init
  OBVIOUS
<1>1. TypeOK BY DEF Init, TypeOK, Links
<1>2. Lists(<<>>, <<>>, <<>>) BY SmallChains DEF Init, Lists
<1>3. PICK e \in Seq(Handles) : e = <<>> BY EmptySeq
<1>4. IInv BY <1>1, <1>2, <1>3 DEF IInv
<1>5. Walk(phead) = e /\ Walk(qhead) = e /\ Walk(rhead) = e BY <1>2, <1>3, Found DEF Walks
<1>. QED BY <1>3, <1>4, <1>5 DEF Queues!Init

\* Every step keeps the lists, and is a step of the sequences or none.
LEMMA StepOK == IInv /\ [Next]_vars => IInv' /\ [Queues!Next]_(Queues!vars)
<1>. SUFFICES ASSUME IInv, [Next]_vars PROVE IInv' /\ [Queues!Next]_(Queues!vars)
  OBVIOUS
<1>1. PICK p, q, r \in Seq(Handles) : TypeOK /\ Lists(p, q, r) BY DEF IInv
<1>2. CASE UNCHANGED vars
  <2>1. TypeOK' /\ Lists(p, q, r)' BY <1>1, <1>2 DEF vars, TypeOK, Lists
  <2>. QED BY <1>1, <2>1, Kept, Found DEF Queues!vars, Walks
<1>3. CASE Next
  <2>1. CASE TakeRecycled BY <1>1, <2>1, TakeRecycledOK
  <2>2. CASE Send BY <1>1, <2>2, SendOK
  <2>3. CASE Requeue BY <1>1, <2>3, RequeueOK
  <2>4. CASE AllDead BY <1>1, <2>4, AllDeadOK
  <2>5. ASSUME NEW h \in Handles, TakeNew(h) PROVE IInv' /\ UNCHANGED Queues!vars
    BY <1>1, <2>5, TakeNewOK
  <2>6. ASSUME NEW h \in Handles, Enqueue(h) \/ Requery(h) \/ CancelPending(h) \/ CancelActive(h)
        PROVE  IInv' /\ Queues!Next
    BY <1>1, <2>6, EnqueueOK, RequeryOK, CancelPendingOK, CancelActiveOK
  <2>. QED BY <1>3, <2>1, <2>2, <2>3, <2>4, <2>5, <2>6 DEF Next
<1>. QED BY <1>2, <1>3

\* The lists are lists throughout.
THEOREM Inductive == Spec => []IInv
<1>. QED BY InitOK, StepOK, PTL DEF Spec

\* The surgery on q_next, heads and tails in ar_addquery(), the dispatcher,
\* ar_requery(), ar_requeue(), ar_alldead() and ar_cancelquery() does to the
\* lists what is meant: nothing is lost, doubled or reordered, for any number
\* of handles.
THEOREM Refinement == Spec => ImplementsQueues
<1>. QED BY InitOK, StepOK, PTL DEF Spec, Queues!Spec, ImplementsQueues

\* The tails are the ends of their lists, no list runs into itself or another
\* one, and a handle its caller holds is on none.
THEOREM WellLinkedAlways == Spec => []WellLinked
<1>1. IInv => WellLinked
  <2>. SUFFICES ASSUME IInv PROVE WellLinked
    OBVIOUS
  <2>1. PICK p, q, r \in Seq(Handles) : Lists(p, q, r) BY DEF IInv
  <2>2. Walk(phead) = p /\ Walk(qhead) = q /\ Walk(rhead) = r BY <2>1, Found DEF Walks
  <2>3. Ends(phead, ptail) /\ Ends(qhead, qtail)
    <3>1. ASSUME NEW s, Chained(next, s), s # <<>>
          PROVE  s[Len(s)] = End(s) /\ next[End(s)] = Null
      <4>1. Len(s) \in 1..Len(s) /\ ~(Len(s) < Len(s)) BY <3>1, ChainFacts
      <4>. QED BY <3>1, <4>1 DEF Chained, Once, End
    <3>2. (phead = Null) = (p = <<>>) /\ (ptail = Null) = (p = <<>>)
          /\ (qhead = Null) = (q = <<>>) /\ (qtail = Null) = (q = <<>>)
      BY <2>1, ChainFacts DEF Lists
    <3>. QED BY <2>1, <2>2, <3>1, <3>2 DEF Lists, Ends
  <2>. DEFINE all == p \o q \o r
  <2>4. all \in Seq(Handles) /\ Once(all) /\ Elems(all) \cap out = {}
    <3>1. /\ Once(p) /\ Once(q) /\ Once(r)
          /\ Elems(p) \cap Elems(q) = {}
          /\ (Elems(p) \cup Elems(q)) \cap Elems(r) = {}
          /\ out \cap (Elems(p) \cup Elems(q) \cup Elems(r)) = {}
      BY <2>1 DEF Lists, Chained
    <3>2. p \o q \in Seq(Handles) /\ Once(p \o q) /\ Elems(p \o q) = Elems(p) \cup Elems(q)
      BY <3>1, OnceConcat, ElemsConcat, ConcatProperties
    <3>3. /\ all \in Seq(Handles) /\ Once(all)
          /\ Elems(all) = Elems(p) \cup Elems(q) \cup Elems(r)
      BY <3>1, <3>2, OnceConcat, ElemsConcat, ConcatProperties
    <3>. QED BY <3>1, <3>3
  <2>5. \A i, j \in DOMAIN all : all[i] = all[j] => i = j BY <2>4, LenProperties DEF Once
  <2>6. \A i \in DOMAIN all : all[i] \notin out BY <2>4 DEF Elems
  <2>. QED BY <2>2, <2>3, <2>5, <2>6 DEF WellLinked
<1>. QED BY <1>1, Inductive, PTL
=============================================================================
