------------------------------ MODULE ArProofs ------------------------------
(***************************************************************************)
(* Proofs about the resolver of Ar for every number of handles, clients    *)
(* and questions, every setting of the library and every fault.  The       *)
(* inductive invariant IInv says which client owns which handle and where  *)
(* the handle is, and what a handle's packets and the caller's buffer hold *)
(* for the question it asks.                                               *)
(*                                                                         *)
(* A query that ar_sendquery() gives up keeps the q_id of an earlier       *)
(* packet, so a reply to that packet still matches it.  What is said of    *)
(* answers is therefore said of trusted handles: those not given up, or    *)
(* all where ar_sendquery() never gives up.                                *)
(*                                                                         *)
(* The last part proves that the resolver keeps the promises of ArService. *)
(***************************************************************************)
EXTENDS Ar, SequenceTheorems, TLAPS

Flags == {"INFINIWAIT", "REPLY", "NOREPLY", "ERROR"}

Links == [ask : Questions, hop : Nat]

Texts == [ask : Questions, hop : Nat, says : Contents]

Packets == [kind : {"request"}, of : Links]
           \cup [kind : {"reply"}, of : Links, says : Contents]

QueryType == [flags : SUBSET Flags, depth : Nat, tries : Nat, at : Links,
              due : BOOLEAN, late : BOOLEAN]

Outcomes == {"none", "SUCCESS", "NOREPLY", "EXPIRED", "ERROR"}

ClientType ==
    [pc : {"idle", "building", "held", "blocked", "failing", "refused"},
     h : Handles \cup {NoHandle}, ask : Questions,
     mode : {"none", "forever", "query", "call"}, res : Outcomes]

DispType ==
    [pc : {"top", "select", "read", "send", "control", "expire", "retry",
           "reconnRead", "reconnRetry", "stuck", "exited", "exitedLocked",
           "joined", "tangled"},
     ready : SUBSET {"read", "write", "control"}, write : BOOLEAN,
     q : Handles \cup {NoHandle}]

TypeOK ==
    /\ pending \in Seq(Handles) /\ active \in Seq(Handles)
    /\ recycled \subseteq Handles
    /\ query \in [Handles -> QueryType]
    /\ buf \in [Handles -> Texts \cup {<<>>}]
    /\ signalled \subseteq Handles
    /\ net \in [Handles -> SUBSET Packets]
    /\ client \in [Clients -> ClientType]
    /\ disp \in DispType
    /\ ctl \in Nat /\ closed \in BOOLEAN /\ dead \in BOOLEAN

-----------------------------------------------------------------------------
(* The parts of the invariant.                                             *)

NoTwice(s) == \A i, j \in DOMAIN s : s[i] = s[j] => i = j

\* a caller that ar_addquery() gave a handle
Accepted(c) == client[c].pc \in {"held", "blocked"}

\* a caller whose query is on a list
Owns(c) == client[c].pc \in {"held", "blocked", "failing", "refused"}

\* Who holds which handle, and where it is.
Placed ==
    /\ NoTwice(pending) /\ NoTwice(active)
    /\ ToSet(pending) \cap ToSet(active) = {}
    /\ \A c \in Clients :
        /\ client[c].h = NoHandle <=> client[c].pc = "idle"
        /\ client[c].h \in recycled => client[c].pc = "refused"
        /\ client[c].h \in Linked <=> Owns(c)
        /\ \A d \in Clients :
            client[c].h = client[d].h /\ client[c].h # NoHandle => c = d
    /\ \A h \in Linked : \E c \in Clients : client[c].h = h

\* ar_recycle() of a listed query ends what is modelled.
TangledOK == \A c \in Clients : client[c].pc = "refused" => disp.pc = "tangled"

\* A caller has an outcome only while it holds its handle.
OutcomeOK ==
    \A c \in Clients :
        /\ ~Accepted(c) => client[c].res = "none"
        /\ client[c].res = "SUCCESS" => "REPLY" \in query[client[c].h].flags
        /\ client[c].res = "EXPIRED" => query[client[c].h].late

\* QUERY_NOREPLY is set when q_timeout is over, or with QUERY_ERROR.
ExpiryOK ==
    \A h \in Handles :
        "NOREPLY" \in query[h].flags => query[h].late \/ "ERROR" \in query[h].flags

NeverGivesUp == Retries = 0 /\ Unbuildable = {}

Trusted(h) == NeverGivesUp \/ "ERROR" \notin query[h].flags

\* The end of the chain, as far as the caller wants it followed.
Final(l) == l.hop \in {Chain[l.ask], Depth} \/ l.ask \in Oversized

\* The packets and the buffer of a handle belong to the question it asks.
AnswerOK(h) ==
    /\ buf[h] # <<>> => /\ "REPLY" \in query[h].flags
                        /\ Answered(buf[h]) = query[h].at /\ Final(query[h].at)
    /\ \/ query[h].at.ask \in Oversized
       \/ query[h].at.hop + query[h].depth = Depth
    /\ query[h].at.hop <= Chain[query[h].at.ask]
    /\ h \in ToSet(active) => \A m \in net[h] : m.of = query[h].at

AnswersOK ==
    /\ \A h \in Linked : Trusted(h) => AnswerOK(h)
    /\ \A c \in Clients :
        Owns(c) /\ Trusted(client[c].h) => query[client[c].h].at.ask = client[c].ask

\* A broken connection has lost every packet, and the dispatcher that
\* reconnects has broken it or found it broken.
ConnOK ==
    /\ disp.pc \in {"reconnRead", "reconnRetry"} => conn = "down"
    /\ conn = "down" => \A h \in Handles : net[h] = {}

IInv ==
    /\ TypeOK /\ Placed /\ NoLostWakeup /\ NoLostSignal
    /\ OutcomeOK /\ ExpiryOK /\ AnswersOK /\ ConnOK

-----------------------------------------------------------------------------
(* The dispatcher's lists.                                                 *)

\* What a list holds, and when it holds nothing twice, by its indices.
LEMMA ListIndices ==
    ASSUME NEW S, NEW s \in Seq(S)
    PROVE  /\ Len(s) \in Nat /\ DOMAIN s = 1..Len(s)
           /\ ToSet(s) \subseteq S
           /\ \A x : x \in ToSet(s) <=> \E i \in 1..Len(s) : s[i] = x
           /\ NoTwice(s) <=> \A i, j \in 1..Len(s) : s[i] = s[j] => i = j
<1>1. Len(s) \in Nat /\ DOMAIN s = 1..Len(s) /\ s \in [1..Len(s) -> S]
  BY LenProperties
<1>. QED BY <1>1 DEF ToSet, NoTwice

\* Append() adds one element, which a list without duplicates did not hold.
LEMMA AppendList ==
    ASSUME NEW S, NEW s \in Seq(S), NEW x \in S
    PROVE  /\ Append(s, x) \in Seq(S)
           /\ ToSet(Append(s, x)) = ToSet(s) \cup {x}
           /\ NoTwice(s) /\ x \notin ToSet(s) => NoTwice(Append(s, x))
<1>. DEFINE t == Append(s, x)
<1>1. /\ t \in Seq(S) /\ Len(t) = Len(s) + 1 /\ Len(s) \in Nat
      /\ \A i \in 1..Len(s) : t[i] = s[i]
      /\ t[Len(s) + 1] = x
  BY AppendProperties, LenProperties
<1>. HIDE DEF t
<1>2. \A y : y \in ToSet(t) <=> y \in ToSet(s) \cup {x}
  BY <1>1, ListIndices
<1>3. NoTwice(s) /\ x \notin ToSet(s) => NoTwice(t)
  BY <1>1, ListIndices
<1>. QED BY <1>1, <1>2, <1>3 DEF t

\* The head of a list without duplicates is not in its tail.
LEMMA TailList ==
    ASSUME NEW S, NEW s \in Seq(S), s # <<>>
    PROVE  /\ Head(s) \in S /\ Head(s) \in ToSet(s) /\ Tail(s) \in Seq(S)
           /\ NoTwice(s) => /\ NoTwice(Tail(s))
                            /\ ToSet(Tail(s)) = ToSet(s) \ {Head(s)}
<1>. DEFINE t == Tail(s)
<1>1. /\ Head(s) \in S /\ t \in Seq(S) /\ Len(t) = Len(s) - 1
      /\ Len(s) \in Nat \ {0} /\ Head(s) = s[1]
      /\ \A i \in 1..Len(t) : t[i] = s[i + 1]
  BY HeadTailProperties, EmptySeq
<1>. HIDE DEF t
<1>2. Head(s) \in ToSet(s) BY <1>1, ListIndices
<1>3. ASSUME NoTwice(s) PROVE NoTwice(t) /\ ToSet(t) = ToSet(s) \ {Head(s)}
  <2>1. NoTwice(t) BY <1>1, <1>3, ListIndices, SMTT(30)
  <2>2. ASSUME NEW y \in ToSet(t) PROVE y \in ToSet(s) /\ y # Head(s)
    <3>1. PICK i \in 1..Len(t) : t[i] = y BY <1>1, <2>2, ListIndices
    <3>2. i + 1 \in 1..Len(s) /\ s[i + 1] = y /\ i + 1 # 1 /\ 1 \in 1..Len(s)
      BY <1>1, <3>1
    <3>. QED BY <1>1, <1>3, <3>2, ListIndices
  <2>3. ASSUME NEW y \in ToSet(s), y # Head(s) PROVE y \in ToSet(t)
    <3>1. PICK i \in 1..Len(s) : s[i] = y BY <2>3, ListIndices
    <3>2. i - 1 \in 1..Len(t) /\ t[i - 1] = y BY <1>1, <2>3, <3>1
    <3>. QED BY <1>1, <3>2, ListIndices
  <2>. QED BY <2>1, <2>2, <2>3
<1>. QED BY <1>1, <1>2, <1>3 DEF t

\* Two lists without duplicates that share nothing make one.
LEMMA ConcatList ==
    ASSUME NEW S, NEW s \in Seq(S), NEW t \in Seq(S)
    PROVE  /\ s \o t \in Seq(S)
           /\ ToSet(s \o t) = ToSet(s) \cup ToSet(t)
           /\ NoTwice(s) /\ NoTwice(t) /\ ToSet(s) \cap ToSet(t) = {}
              => NoTwice(s \o t)
<1>. DEFINE u == s \o t
<1>1. /\ u \in Seq(S) /\ Len(u) = Len(s) + Len(t)
      /\ \A i \in 1..Len(s) + Len(t) :
            u[i] = IF i <= Len(s) THEN s[i] ELSE t[i - Len(s)]
      /\ Len(s) \in Nat /\ Len(t) \in Nat
  BY ConcatProperties, LenProperties
<1>. HIDE DEF u
<1>2. ASSUME NEW y \in ToSet(u) PROVE y \in ToSet(s) \cup ToSet(t)
  <2>1. PICK i \in 1..Len(u) : u[i] = y BY <1>1, <1>2, ListIndices
  <2>2. CASE i <= Len(s) BY <1>1, <2>1, <2>2, ListIndices
  <2>3. CASE i > Len(s)
    <3>1. i - Len(s) \in 1..Len(t) /\ t[i - Len(s)] = y BY <1>1, <2>1, <2>3
    <3>. QED BY <3>1, ListIndices
  <2>. QED BY <1>1, <2>1, <2>2, <2>3
<1>3. ASSUME NEW y \in ToSet(s) PROVE y \in ToSet(u)
  BY <1>1, <1>3, ListIndices
<1>4. ASSUME NEW y \in ToSet(t) PROVE y \in ToSet(u)
  <2>1. PICK i \in 1..Len(t) : t[i] = y BY <1>4, ListIndices
  <2>2. /\ i + Len(s) \in 1..Len(u) /\ ~(i + Len(s) <= Len(s))
        /\ (i + Len(s)) - Len(s) = i
    BY <1>1, <2>1
  <2>3. u[i + Len(s)] = y BY <1>1, <2>1, <2>2
  <2>. QED BY <1>1, <2>2, <2>3, ListIndices
<1>5. ASSUME NoTwice(s), NoTwice(t), ToSet(s) \cap ToSet(t) = {},
             NEW i \in 1..Len(u), NEW j \in 1..Len(u), u[i] = u[j]
      PROVE  i = j
  <2>1. ASSUME NEW k \in 1..Len(u)
        PROVE  \/ k <= Len(s) /\ k \in 1..Len(s) /\ u[k] = s[k] /\ u[k] \in ToSet(s)
               \/ /\ k > Len(s) /\ k - Len(s) \in 1..Len(t)
                  /\ u[k] = t[k - Len(s)] /\ u[k] \in ToSet(t)
    BY <1>1, ListIndices
  <2>2. CASE i <= Len(s) /\ j <= Len(s)
    BY <1>1, <1>5, <2>1, <2>2, ListIndices
  <2>3. CASE i > Len(s) /\ j > Len(s)
    <3>0. ~(i <= Len(s)) /\ ~(j <= Len(s)) BY <1>1, <2>3
    <3>1. i - Len(s) \in 1..Len(t) /\ u[i] = t[i - Len(s)] BY <2>1, <3>0
    <3>2. j - Len(s) \in 1..Len(t) /\ u[j] = t[j - Len(s)] BY <2>1, <3>0
    <3>3. \A a, b \in 1..Len(t) : t[a] = t[b] => a = b BY <1>5, ListIndices
    <3>4. i - Len(s) = j - Len(s) BY <1>5, <3>1, <3>2, <3>3
    <3>. QED BY <1>1, <3>4
  <2>. QED BY <1>1, <1>5, <2>1, <2>2, <2>3
<1>6. NoTwice(s) /\ NoTwice(t) /\ ToSet(s) \cap ToSet(t) = {} => NoTwice(u)
  BY <1>1, <1>5, ListIndices
<1>. QED BY <1>1, <1>2, <1>3, <1>4, <1>6 DEF u

\* A list of one.
LEMMA OneList ==
    ASSUME NEW S, NEW x \in S
    PROVE  <<x>> \in Seq(S) /\ ToSet(<<x>>) = {x} /\ NoTwice(<<x>>)
<1>. DEFINE s == <<x>>
<1>1. s \in Seq(S) /\ Len(s) = 1 /\ s[1] = x OBVIOUS
<1>. HIDE DEF s
<1>2. \A i \in 1..1 : i = 1 OBVIOUS
<1>3. \A y : y \in ToSet(s) <=> y = x
  <2>1. \A y : y \in ToSet(s) <=> \E i \in 1..1 : s[i] = y BY <1>1, ListIndices
  <2>. QED BY <1>1, <1>2, <2>1
<1>4. NoTwice(s)
  <2>1. NoTwice(s) <=> \A i, j \in 1..1 : s[i] = s[j] => i = j
    BY <1>1, ListIndices
  <2>. QED BY <1>2, <2>1
<1>. QED BY <1>1, <1>3, <1>4 DEF s

\* A handle in front of a list that does not hold it.
LEMMA PushList ==
    ASSUME NEW S, NEW s \in Seq(S), NEW x \in S
    PROVE  /\ <<x>> \o s \in Seq(S)
           /\ ToSet(<<x>> \o s) = {x} \cup ToSet(s)
           /\ NoTwice(s) /\ x \notin ToSet(s) => NoTwice(<<x>> \o s)
<1>. DEFINE l == <<x>>
<1>1. l \in Seq(S) /\ ToSet(l) = {x} /\ NoTwice(l) BY OneList
<1>. HIDE DEF l
<1>2. /\ l \o s \in Seq(S) /\ ToSet(l \o s) = {x} \cup ToSet(s)
      /\ NoTwice(s) /\ x \notin ToSet(s) => NoTwice(l \o s)
  BY <1>1, ConcatList
<1>. QED BY <1>2 DEF l

\* Unlinking takes exactly one handle out of a list without duplicates.
LEMMA UnlinkList ==
    ASSUME NEW S, NEW s \in Seq(S), NEW x, NoTwice(s)
    PROVE  /\ Unlink(s, x) \in Seq(S) /\ NoTwice(Unlink(s, x))
           /\ ToSet(Unlink(s, x)) = ToSet(s) \ {x}
<1>0. Len(s) \in Nat /\ DOMAIN s = 1..Len(s) BY ListIndices
<1>1. CASE ~ \E i \in DOMAIN s : s[i] = x
  BY <1>0, <1>1, ListIndices DEF Unlink
<1>2. CASE \E i \in DOMAIN s : s[i] = x
  <2>. DEFINE k == CHOOSE i \in DOMAIN s : s[i] = x
              l == SubSeq(s, 1, k - 1)
              r == SubSeq(s, k + 1, Len(s))
  <2>1. k \in 1..Len(s) /\ s[k] = x BY <1>0, <1>2
  <2>2. Unlink(s, x) = l \o r BY <1>2 DEF Unlink, RemoveAt
  <2>. HIDE DEF k
  <2>3. \A i \in 1..Len(s) : s[i] \in S BY ElementOfSeq
  <2>4. /\ l \in Seq(S) /\ Len(l) = k - 1
        /\ \A i \in 1..(k - 1) : l[i] = s[i]
    <3>1. /\ k - 1 \in Int /\ \A i \in 1..(k - 1) : s[i] \in S
          /\ (k - 1) - 1 + 1 = k - 1 /\ \A i \in 1..(k - 1) : 1 + i - 1 = i
      BY <1>0, <2>1, <2>3
    <3>. QED BY <1>0, <2>1, <3>1, SubSeqProperties
  <2>5. /\ r \in Seq(S) /\ Len(r) = Len(s) - k
        /\ \A i \in 1..(Len(s) - k) : r[i] = s[k + i]
    <3>1. /\ k + 1 \in Int /\ Len(s) \in Int
          /\ \A i \in (k + 1)..Len(s) : s[i] \in S
          /\ Len(s) - (k + 1) + 1 = Len(s) - k
          /\ \A i \in 1..(Len(s) - k) : k + 1 + i - 1 = k + i
      BY <1>0, <2>1, <2>3
    <3>2. /\ r \in Seq(S)
          /\ Len(r) = IF k + 1 <= Len(s) THEN Len(s) - (k + 1) + 1 ELSE 0
          /\ \A i \in 1..(Len(s) - (k + 1) + 1) : r[i] = s[k + 1 + i - 1]
      BY <3>1, SubSeqProperties
    <3>. HIDE DEF r
    <3>3. Len(r) = Len(s) - k
      <4>0. k \in Int /\ k <= Len(s) /\ Len(s) \in Int BY <1>0, <2>1
      <4>1. CASE k = Len(s)
        <5>1. ~(k + 1 <= Len(s)) BY <4>0, <4>1
        <5>2. Len(r) = 0 BY <3>2, <5>1
        <5>. QED BY <4>0, <4>1, <5>2
      <4>2. CASE k < Len(s)
        <5>1. k + 1 <= Len(s) BY <4>0, <4>2
        <5>2. Len(r) = Len(s) - (k + 1) + 1 BY <3>2, <5>1
        <5>. QED BY <4>0, <5>2
      <4>. QED BY <4>0, <4>1, <4>2
    <3>4. ASSUME NEW i \in 1..(Len(s) - k) PROVE r[i] = s[k + i]
      <4>1. i \in 1..(Len(s) - (k + 1) + 1) /\ k + 1 + i - 1 = k + i
        BY <1>0, <2>1
      <4>2. r[i] = s[k + 1 + i - 1] BY <3>2, <4>1
      <4>. QED BY <4>1, <4>2
    <3>. QED BY <3>2, <3>3, <3>4
  <2>. HIDE DEF l, r
  <2>6. NoTwice(l) BY <1>0, <2>1, <2>4, ListIndices
  <2>7. NoTwice(r)
    <3>1. ASSUME NEW i \in 1..Len(r), NEW j \in 1..Len(r), r[i] = r[j] PROVE i = j
      <4>1. k + i \in 1..Len(s) /\ k + j \in 1..Len(s) /\ s[k + i] = s[k + j]
        BY <1>0, <2>1, <2>5, <3>1
      <4>2. k + i = k + j BY <4>1, ListIndices
      <4>. QED BY <1>0, <2>1, <4>2
    <3>. QED BY <2>5, <3>1, ListIndices
  <2>8. ASSUME NEW y \in ToSet(l)
        PROVE  y \in ToSet(s) /\ y # x /\ y \notin ToSet(r)
    <3>1. PICK i \in 1..Len(l) : l[i] = y BY <2>4, <2>8, ListIndices
    <3>2. i \in 1..Len(s) /\ s[i] = y /\ i < k BY <1>0, <2>1, <2>4, <3>1
    <3>3. ASSUME y \in ToSet(r) PROVE FALSE
      <4>1. PICK j \in 1..Len(r) : r[j] = y BY <2>5, <3>3, ListIndices
      <4>2. k + j \in 1..Len(s) /\ s[k + j] = y /\ k + j > k
        BY <1>0, <2>1, <2>5, <4>1
      <4>3. i = k + j BY <3>2, <4>2, ListIndices
      <4>. QED BY <1>0, <2>1, <3>2, <4>2, <4>3
    <3>4. y # x
      <4>1. y = x => i = k BY <2>1, <3>2, ListIndices
      <4>. QED BY <1>0, <2>1, <3>2, <4>1
    <3>. QED BY <3>2, <3>3, <3>4, ListIndices
  <2>9. ASSUME NEW y \in ToSet(r) PROVE y \in ToSet(s) /\ y # x
    <3>1. PICK i \in 1..Len(r) : r[i] = y BY <2>5, <2>9, ListIndices
    <3>2. k + i \in 1..Len(s) /\ s[k + i] = y /\ k + i # k
      BY <1>0, <2>1, <2>5, <3>1
    <3>3. y = x => k + i = k BY <2>1, <3>2, ListIndices
    <3>. QED BY <3>2, <3>3, ListIndices
  <2>10. ASSUME NEW y \in ToSet(s), y # x PROVE y \in ToSet(l) \cup ToSet(r)
    <3>1. PICK i \in 1..Len(s) : s[i] = y BY <2>10, ListIndices
    <3>2. i # k BY <2>1, <2>10, <3>1
    <3>3. CASE i < k
      <4>1. i \in 1..Len(l) /\ l[i] = y BY <1>0, <2>1, <2>4, <3>1, <3>3
      <4>. QED BY <2>4, <4>1, ListIndices
    <3>4. CASE i > k
      <4>1. i - k \in 1..Len(r) /\ r[i - k] = y BY <1>0, <2>1, <2>5, <3>1, <3>4
      <4>. QED BY <2>5, <4>1, ListIndices
    <3>. QED BY <1>0, <2>1, <3>1, <3>2, <3>3, <3>4
  <2>11. ToSet(l) \cap ToSet(r) = {} BY <2>8
  <2>12. ToSet(l) \cup ToSet(r) = ToSet(s) \ {x} BY <2>8, <2>9, <2>10
  <2>. QED BY <2>2, <2>4, <2>5, <2>6, <2>7, <2>11, <2>12, ConcatList
<1>. QED BY <1>1, <1>2

-----------------------------------------------------------------------------
(* What a step must leave alone.                                           *)

\* Callers that keep their handles and stay on their side of ar_addquery() and
\* ar_cancelquery().
LEMMA PlacedClients ==
    ASSUME Placed, UNCHANGED <<pending, active, recycled>>,
           \A c \in Clients : /\ client'[c].h = client[c].h
                              /\ Owns(c)' <=> Owns(c)
                              /\ client'[c].pc = "idle" <=> client[c].pc = "idle"
                              /\ client'[c].pc = "refused" <=> client[c].pc = "refused"
    PROVE  Placed'
BY DEF Placed, Linked

\* List surgery that loses no handle and doubles none.
LEMMA PlacedLists ==
    ASSUME Placed, UNCHANGED <<client, recycled>>, Linked' = Linked,
           NoTwice(pending'), NoTwice(active'),
           ToSet(pending') \cap ToSet(active') = {}
    PROVE  Placed'
BY DEF Placed, Owns

\* A caller with a handle has a real one.
LEMMA OwnHandle ==
    ASSUME TypeOK, Placed, NEW c \in Clients, client[c].pc # "idle"
    PROVE  client[c].h \in Handles /\ client[c].h # NoHandle
BY DEF TypeOK, Placed, ClientType

\* Whoever is blocked on a handle whose flags are set is among those signalled.
LEMMA SignalKeep ==
    ASSUME TypeOK, Placed, NoLostSignal, NEW H, client' = client,
           signalled' = SignalTo(H),
           \A h \in Handles \ H :
             query'[h].flags \cap {"REPLY", "NOREPLY"} # {}
             => query[h].flags \cap {"REPLY", "NOREPLY"} # {}
    PROVE  NoLostSignal'
BY OwnHandle DEF NoLostSignal, SignalTo

\* A query that keeps its reply and stays late leaves every outcome true.
LEMMA OutcomeKeep ==
    ASSUME TypeOK, Placed, OutcomeOK, client' = client,
           \A h \in Handles :
             /\ "REPLY" \in query[h].flags => "REPLY" \in query'[h].flags
             /\ query[h].late => query'[h].late
    PROVE  OutcomeOK'
BY OwnHandle DEF OutcomeOK, Accepted

\* A step that changes neither a query nor a caller, and whose packets are of
\* the kind that was under way before.
LEMMA QuietStep ==
    ASSUME IInv, TypeOK', NoLostWakeup', ConnOK', UNCHANGED <<libvars, client>>,
           \A h \in Handles : \A m \in net'[h] : \E k \in net[h] : m.of = k.of
    PROVE  IInv'
<1>1. Placed' BY PlacedClients DEF IInv, libvars, Owns
<1>2. NoLostSignal' BY DEF IInv, NoLostSignal, libvars
<1>3. OutcomeOK' /\ ExpiryOK' BY DEF IInv, OutcomeOK, ExpiryOK, libvars, Accepted
<1>4. AnswersOK'
  <2>1. \A h \in Handles : AnswerOK(h) => AnswerOK(h)'
    BY DEF AnswerOK, libvars, Final
  <2>2. Linked \subseteq Handles BY ListIndices DEF IInv, TypeOK, Linked
  <2>. QED BY <2>1, <2>2 DEF IInv, AnswersOK, Linked, Trusted, Owns, libvars
<1>. QED BY <1>1, <1>2, <1>3, <1>4 DEF IInv

\* A step of a caller that holds a handle and keeps it: ar_waitreply().
LEMMA WaitStep ==
    ASSUME IInv, NEW c \in Clients, Accepted(c), Accepted(c)',
           client' \in [Clients -> ClientType],
           \A d \in Clients \ {c} : client'[d] = client[d],
           client'[c].h = client[c].h, client'[c].ask = client[c].ask,
           client'[c].pc = "blocked"
             => query[client[c].h].flags \cap {"REPLY", "NOREPLY"} = {},
           client'[c].res = "SUCCESS" => "REPLY" \in query[client[c].h].flags,
           client'[c].res = "EXPIRED" => query[client[c].h].late,
           signalled' \in {signalled, signalled \ {client[c].h}},
           UNCHANGED <<pending, active, recycled, query, buf, dead,
                       netvars, disp, ctl, closed>>
    PROVE  IInv'
<1>1. TypeOK' BY DEF IInv, TypeOK, netvars
<1>2. Placed'
  BY PlacedClients DEF IInv, Owns, Accepted
<1>3. NoLostSignal'
  <2>. SUFFICES ASSUME NEW d \in Clients, client'[d].pc = "blocked",
                       query'[client'[d].h].flags \cap {"REPLY", "NOREPLY"} # {}
                PROVE  client'[d].h \in signalled'
    BY DEF NoLostSignal
  <2>1. d # c OBVIOUS
  <2>2. client'[d] = client[d] BY <2>1
  <2>3. client[d].h \in signalled BY <2>2 DEF IInv, NoLostSignal
  <2>4. client[d].h # client[c].h
    BY <2>1, <2>2, OwnHandle DEF IInv, Placed
  <2>. QED BY <2>2, <2>3, <2>4
<1>4. OutcomeOK'
  <2>. SUFFICES ASSUME NEW d \in Clients
                PROVE  /\ ~Accepted(d)' => client'[d].res = "none"
                       /\ client'[d].res = "SUCCESS"
                          => "REPLY" \in query[client'[d].h].flags
                       /\ client'[d].res = "EXPIRED"
                          => query[client'[d].h].late
    BY DEF OutcomeOK
  <2>1. CASE d = c BY <2>1 DEF Accepted
  <2>2. CASE d # c
    <3>1. client'[d] = client[d] BY <2>2
    <3>. QED BY <3>1 DEF IInv, OutcomeOK, Accepted
  <2>. QED BY <2>1, <2>2
<1>5. NoLostWakeup' /\ ExpiryOK' /\ ConnOK'
  <2>1. \A d \in Clients : Accepted(d)' => Accepted(d) /\ client'[d].h = client[d].h
    BY DEF Accepted
  <2>. QED BY <2>1 DEF IInv, NoLostWakeup, ExpiryOK, ConnOK, DispAt, netvars, Accepted
<1>6. AnswersOK'
  <2>1. \A h : AnswerOK(h)' <=> AnswerOK(h)
    BY DEF AnswerOK, Final, netvars
  <2>2. \A h : Trusted(h)' <=> Trusted(h) BY DEF Trusted
  <2>3. \A d \in Clients : client'[d].h = client[d].h /\ client'[d].ask = client[d].ask
                           /\ (Owns(d)' <=> Owns(d))
    BY DEF Owns, Accepted
  <2>. QED BY <2>1, <2>2, <2>3 DEF IInv, AnswersOK, Linked
<1>. QED BY <1>1, <1>2, <1>3, <1>4, <1>5, <1>6 DEF IInv

-----------------------------------------------------------------------------
(* The callers.                                                            *)

\* The invariant holds when ar_init() returns.
LEMMA InitOK == Init => IInv
<1>. SUFFICES ASSUME Init PROVE IInv
  OBVIOUS
<1>. USE ArAssumption
<1>0. FirstQuestion \in Questions BY DEF FirstQuestion
<1>1. TypeOK
  <2>1. NewQuery \in QueryType
    BY <1>0 DEF NewQuery, QueryType, Links, Flags
  <2>2. Idle \in ClientType
    BY <1>0 DEF Idle, ClientType, Outcomes
  <2>3. disp \in DispType
    BY DEF Init, DispType
  <2>. QED BY <2>1, <2>2, <2>3, EmptySeq DEF Init, TypeOK
<1>2. ToSet(pending) = {} /\ ToSet(active) = {} /\ NoTwice(pending) /\ NoTwice(active)
  BY DEF Init, ToSet, NoTwice
<1>3. Placed BY <1>2 DEF Init, Placed, Linked, Owns, Idle
<1>4. NoLostWakeup /\ NoLostSignal /\ OutcomeOK /\ ExpiryOK /\ ConnOK
  BY DEF Init, NoLostWakeup, NoLostSignal, OutcomeOK, ExpiryOK, ConnOK, DispAt,
         Idle, NewQuery
<1>5. AnswersOK BY <1>2 DEF Init, AnswersOK, Linked, Owns, Idle
<1>. QED BY <1>1, <1>3, <1>4, <1>5 DEF IInv

\* ar_addquery() takes a recycled handle or a new one: nobody else has it.
LEMMA AddOK ==
    ASSUME IInv, TangledOK, NEW c \in Clients, NEW a \in Questions, Add(c, a)
    PROVE  IInv'
<1>. USE ArAssumption
<1>1. PICK h \in Handles :
        /\ IF recycled # {}
           THEN h \in recycled
           ELSE h \notin Linked /\ \A d \in Clients : client[d].h # h
        /\ recycled' = recycled \ {h}
        /\ client' = [client EXCEPT ![c] =
                        [Idle EXCEPT !.pc = "building", !.h = h, !.ask = a]]
  BY DEF Add
<1>2. /\ UNCHANGED <<pending, active, query, buf, signalled, dead,
                     netvars, disp, ctl, closed>>
      /\ client[c].pc = "idle"
  BY DEF Add
<1>3. /\ client'[c].pc = "building" /\ client'[c].h = h /\ client'[c].ask = a
      /\ client'[c].res = "none"
      /\ \A d \in Clients \ {c} : client'[d] = client[d]
  BY <1>1 DEF Idle, IInv, TypeOK
<1>4. TypeOK'
  <2>1. client' \in [Clients -> ClientType]
    <3>1. [Idle EXCEPT !.pc = "building", !.h = h, !.ask = a] \in ClientType
      BY DEF Idle, ClientType, Outcomes
    <3>. QED BY <1>1, <3>1 DEF IInv, TypeOK
  <2>. QED BY <1>1, <1>2, <2>1 DEF IInv, TypeOK, netvars
<1>5. h \notin Linked /\ \A d \in Clients : client[d].h # h
  <2>1. \A d \in Clients : client[d].pc # "refused"
    BY DEF Add, ArLockFree, TangledOK
  <2>. QED BY <1>1, <2>1 DEF IInv, Placed
<1>6. h # NoHandle /\ Linked' = Linked BY <1>2 DEF Linked
<1>7. \A d \in Clients \ {c} : Owns(d)' <=> Owns(d) BY <1>3 DEF Owns
<1>8. ~Owns(c) /\ ~Owns(c)' BY <1>2, <1>3 DEF Owns
<1>9. Placed'
  <2>1. NoTwice(pending') /\ NoTwice(active') /\ ToSet(pending') \cap ToSet(active') = {}
    BY <1>2 DEF IInv, Placed
  <2>2. ASSUME NEW d \in Clients
        PROVE  /\ client'[d].h = NoHandle <=> client'[d].pc = "idle"
               /\ client'[d].h \in recycled' => client'[d].pc = "refused"
               /\ client'[d].h \in Linked' <=> Owns(d)'
               /\ \A e \in Clients :
                    client'[d].h = client'[e].h /\ client'[d].h # NoHandle => d = e
    <3>1. CASE d = c BY <1>1, <1>3, <1>5, <1>6, <1>8, <3>1
    <3>2. CASE d # c
      BY <1>1, <1>3, <1>5, <1>6, <1>7, <3>2 DEF IInv, Placed
    <3>. QED BY <3>1, <3>2
  <2>3. ASSUME NEW g \in Linked' PROVE \E d \in Clients : client'[d].h = g
    <3>1. PICK d \in Clients : client[d].h = g BY <1>6, <2>3 DEF IInv, Placed
    <3>2. d # c BY <1>6, <1>8, <2>3, <3>1 DEF IInv, Placed
    <3>. QED BY <1>3, <3>1, <3>2
  <2>. QED BY <2>1, <2>2, <2>3 DEF Placed
<1>10. NoLostSignal' BY <1>2, <1>3 DEF IInv, NoLostSignal
<1>11. OutcomeOK'
  <2>1. ASSUME NEW d \in Clients
        PROVE  /\ ~Accepted(d)' => client'[d].res = "none"
               /\ client'[d].res = "SUCCESS" => "REPLY" \in query'[client'[d].h].flags
               /\ client'[d].res = "EXPIRED" => query'[client'[d].h].late
    <3>1. CASE d = c BY <1>3, <3>1
    <3>2. CASE d # c BY <1>2, <1>3, <3>2 DEF IInv, OutcomeOK, Accepted
    <3>. QED BY <3>1, <3>2
  <2>. QED BY <2>1 DEF OutcomeOK
<1>12. NoLostWakeup' /\ ExpiryOK' /\ ConnOK'
  BY <1>2, <1>3 DEF IInv, NoLostWakeup, ExpiryOK, ConnOK, DispAt, netvars
<1>13. AnswersOK'
  <2>1. \A g : (AnswerOK(g)' <=> AnswerOK(g)) /\ (Trusted(g)' <=> Trusted(g))
    BY <1>2 DEF AnswerOK, Trusted, Final, netvars
  <2>. QED BY <1>2, <1>3, <1>6, <1>7, <1>8, <2>1 DEF IInv, AnswersOK
<1>. QED BY <1>4, <1>9, <1>10, <1>11, <1>12, <1>13 DEF IInv

\* ar_addquery() appends the handle it has filled in to ar_pending, and leaves
\* the dispatcher a message unless the control socket is full of them or fails.
LEMMA SubmitOK ==
    ASSUME IInv, NEW c \in Clients, NEW limit, NEW pc \in {"held", "failing"},
           Submit(c, limit, pc),
           pc = "held" => WakeDispatcher, pc = "failing" => ctl' = ctl
    PROVE  IInv'
<1>. USE ArAssumption
<1>0. PICK h \in Handles : client[c].h = h /\ client[c].pc = "building"
  BY OwnHandle DEF Submit, IInv
<1>. DEFINE q == [flags |-> IF limit = "infinite" THEN {"INFINIWAIT"} ELSE {},
                  depth |-> Depth, tries |-> 0,
                  at |-> [ask |-> client[c].ask, hop |-> 0],
                  due |-> query[h].due, late |-> FALSE]
<1>1. /\ query' = [query EXCEPT ![h] = q]
      /\ buf' = [buf EXCEPT ![h] = <<>>]
      /\ pending' = Append(pending, h)
      /\ ctl' \in Nat /\ (pc = "held" => ctl' > 0) /\ (pc = "failing" => ctl' = ctl)
      /\ client' = [client EXCEPT ![c].pc = pc]
      /\ UNCHANGED <<active, recycled, signalled, dead, netvars, disp, closed>>
  BY <1>0 DEF Submit, WakeDispatcher, IInv, TypeOK
<1>2. q \in QueryType
  BY <1>0 DEF IInv, TypeOK, QueryType, ClientType, Links, Flags
<1>3. /\ query'[h] = q /\ \A g \in Handles \ {h} : query'[g] = query[g]
  BY <1>0, <1>1 DEF IInv, TypeOK
<1>4. /\ client'[c] = [client[c] EXCEPT !.pc = pc]
      /\ client'[c].pc = pc /\ client'[c].h = h
      /\ client'[c].ask = client[c].ask /\ client'[c].res = client[c].res
      /\ client'[c] \in ClientType
      /\ \A d \in Clients \ {c} : client'[d] = client[d]
  BY <1>0, <1>1 DEF IInv, TypeOK, ClientType
<1>. HIDE DEF q
<1>5. TypeOK'
  <2>1. pending' \in Seq(Handles) BY <1>0, <1>1, AppendList DEF IInv, TypeOK
  <2>2. client' \in [Clients -> ClientType] BY <1>1, <1>4 DEF IInv, TypeOK
  <2>3. query' \in [Handles -> QueryType] BY <1>1, <1>2 DEF IInv, TypeOK
  <2>. QED BY <1>1, <2>1, <2>2, <2>3 DEF IInv, TypeOK, netvars
<1>6. h \notin Linked BY <1>0 DEF IInv, Placed, Owns
<1>7. /\ ToSet(pending') = ToSet(pending) \cup {h} /\ NoTwice(pending')
      /\ Linked' = Linked \cup {h}
  <2>1. pending \in Seq(Handles) /\ h \notin ToSet(pending) /\ NoTwice(pending)
    BY <1>6 DEF IInv, TypeOK, Placed, Linked
  <2>. QED BY <1>0, <1>1, <2>1, AppendList DEF Linked
<1>8. \A d \in Clients \ {c} : /\ Owns(d)' <=> Owns(d)
                               /\ client[d].h # h
  BY <1>0, <1>4, OwnHandle DEF Owns, IInv, Placed
<1>9. Owns(c)' BY <1>4 DEF Owns
<1>10. Placed'
  <2>1. NoTwice(pending') /\ NoTwice(active') /\ ToSet(pending') \cap ToSet(active') = {}
    BY <1>1, <1>6, <1>7 DEF IInv, Placed, Linked
  <2>2. ASSUME NEW d \in Clients
        PROVE  /\ client'[d].h = NoHandle <=> client'[d].pc = "idle"
               /\ client'[d].h \in recycled' => client'[d].pc = "refused"
               /\ client'[d].h \in Linked' <=> Owns(d)'
               /\ \A e \in Clients :
                    client'[d].h = client'[e].h /\ client'[d].h # NoHandle => d = e
    <3>1. CASE d = c
      BY <1>0, <1>1, <1>4, <1>7, <1>8, <1>9, <3>1 DEF IInv, Placed
    <3>2. CASE d # c
      BY <1>1, <1>4, <1>7, <1>8, <3>2 DEF IInv, Placed
    <3>. QED BY <3>1, <3>2
  <2>3. ASSUME NEW g \in Linked' PROVE \E d \in Clients : client'[d].h = g
    <3>1. CASE g = h BY <1>4, <3>1
    <3>2. CASE g \in Linked
      <4>1. PICK d \in Clients : client[d].h = g BY <3>2 DEF IInv, Placed
      <4>. QED BY <1>0, <1>4, <4>1
    <3>. QED BY <1>7, <2>3, <3>1, <3>2
  <2>. QED BY <2>1, <2>2, <2>3 DEF Placed
<1>11. NoLostWakeup'
  <2>. SUFFICES ASSUME DispAt("select")', NEW d \in Clients,
                       client'[d].pc \in {"held", "blocked"},
                       client'[d].h \in ToSet(pending')
                PROVE  disp'.write \/ ctl' > 0
    BY DEF NoLostWakeup
  <2>1. CASE pc = "held" BY <1>1, <2>1
  <2>2. CASE pc = "failing"
    <3>1. d # c /\ client'[d] = client[d] BY <1>4, <2>2
    <3>2. client[d].h \in ToSet(pending) BY <1>7, <1>8, <3>1
    <3>. QED BY <1>1, <2>2, <3>1, <3>2 DEF IInv, NoLostWakeup, DispAt
  <2>. QED BY <2>1, <2>2
<1>12. NoLostSignal'
  <2>. SUFFICES ASSUME NEW d \in Clients, client'[d].pc = "blocked",
                       query'[client'[d].h].flags \cap {"REPLY", "NOREPLY"} # {}
                PROVE  client'[d].h \in signalled'
    BY DEF NoLostSignal
  <2>1. d # c /\ client'[d] = client[d] BY <1>4
  <2>2. client[d].h \in Handles \ {h} BY <1>8, <2>1, OwnHandle DEF IInv
  <2>3. query'[client'[d].h] = query[client[d].h] BY <1>3, <2>1, <2>2
  <2>4. client[d].h \in signalled BY <2>1, <2>3 DEF IInv, NoLostSignal
  <2>. QED BY <1>1, <2>1, <2>4
<1>13. OutcomeOK'
  <2>1. ASSUME NEW d \in Clients
        PROVE  /\ ~Accepted(d)' => client'[d].res = "none"
               /\ client'[d].res = "SUCCESS" => "REPLY" \in query'[client'[d].h].flags
               /\ client'[d].res = "EXPIRED" => query'[client'[d].h].late
    <3>1. CASE d = c BY <1>0, <1>4, <3>1 DEF IInv, OutcomeOK, Accepted
    <3>2. CASE d # c
      <4>1. client'[d] = client[d] BY <1>4, <3>2
      <4>2. CASE client[d].pc = "idle" BY <4>1, <4>2 DEF IInv, OutcomeOK, Accepted
      <4>3. CASE client[d].pc # "idle"
        <5>1. query'[client[d].h] = query[client[d].h]
          BY <1>3, <1>8, <3>2, <4>3, OwnHandle DEF IInv
        <5>. QED BY <4>1, <5>1 DEF IInv, OutcomeOK, Accepted
      <4>. QED BY <4>2, <4>3
    <3>. QED BY <3>1, <3>2
  <2>. QED BY <2>1 DEF OutcomeOK
<1>14. ExpiryOK' /\ ConnOK'
  BY <1>1, <1>3 DEF IInv, ExpiryOK, ConnOK, netvars, q
<1>15. AnswersOK'
  <2>1. AnswerOK(h)'
    <3>1. h \notin ToSet(active') BY <1>1, <1>6 DEF Linked
    <3>2. buf'[h] = <<>> BY <1>0, <1>1 DEF IInv, TypeOK
    <3>3. query'[h].at.hop = 0 /\ query'[h].at.ask = client[c].ask
          /\ query'[h].depth = Depth
      BY <1>3 DEF q
    <3>4. 0 + Depth = Depth /\ client[c].ask \in Questions
      BY DEF IInv, TypeOK, ClientType
    <3>. QED BY <3>1, <3>2, <3>3, <3>4 DEF AnswerOK
  <2>2. \A g \in Handles \ {h} : /\ AnswerOK(g)' <=> AnswerOK(g)
                                 /\ Trusted(g)' <=> Trusted(g)
    BY <1>1, <1>3 DEF AnswerOK, Trusted, Final, netvars
  <2>3. Linked \subseteq Handles BY ListIndices DEF IInv, TypeOK, Linked
  <2>4. ASSUME NEW g \in Linked', Trusted(g)' PROVE AnswerOK(g)'
    BY <1>7, <2>1, <2>2, <2>3, <2>4 DEF IInv, AnswersOK
  <2>5. ASSUME NEW d \in Clients, Owns(d)', Trusted(client[d].h)'
        PROVE  query'[client'[d].h].at.ask = client'[d].ask
    <3>1. CASE d = c
      <4>1. query'[h].at.ask = client[c].ask BY <1>3 DEF q
      <4>. QED BY <1>4, <3>1, <4>1
    <3>2. CASE d # c
      <4>1. Owns(d) /\ client'[d] = client[d] BY <1>4, <1>8, <2>5, <3>2
      <4>2. client[d].h \in Handles \ {h}
        BY <1>8, <3>2, <4>1, OwnHandle DEF Owns, IInv
      <4>. QED BY <1>3, <2>2, <2>5, <4>1, <4>2 DEF IInv, AnswersOK
    <3>. QED BY <3>1, <3>2
  <2>. QED BY <1>4, <2>4, <2>5 DEF AnswersOK
<1>. QED BY <1>5, <1>10, <1>11, <1>12, <1>13, <1>14, <1>15 DEF IInv

\* What ar_waitreply() returns becomes the caller's outcome, and no more.
LEMMA ReturnOK ==
    ASSUME IInv, NEW c \in Clients, Accepted(c), NEW r \in Outcomes, Return(c, r),
           r = "SUCCESS" => "REPLY" \in query[client[c].h].flags,
           r = "EXPIRED" => query[client[c].h].late,
           signalled' \in {signalled, signalled \ {client[c].h}},
           UNCHANGED <<pending, active, recycled, query, buf, dead,
                       netvars, disp, ctl, closed>>
    PROVE  IInv'
<1>1. client' = [client EXCEPT ![c] = [client[c] EXCEPT !.pc = "held", !.mode = "none",
                                                        !.res = r]]
  BY DEF Return, IInv, TypeOK, ClientType
<1>2. [client[c] EXCEPT !.pc = "held", !.mode = "none", !.res = r] \in ClientType
  BY DEF IInv, TypeOK, ClientType
<1>3. /\ client' \in [Clients -> ClientType]
      /\ \A d \in Clients \ {c} : client'[d] = client[d]
      /\ client'[c] = [client[c] EXCEPT !.pc = "held", !.mode = "none", !.res = r]
  BY <1>1, <1>2 DEF IInv, TypeOK
<1>4. /\ client'[c].pc = "held" /\ client'[c].h = client[c].h
      /\ client'[c].ask = client[c].ask /\ client'[c].res = r
  BY <1>3 DEF IInv, TypeOK, ClientType
<1>5. Accepted(c)' BY <1>4 DEF Accepted
<1>. QED BY <1>3, <1>4, <1>5, WaitStep

\* The outcome is there when ar_waitreply() is called.
LEMMA WaitAtOnceOK == ASSUME IInv, NEW c \in Clients, WaitAtOnce(c) PROVE IInv'
<1>0. Accepted(c) /\ client[c].h \in Handles
  BY OwnHandle DEF WaitAtOnce, MayWait, Accepted, IInv
<1>1. PICK r \in Outcomes :
        /\ Return(c, r)
        /\ r = "SUCCESS" => "REPLY" \in query[client[c].h].flags
        /\ r = "EXPIRED" => query[client[c].h].late
  <2>1. CASE "REPLY" \in query[client[c].h].flags
    BY <2>1 DEF WaitAtOnce, Outcomes
  <2>2. CASE "ERROR" \in query[client[c].h].flags /\ "REPLY" \notin query[client[c].h].flags
    BY <2>2 DEF WaitAtOnce, Outcomes
  <2>3. CASE query[client[c].h].flags \cap {"REPLY", "ERROR"} = {}
    <3>1. "NOREPLY" \in query[client[c].h].flags /\ Return(c, "EXPIRED")
      BY <2>3 DEF WaitAtOnce
    <3>2. query[client[c].h].late BY <1>0, <2>3, <3>1 DEF IInv, ExpiryOK
    <3>. QED BY <3>1, <3>2 DEF Outcomes
  <2>. QED BY <2>1, <2>2, <2>3
<1>. QED BY <1>0, <1>1, ReturnOK DEF WaitAtOnce, libvars

\* ar_waitreply() blocks after it has looked at q_flags under the q_lock that
\* pthread_cond_wait() gives up.
LEMMA WaitBlockOK ==
    ASSUME IInv, NEW c \in Clients, NEW w, WaitBlock(c, w)
    PROVE  IInv'
<1>0. Accepted(c) BY DEF WaitBlock, MayWait, Accepted
<1>1. PICK m \in {"forever", "query", "call"} :
        client' = [client EXCEPT ![c].pc = "blocked", ![c].mode = m,
                                     ![c].res = "none"]
  BY DEF WaitBlock
<1>2. [client[c] EXCEPT !.pc = "blocked", !.mode = m, !.res = "none"] \in ClientType
  BY DEF IInv, TypeOK, ClientType, Outcomes
<1>3. /\ client' \in [Clients -> ClientType]
      /\ \A d \in Clients \ {c} : client'[d] = client[d]
      /\ client'[c] = [client[c] EXCEPT !.pc = "blocked", !.mode = m, !.res = "none"]
  BY <1>1, <1>2 DEF IInv, TypeOK, ClientType
<1>4. /\ client'[c].pc = "blocked" /\ client'[c].h = client[c].h
      /\ client'[c].ask = client[c].ask /\ client'[c].res = "none"
  BY <1>3 DEF IInv, TypeOK, ClientType
<1>5. Accepted(c)' BY <1>4 DEF Accepted
<1>6. query[client[c].h].flags \cap {"REPLY", "NOREPLY"} = {}
  BY DEF WaitBlock
<1>. QED BY <1>0, <1>3, <1>4, <1>5, <1>6, WaitStep DEF WaitBlock, libvars

\* The wait is over, by a signal, for no reason or because its time is up: the
\* flags tell what ar_waitreply() returns.
LEMMA AfterWaitOK ==
    ASSUME IInv, NEW c \in Clients, client[c].pc = "blocked", AfterWait(c),
           signalled' = signalled \ {client[c].h},
           \/ "NOREPLY" \in query[client[c].h].flags
           \/ "REPLY" \in query[client[c].h].flags
           \/ client[c].mode = "query" => query[client[c].h].late,
           UNCHANGED <<pending, active, recycled, query, buf, dead,
                       netvars, disp, ctl, closed>>
    PROVE  IInv'
<1>0. Accepted(c) /\ client[c].h \in Handles
  BY OwnHandle DEF Accepted, IInv
<1>. DEFINE f == query[client[c].h].flags
<1>1. CASE "ERROR" \in f
  <2>1. Return(c, "ERROR") BY <1>1 DEF AfterWait
  <2>. QED BY <1>0, <2>1, ReturnOK DEF Outcomes
<1>2. CASE f \cap {"ERROR", "REPLY"} = {}
  <2>1. CASE client[c].mode = "query"
    <3>1. Return(c, "EXPIRED") BY <1>2, <2>1 DEF AfterWait
    <3>2. query[client[c].h].late BY <1>0, <1>2, <2>1 DEF IInv, ExpiryOK
    <3>. QED BY <1>0, <3>1, <3>2, ReturnOK DEF Outcomes
  <2>2. CASE client[c].mode # "query"
    <3>1. Return(c, "NOREPLY") BY <1>2, <2>2 DEF AfterWait
    <3>. QED BY <1>0, <3>1, ReturnOK DEF Outcomes
  <2>. QED BY <2>1, <2>2
<1>3. CASE "ERROR" \notin f /\ "REPLY" \in f
  <2>1. Return(c, "SUCCESS") BY <1>3 DEF AfterWait
  <2>. QED BY <1>0, <1>3, <2>1, ReturnOK DEF Outcomes
<1>. QED BY <1>1, <1>2, <1>3

\* A caller wakes inside pthread_cond_wait(), signalled or not; without a reply
\* or an expiry it goes on waiting, and nothing was lost with the signal.
LEMMA AwakeOK == ASSUME IInv, NEW c \in Clients, Awake(c) PROVE IInv'
<1>1. CASE query[client[c].h].flags \cap {"REPLY", "NOREPLY"} # {}
  BY <1>1, AfterWaitOK DEF Awake
<1>2. CASE query[client[c].h].flags \cap {"REPLY", "NOREPLY"} = {}
  <2>1. client' = client /\ Accepted(c) /\ Accepted(c)' BY <1>2 DEF Awake, Accepted
  <2>2. /\ client[c].res = "SUCCESS" => "REPLY" \in query[client[c].h].flags
        /\ client[c].res = "EXPIRED" => query[client[c].h].late
    BY DEF IInv, OutcomeOK
  <2>. QED BY <1>2, <2>1, <2>2, WaitStep DEF Awake, IInv, TypeOK
<1>. QED BY <1>1, <1>2

\* pthread_cond_timedwait() runs out.
LEMMA TimedOutOK == ASSUME IInv, NEW c \in Clients, TimedOut(c) PROVE IInv'
BY AfterWaitOK DEF TimedOut

\* ar_cancelquery() takes the handle out of its list and recycles it; whatever
\* is still under way for it belongs to nobody.
LEMMA CancelOK == ASSUME IInv, NEW c \in Clients, Cancel(c) PROVE IInv'
<1>. USE ArAssumption
<1>0. PICK h \in Handles : client[c].h = h /\ client[c].pc = "held" /\ h # NoHandle
  BY OwnHandle DEF Cancel, IInv
<1>1. /\ query' = [query EXCEPT ![h] = [NewQuery EXCEPT !.due = query[h].due]]
      /\ buf' = [buf EXCEPT ![h] = <<>>]
      /\ client' = [client EXCEPT ![c] = Idle]
      /\ UNCHANGED <<signalled, dead, netvars, disp, ctl, closed>>
  BY <1>0 DEF Cancel
<1>2. FirstQuestion \in Questions BY DEF FirstQuestion
<1>3. [NewQuery EXCEPT !.due = query[h].due] \in QueryType
  BY <1>2 DEF NewQuery, QueryType, Links, Flags, IInv, TypeOK
<1>4. /\ query'[h].flags = {}
      /\ \A g \in Handles \ {h} : query'[g] = query[g] /\ buf'[g] = buf[g]
  BY <1>1 DEF IInv, TypeOK, NewQuery
<1>5. Idle \in ClientType BY <1>2 DEF Idle, ClientType, Outcomes
<1>6. /\ client'[c] = Idle /\ client'[c].h = NoHandle /\ client'[c].pc = "idle"
      /\ client'[c].res = "none"
      /\ \A d \in Clients \ {c} : client'[d] = client[d]
  BY <1>1 DEF IInv, TypeOK, Idle
<1>7. h \in Linked /\ Linked \subseteq Handles
  BY <1>0, ListIndices DEF IInv, Placed, Owns, TypeOK, Linked
<1>8. /\ pending' \in Seq(Handles) /\ active' \in Seq(Handles)
      /\ NoTwice(pending') /\ NoTwice(active')
      /\ ToSet(pending') = ToSet(pending) \ {h}
      /\ ToSet(active') = ToSet(active) \ {h}
      /\ recycled' = recycled \cup {h}
  <2>1. CASE h \in ToSet(pending)
    <3>1. pending' = Unlink(pending, h) /\ active' = active
      BY <1>0, <2>1 DEF Cancel
    <3>2. h \notin ToSet(active) BY <2>1 DEF IInv, Placed
    <3>3. recycled' = recycled \cup {h} BY <1>0, <1>7 DEF Cancel
    <3>. QED BY <3>1, <3>2, <3>3, UnlinkList DEF IInv, TypeOK, Placed
  <2>2. CASE h \notin ToSet(pending)
    <3>1. active' = Unlink(active, h) /\ pending' = pending
      BY <1>0, <2>2 DEF Cancel
    <3>2. recycled' = recycled \cup {h} BY <1>0, <1>7 DEF Cancel
    <3>. QED BY <2>2, <3>1, <3>2, UnlinkList DEF IInv, TypeOK, Placed
  <2>. QED BY <2>1, <2>2
<1>9. TypeOK'
  <2>1. client' \in [Clients -> ClientType] BY <1>1, <1>5 DEF IInv, TypeOK
  <2>2. query' \in [Handles -> QueryType] BY <1>1, <1>3 DEF IInv, TypeOK
  <2>3. buf' \in [Handles -> Texts \cup {<<>>}] BY <1>1 DEF IInv, TypeOK
  <2>. QED BY <1>1, <1>8, <2>1, <2>2, <2>3 DEF IInv, TypeOK, netvars
<1>10. Linked' = Linked \ {h} BY <1>8 DEF Linked
<1>11. \A d \in Clients \ {c} : client[d].h # h /\ (Owns(d)' <=> Owns(d))
  BY <1>0, <1>6 DEF IInv, Placed, Owns
<1>12. Placed'
  <2>1. NoTwice(pending') /\ NoTwice(active') /\ ToSet(pending') \cap ToSet(active') = {}
    BY <1>8 DEF IInv, Placed
  <2>2. ASSUME NEW d \in Clients
        PROVE  /\ client'[d].h = NoHandle <=> client'[d].pc = "idle"
               /\ client'[d].h \in recycled' => client'[d].pc = "refused"
               /\ client'[d].h \in Linked' <=> Owns(d)'
               /\ \A e \in Clients :
                    client'[d].h = client'[e].h /\ client'[d].h # NoHandle => d = e
    <3>1. CASE d = c
      <4>1. NoHandle \notin recycled /\ NoHandle \notin Linked
        BY <1>7 DEF IInv, TypeOK
      <4>. QED BY <1>0, <1>6, <1>8, <1>10, <3>1, <4>1 DEF Owns
    <3>2. CASE d # c
      BY <1>6, <1>8, <1>10, <1>11, <3>2 DEF IInv, Placed
    <3>. QED BY <3>1, <3>2
  <2>3. ASSUME NEW g \in Linked' PROVE \E d \in Clients : client'[d].h = g
    <3>1. PICK d \in Clients : client[d].h = g
      BY <1>10, <2>3 DEF IInv, Placed
    <3>. QED BY <1>0, <1>6, <1>10, <2>3, <3>1
  <2>. QED BY <2>1, <2>2, <2>3 DEF Placed
<1>13. NoLostWakeup'
  BY <1>1, <1>6, <1>8 DEF IInv, NoLostWakeup, DispAt
<1>14. NoLostSignal'
  <2>. SUFFICES ASSUME NEW d \in Clients, client'[d].pc = "blocked",
                       query'[client'[d].h].flags \cap {"REPLY", "NOREPLY"} # {}
                PROVE  client'[d].h \in signalled'
    BY DEF NoLostSignal
  <2>1. d # c /\ client'[d] = client[d] BY <1>6
  <2>2. client[d].h \in Handles \ {h} BY <1>11, <2>1, OwnHandle DEF IInv
  <2>3. query'[client'[d].h] = query[client[d].h] BY <1>4, <2>1, <2>2
  <2>4. client[d].h \in signalled BY <2>1, <2>3 DEF IInv, NoLostSignal
  <2>. QED BY <1>1, <2>1, <2>4
<1>15. OutcomeOK'
  <2>1. ASSUME NEW d \in Clients
        PROVE  /\ ~Accepted(d)' => client'[d].res = "none"
               /\ client'[d].res = "SUCCESS" => "REPLY" \in query'[client'[d].h].flags
               /\ client'[d].res = "EXPIRED" => query'[client'[d].h].late
    <3>1. CASE d = c BY <1>6, <3>1
    <3>2. CASE d # c
      <4>1. client'[d] = client[d] BY <1>6, <3>2
      <4>2. CASE client[d].pc = "idle" BY <4>1, <4>2 DEF IInv, OutcomeOK, Accepted
      <4>3. CASE client[d].pc # "idle"
        <5>1. query'[client[d].h] = query[client[d].h]
          BY <1>4, <1>11, <3>2, <4>3, OwnHandle DEF IInv
        <5>. QED BY <4>1, <5>1 DEF IInv, OutcomeOK, Accepted
      <4>. QED BY <4>2, <4>3
    <3>. QED BY <3>1, <3>2
  <2>. QED BY <2>1 DEF OutcomeOK
<1>16. ExpiryOK' /\ ConnOK'
  BY <1>1, <1>4 DEF IInv, ExpiryOK, ConnOK, netvars
<1>17. AnswersOK'
  <2>1. \A g \in Handles \ {h} : /\ AnswerOK(g) => AnswerOK(g)'
                                 /\ Trusted(g)' <=> Trusted(g)
    BY <1>1, <1>4, <1>8 DEF AnswerOK, Trusted, Final, netvars
  <2>2. ASSUME NEW d \in Clients, Owns(d)', Trusted(client[d].h)'
        PROVE  query'[client'[d].h].at.ask = client'[d].ask
    <3>1. d # c BY <1>6, <2>2 DEF Owns
    <3>2. Owns(d) /\ client'[d] = client[d] BY <1>6, <1>11, <2>2, <3>1
    <3>3. client[d].h \in Handles \ {h}
      BY <1>11, <3>1, <3>2, OwnHandle DEF Owns, IInv
    <3>. QED BY <1>4, <2>1, <2>2, <3>2, <3>3 DEF IInv, AnswersOK
  <2>. QED BY <1>7, <1>10, <2>1, <2>2 DEF IInv, AnswersOK
<1>. QED BY <1>9, <1>12, <1>13, <1>14, <1>15, <1>16, <1>17 DEF IInv

\* ar_recycle() of a query that nobody was told of leaves it listed, recyclable
\* and its caller's all the same.
LEMMA RecycleOK == ASSUME IInv, NEW c \in Clients, Recycle(c) PROVE IInv'
<1>0. PICK h \in Handles : /\ client[c].h = h /\ client[c].pc = "failing"
                           /\ h # NoHandle
  BY OwnHandle DEF Recycle, IInv
<1>1. /\ recycled' = recycled \cup {h}
      /\ client' = [client EXCEPT ![c].pc = "refused"]
      /\ disp' = [disp EXCEPT !.pc = "tangled"]
      /\ UNCHANGED <<pending, active, query, buf, signalled, dead, netvars, ctl,
                     closed>>
  BY <1>0 DEF Recycle
<1>2. /\ client'[c] = [client[c] EXCEPT !.pc = "refused"]
      /\ client'[c].pc = "refused" /\ client'[c].h = h
      /\ client'[c].ask = client[c].ask /\ client'[c].res = client[c].res
      /\ client'[c] \in ClientType
      /\ \A d \in Clients \ {c} : client'[d] = client[d]
  BY <1>0, <1>1 DEF IInv, TypeOK, ClientType
<1>3. disp' \in DispType /\ disp'.pc = "tangled"
  BY <1>1 DEF IInv, TypeOK, DispType
<1>4. TypeOK'
  <2>1. client' \in [Clients -> ClientType] BY <1>1, <1>2 DEF IInv, TypeOK
  <2>. QED BY <1>1, <1>3, <2>1 DEF IInv, TypeOK, netvars
<1>5. Linked' = Linked /\ \A d \in Clients : Owns(d)' <=> Owns(d)
  BY <1>0, <1>1, <1>2 DEF Linked, Owns
<1>6. Placed'
  <2>1. NoTwice(pending') /\ NoTwice(active') /\ ToSet(pending') \cap ToSet(active') = {}
    BY <1>1 DEF IInv, Placed
  <2>2. \A d \in Clients : client'[d].h = client[d].h BY <1>0, <1>2
  <2>3. ASSUME NEW d \in Clients
        PROVE  /\ client'[d].h = NoHandle <=> client'[d].pc = "idle"
               /\ client'[d].h \in recycled' => client'[d].pc = "refused"
               /\ client'[d].h \in Linked' <=> Owns(d)'
               /\ \A e \in Clients :
                    client'[d].h = client'[e].h /\ client'[d].h # NoHandle => d = e
    <3>1. client'[d].h \in Linked' <=> Owns(d)'
      BY <1>5, <2>2 DEF IInv, Placed
    <3>2. \A e \in Clients :
            client'[d].h = client'[e].h /\ client'[d].h # NoHandle => d = e
      BY <2>2 DEF IInv, Placed
    <3>3. CASE d = c
      <4>1. client'[d].h # NoHandle BY <1>0, <1>2, <3>3
      <4>. QED BY <1>2, <3>1, <3>2, <3>3, <4>1
    <3>4. CASE d # c
      <4>1. client'[d] = client[d] BY <1>2, <3>4
      <4>2. client[d].h # h BY <1>0, <3>4, OwnHandle DEF IInv, Placed
      <4>3. /\ client[d].h = NoHandle <=> client[d].pc = "idle"
            /\ client[d].h \in recycled => client[d].pc = "refused"
        BY DEF IInv, Placed
      <4>4. client[d].h \in recycled' => client[d].h \in recycled
        BY <1>1, <4>2
      <4>. QED BY <3>1, <3>2, <4>1, <4>3, <4>4
    <3>. QED BY <3>3, <3>4
  <2>4. \A g \in Linked' : \E d \in Clients : client'[d].h = g
    BY <1>5, <2>2 DEF IInv, Placed
  <2>. QED BY <2>1, <2>3, <2>4 DEF Placed
<1>7. NoLostSignal' BY <1>1, <1>2 DEF IInv, NoLostSignal
<1>8. OutcomeOK'
  <2>1. ASSUME NEW d \in Clients
        PROVE  /\ ~Accepted(d)' => client'[d].res = "none"
               /\ client'[d].res = "SUCCESS" => "REPLY" \in query'[client'[d].h].flags
               /\ client'[d].res = "EXPIRED" => query'[client'[d].h].late
    <3>1. CASE d = c BY <1>0, <1>2, <3>1 DEF IInv, OutcomeOK, Accepted
    <3>2. CASE d # c BY <1>1, <1>2, <3>2 DEF IInv, OutcomeOK, Accepted
    <3>. QED BY <3>1, <3>2
  <2>. QED BY <2>1 DEF OutcomeOK
<1>9. NoLostWakeup' /\ ExpiryOK' /\ ConnOK'
  BY <1>1, <1>3 DEF IInv, NoLostWakeup, ExpiryOK, ConnOK, DispAt, netvars
<1>10. AnswersOK'
  <2>1. \A g : (AnswerOK(g)' <=> AnswerOK(g)) /\ (Trusted(g)' <=> Trusted(g))
    BY <1>1 DEF AnswerOK, Trusted, Final, netvars
  <2>2. \A d \in Clients : client'[d].h = client[d].h /\ client'[d].ask = client[d].ask
    BY <1>0, <1>2
  <2>. QED BY <1>1, <1>5, <2>1, <2>2 DEF IInv, AnswersOK
<1>. QED BY <1>4, <1>6, <1>7, <1>8, <1>9, <1>10 DEF IInv

\* Any step of a caller.
LEMMA ClientStepOK ==
    ASSUME IInv, TangledOK, NEW c \in Clients, ClientStep(c)
    PROVE  IInv'
<1>1. CASE \E a \in Questions : Add(c, a) BY <1>1, AddOK
<1>2. CASE \E l \in Limits : Enqueue(c, l) \/ EnqueueFails(c, l)
  <2>1. PICK l \in Limits : Enqueue(c, l) \/ EnqueueFails(c, l) BY <1>2
  <2>2. CASE Enqueue(c, l)
    <3>1. Submit(c, l, "held") /\ WakeDispatcher BY <2>2 DEF Enqueue
    <3>. QED BY <3>1, SubmitOK
  <2>3. CASE EnqueueFails(c, l)
    <3>1. Submit(c, l, "failing") /\ ctl' = ctl BY <2>3 DEF EnqueueFails
    <3>. QED BY <3>1, SubmitOK
  <2>. QED BY <2>1, <2>2, <2>3
<1>3. CASE \E w \in Waits : WaitBlock(c, w) BY <1>3, WaitBlockOK
<1>4. CASE WaitAtOnce(c) BY <1>4, WaitAtOnceOK
<1>5. CASE WakeUp(c) \/ Spurious(c) BY <1>5, AwakeOK DEF WakeUp, Spurious
<1>6. CASE TimedOut(c) BY <1>6, TimedOutOK
<1>7. CASE Cancel(c) BY <1>7, CancelOK
<1>8. CASE Recycle(c) BY <1>8, RecycleOK
<1>. QED BY <1>1, <1>2, <1>3, <1>4, <1>5, <1>6, <1>7, <1>8 DEF ClientStep

-----------------------------------------------------------------------------
(* The dispatcher and the environment: steps that touch no query.          *)

\* A step that moves the dispatcher on and touches nothing it shares with the
\* callers but the control socket.
LEMMA MoveOn ==
    ASSUME IInv, UNCHANGED <<libvars, netvars, client, closed>>,
           disp' \in DispType, ctl' \in Nat,
           disp'.pc = "select" /\ pending # <<>> => disp'.write,
           disp'.pc \in {"reconnRead", "reconnRetry"} => conn = "down"
    PROVE  IInv'
<1>1. TypeOK' BY DEF IInv, TypeOK, libvars, netvars
<1>2. NoLostWakeup'
  <2>1. pending = <<>> => ToSet(pending) = {} BY DEF ToSet
  <2>. QED BY <2>1 DEF NoLostWakeup, DispAt, libvars
<1>3. ConnOK' BY DEF IInv, ConnOK, netvars
<1>. QED BY <1>1, <1>2, <1>3, QuietStep DEF netvars

\* A step in which packets arrive, are answered or get lost.
LEMMA PacketStep ==
    ASSUME IInv, UNCHANGED <<libvars, conn, breaks, client, ctl, closed>>,
           \/ disp' = disp
           \/ disp' \in DispType /\ disp'.pc \in {"send", "exitedLocked"},
           net' \in [Handles -> SUBSET Packets],
           \A h \in Handles : \A m \in net'[h] : \E k \in net[h] : m.of = k.of
    PROVE  IInv'
<1>1. TypeOK' BY DEF IInv, TypeOK, libvars
<1>2. NoLostWakeup' BY DEF IInv, NoLostWakeup, DispAt, libvars
<1>3. ConnOK' BY DEF IInv, ConnOK
<1>. QED BY <1>1, <1>2, <1>3, QuietStep

\* The dispatcher enters and leaves select() and finds nothing to do.
LEMMA LoopOK ==
    ASSUME IInv, EnterSelect \/ LeaveSelect \/ ReadFails \/ ReadBroken
                 \/ NothingToSend \/ ReadControl \/ NothingToRetry \/ Join
    PROVE  IInv'
<1>. USE ArAssumption
<1>1. disp \in DispType /\ ctl \in Nat BY DEF IInv, TypeOK
<1>2. CASE EnterSelect BY <1>1, <1>2, MoveOn DEF EnterSelect, DispType
<1>3. CASE LeaveSelect
  <2>1. PICK ready \in SUBSET {"read", "write", "control"} :
          disp' = [disp EXCEPT !.pc = IF "read" \in ready THEN "read" ELSE "send",
                               !.ready = ready]
    BY <1>3 DEF LeaveSelect
  <2>2. disp' \in DispType /\ disp'.pc \in {"read", "send"}
    BY <1>1, <2>1 DEF DispType
  <2>. QED BY <1>1, <1>3, <2>2, MoveOn DEF LeaveSelect
<1>4. CASE ReadFails BY <1>1, <1>4, MoveOn DEF ReadFails, DispType
<1>5. CASE ReadBroken BY <1>1, <1>5, MoveOn DEF ReadBroken, DispType
<1>6. CASE NothingToSend BY <1>1, <1>6, MoveOn DEF NothingToSend, DispType
<1>7. CASE ReadControl
  <2>1. /\ ctl' \in Nat /\ UNCHANGED <<libvars, netvars, client, closed>>
        /\ \/ disp' = [disp EXCEPT !.pc = "exited"]
           \/ disp' = [disp EXCEPT !.pc = "expire", !.ready = {}, !.write = FALSE]
    BY <1>1, <1>7 DEF ReadControl
  <2>2. disp' \in DispType /\ disp'.pc \in {"exited", "expire"}
    BY <1>1, <2>1 DEF DispType
  <2>. QED BY <2>1, <2>2, MoveOn
<1>8. CASE NothingToRetry BY <1>1, <1>8, MoveOn DEF NothingToRetry, DispType
<1>9. CASE Join BY <1>1, <1>9, MoveOn DEF Join, DispType
<1>. QED BY <1>2, <1>3, <1>4, <1>5, <1>6, <1>7, <1>8, <1>9

\* A reply that no active query asked for, or that cannot be walked, changes no
\* query.
LEMMA ReadNothingOK ==
    ASSUME IInv, NEW h \in Handles, ReadStray(h) \/ ReadMalformed(h)
    PROVE  IInv'
<1>1. PICK m \in net[h] : net' = [net EXCEPT ![h] = @ \ {m}]
  BY DEF ReadStray, ReadMalformed, Received, Replies
<1>2. /\ net' \in [Handles -> SUBSET Packets]
      /\ \A g \in Handles : net'[g] \subseteq net[g]
  BY <1>1 DEF IInv, TypeOK
<1>3. disp' \in DispType /\ disp'.pc \in {"send", "exitedLocked"}
  BY DEF ReadStray, ReadMalformed, IInv, TypeOK, DispType
<1>4. \A g \in Handles : \A k \in net'[g] : \E l \in net[g] : k.of = l.of
  BY <1>2
<1>. QED BY <1>2, <1>3, <1>4, PacketStep DEF ReadStray, ReadMalformed

\* A nameserver answers a packet, or the packet is lost.
LEMMA NetworkOK ==
    ASSUME IInv, NEW h \in Handles, Reply(h) \/ Lose(h)
    PROVE  IInv'
<1>1. CASE Reply(h)
  <2>1. PICK m \in net[h], s \in Contents, keep \in BOOLEAN :
          net' = [net EXCEPT ![h] = (IF keep THEN @ ELSE @ \ {m})
                                    \cup {[kind |-> "reply", of |-> m.of, says |-> s]}]
    BY <1>1 DEF Reply
  <2>. DEFINE r == [kind |-> "reply", of |-> m.of, says |-> s]
  <2>2. m \in Packets BY DEF IInv, TypeOK
  <2>3. r \in Packets /\ r.of = m.of BY <2>2 DEF Packets
  <2>. HIDE DEF r
  <2>4. /\ net' \in [Handles -> SUBSET Packets]
        /\ \A g \in Handles \ {h} : net'[g] = net[g]
        /\ net'[h] \subseteq net[h] \cup {r}
    BY <2>1, <2>3 DEF IInv, TypeOK, r
  <2>5. \A g \in Handles : \A k \in net'[g] : \E l \in net[g] : k.of = l.of
    BY <2>3, <2>4
  <2>6. UNCHANGED <<libvars, conn, breaks, client, disp, ctl, closed>>
    BY <1>1 DEF Reply
  <2>. QED BY <2>4, <2>5, <2>6, PacketStep
<1>2. CASE Lose(h)
  <2>1. PICK m \in net[h] : net' = [net EXCEPT ![h] = @ \ {m}] BY <1>2 DEF Lose
  <2>2. /\ net' \in [Handles -> SUBSET Packets]
        /\ \A g \in Handles : \A k \in net'[g] : \E l \in net[g] : k.of = l.of
    BY <2>1 DEF IInv, TypeOK
  <2>3. UNCHANGED <<libvars, conn, breaks, client, disp, ctl, closed>>
    BY <1>2 DEF Lose
  <2>. QED BY <2>2, <2>3, PacketStep
<1>. QED BY <1>1, <1>2

\* The TCP connection breaks, or the retry scan gives it up.
LEMMA BreakOK == ASSUME IInv, Break \/ RetryTCP PROVE IInv'
<1>1. net' = [h \in Handles |-> {}] /\ conn' = "down"
  BY DEF Break, RetryTCP
<1>2. UNCHANGED <<libvars, client, ctl, closed>> BY DEF Break, RetryTCP
<1>3. disp' = disp \/ (disp'.pc = "reconnRetry" /\ disp' \in DispType)
  <2>1. ASSUME NEW i \in DOMAIN active PROVE active[i] \in Handles
    <3>1. i \in 1..Len(active) BY <2>1, ListIndices DEF IInv, TypeOK
    <3>. QED BY <3>1, ElementOfSeq DEF IInv, TypeOK
  <2>. QED BY <2>1 DEF Break, RetryTCP, IInv, TypeOK, DispType
<1>4. TypeOK' BY <1>1, <1>2, <1>3 DEF IInv, TypeOK, libvars
<1>5. NoLostWakeup' BY <1>2, <1>3 DEF IInv, NoLostWakeup, DispAt, libvars
<1>6. ConnOK' BY <1>1 DEF ConnOK
<1>. QED BY <1>1, <1>2, <1>4, <1>5, <1>6, QuietStep

\* ar_shutdown() closes the control socket.
LEMMA ShutdownOK == ASSUME IInv, Shutdown PROVE IInv'
<1>1. TypeOK' BY DEF Shutdown, IInv, TypeOK, libvars, netvars
<1>2. NoLostWakeup' /\ ConnOK'
  BY DEF Shutdown, IInv, NoLostWakeup, ConnOK, DispAt, libvars, netvars
<1>. QED BY <1>1, <1>2, QuietStep DEF Shutdown, netvars

-----------------------------------------------------------------------------
(* The dispatcher: steps that mark, send and move queries.                 *)

\* A step that leaves every query its question and its caller's buffer, and
\* takes no flag away.
LEMMA QueryStep ==
    ASSUME IInv, TypeOK', Placed', NoLostWakeup', NoLostSignal', ConnOK',
           UNCHANGED <<client, buf>>, Linked' = Linked,
           \A h \in Handles :
             /\ query'[h].at = query[h].at /\ query'[h].depth = query[h].depth
             /\ query[h].flags \subseteq query'[h].flags
             /\ query[h].late => query'[h].late
             /\ "NOREPLY" \in query'[h].flags
                => query'[h].late \/ "ERROR" \in query'[h].flags,
           \A h \in Linked : Trusted(h)' /\ h \in ToSet(active')
                             => \A m \in net'[h] : m.of = query[h].at
    PROVE  IInv'
<1>1. OutcomeOK' BY OutcomeKeep DEF IInv
<1>2. ExpiryOK' BY DEF ExpiryOK
<1>3. Linked \subseteq Handles BY ListIndices DEF IInv, TypeOK, Linked
<1>4. \A h \in Handles : Trusted(h)' => Trusted(h) BY DEF Trusted, NeverGivesUp
<1>5. AnswersOK'
  <2>1. ASSUME NEW h \in Linked, Trusted(h)' PROVE AnswerOK(h)'
    <3>1. h \in Handles /\ AnswerOK(h) BY <1>3, <1>4, <2>1 DEF IInv, AnswersOK
    <3>. QED BY <2>1, <3>1 DEF AnswerOK, Final
  <2>2. ASSUME NEW c \in Clients, Owns(c)', Trusted(client[c].h)'
        PROVE  query'[client'[c].h].at.ask = client'[c].ask
    <3>1. Owns(c) /\ client[c].h \in Handles
      BY <2>2, OwnHandle DEF Owns, IInv
    <3>2. PICK h \in Handles : client[c].h = h BY <3>1
    <3>3. client'[c].h = h BY <3>2
    <3>4. Trusted(h)' BY <2>2, <3>2, <3>3
    <3>. QED BY <1>4, <3>1, <3>2, <3>4 DEF IInv, AnswersOK
  <2>. QED BY <2>1, <2>2 DEF AnswersOK
<1>. QED BY <1>1, <1>2, <1>5 DEF IInv

\* Nobody is signalled when there is nothing to tell.
LEMMA SignalNone == SignalTo({}) = signalled
BY DEF SignalTo

\* Only handles are signalled.
LEMMA SignalType ==
    ASSUME TypeOK, NEW H, H \subseteq Handles
    PROVE  SignalTo(H) \subseteq Handles
BY DEF TypeOK, SignalTo

\* ar_expired() marks and signals the overdue queries.
LEMMA ExpireOK == ASSUME IInv, Expire PROVE IInv'
<1>1. PICK H \in SUBSET Handles :
        /\ \A h \in H : Expired(h)
        /\ query' = [h \in Handles |->
             IF h \in H THEN [query[h] EXCEPT !.flags = @ \cup {"NOREPLY"}]
                        ELSE query[h]]
        /\ signalled' = SignalTo(H)
  <2>. DEFINE H == {h \in ToSet(active) : Expired(h)}
  <2>1. H \subseteq Handles BY ListIndices DEF IInv, TypeOK
  <2>. QED BY <2>1 DEF Expire
<1>2. \A h \in Handles :
        query'[h] = IF h \in H THEN [query[h] EXCEPT !.flags = @ \cup {"NOREPLY"}]
                               ELSE query[h]
  BY <1>1
<1>3. \A h \in Handles :
        /\ query'[h] \in QueryType
        /\ query'[h].at = query[h].at /\ query'[h].depth = query[h].depth
        /\ query'[h].late = query[h].late
        /\ query'[h].flags = IF h \in H THEN query[h].flags \cup {"NOREPLY"}
                                        ELSE query[h].flags
  <2>. TAKE h \in Handles
  <2>1. query[h] \in QueryType BY DEF IInv, TypeOK
  <2>2. CASE h \in H
    <3>1. query'[h] = [query[h] EXCEPT !.flags = @ \cup {"NOREPLY"}] BY <1>2, <2>2
    <3>. QED BY <2>1, <2>2, <3>1 DEF QueryType, Flags
  <2>3. CASE h \notin H BY <1>2, <2>1, <2>3
  <2>. QED BY <2>2, <2>3
<1>4. disp' = [disp EXCEPT !.pc = "retry"]
      /\ UNCHANGED <<pending, active, recycled, buf, dead, netvars, client,
                     ctl, closed>>
  BY DEF Expire
<1>5. TypeOK'
  <2>1. query' \in [Handles -> QueryType] BY <1>1, <1>3
  <2>2. disp' \in DispType BY <1>4 DEF IInv, TypeOK, DispType
  <2>3. signalled' \subseteq Handles BY <1>1, SignalType DEF IInv
  <2>. QED BY <1>4, <2>1, <2>2, <2>3 DEF IInv, TypeOK, netvars
<1>6. Placed' BY <1>4, PlacedClients DEF IInv, Owns
<1>7. NoLostSignal'
  <2>1. \A h \in Handles \ H : query'[h].flags = query[h].flags BY <1>3
  <2>. QED BY <1>1, <1>4, <2>1, SignalKeep DEF IInv
<1>8. disp'.pc = "retry" BY <1>4 DEF IInv, TypeOK, DispType
<1>9. NoLostWakeup' /\ ConnOK'
  BY <1>4, <1>8 DEF IInv, NoLostWakeup, DispAt, ConnOK, netvars
<1>10. \A h \in Handles :
         "NOREPLY" \in query'[h].flags => query'[h].late \/ "ERROR" \in query'[h].flags
  BY <1>1, <1>3 DEF Expired, IInv, ExpiryOK
<1>11. \A h \in Linked : Trusted(h)' /\ h \in ToSet(active')
                         => \A m \in net'[h] : m.of = query[h].at
  <2>1. Linked \subseteq Handles BY ListIndices DEF IInv, TypeOK, Linked
  <2>. QED BY <1>3, <1>4, <2>1
           DEF IInv, AnswersOK, AnswerOK, Trusted, NeverGivesUp, netvars
<1>12. Linked' = Linked BY <1>4 DEF Linked
<1>. QED BY <1>3, <1>4, <1>5, <1>6, <1>7, <1>9, <1>10, <1>11, <1>12, QueryStep

\* A timer of a query runs out.
LEMMA ElapseOK ==
    ASSUME IInv, NEW h \in Handles, RetryElapses(h) \/ QueryElapses(h)
    PROVE  IInv'
<1>1. UNCHANGED <<pending, active, recycled, buf, signalled, dead,
                  netvars, client, disp, ctl, closed>>
  BY DEF RetryElapses, QueryElapses
<1>2. \/ query' = [query EXCEPT ![h].due = TRUE]
      \/ query' = [query EXCEPT ![h].late = TRUE]
  BY DEF RetryElapses, QueryElapses
<1>3. /\ query' \in [Handles -> QueryType]
      /\ \A g \in Handles :
           /\ query'[g].at = query[g].at /\ query'[g].depth = query[g].depth
           /\ query'[g].flags = query[g].flags
           /\ query[g].late => query'[g].late
  <2>1. PICK q \in QueryType :
          /\ query' = [query EXCEPT ![h] = q]
          /\ q.at = query[h].at /\ q.depth = query[h].depth
          /\ q.flags = query[h].flags /\ (query[h].late => q.late)
    <3>1. query[h] \in QueryType BY DEF IInv, TypeOK
    <3>2. CASE query' = [query EXCEPT ![h].due = TRUE]
      <4>1. [query[h] EXCEPT !.due = TRUE] \in QueryType BY <3>1 DEF QueryType
      <4>. QED BY <3>1, <3>2, <4>1 DEF QueryType
    <3>3. CASE query' = [query EXCEPT ![h].late = TRUE]
      <4>1. [query[h] EXCEPT !.late = TRUE] \in QueryType BY <3>1 DEF QueryType
      <4>. QED BY <3>1, <3>3, <4>1 DEF QueryType
    <3>. QED BY <1>2, <3>2, <3>3
  <2>. QED BY <2>1 DEF IInv, TypeOK
<1>4. TypeOK' BY <1>1, <1>3 DEF IInv, TypeOK, netvars
<1>5. Placed' BY <1>1, PlacedClients DEF IInv, Owns
<1>6. NoLostSignal'
  BY <1>1, <1>3, SignalKeep, SignalNone DEF IInv
<1>7. NoLostWakeup' /\ ConnOK'
  BY <1>1 DEF IInv, NoLostWakeup, DispAt, ConnOK, netvars
<1>8. \A g \in Handles :
        "NOREPLY" \in query'[g].flags => query'[g].late \/ "ERROR" \in query'[g].flags
  BY <1>3 DEF IInv, ExpiryOK
<1>9. \A g \in Linked : Trusted(g)' /\ g \in ToSet(active')
                        => \A m \in net'[g] : m.of = query[g].at
  <2>1. Linked \subseteq Handles BY ListIndices DEF IInv, TypeOK, Linked
  <2>. QED BY <1>1, <1>3, <2>1
           DEF IInv, AnswersOK, AnswerOK, Trusted, NeverGivesUp, netvars
<1>10. Linked' = Linked BY <1>1 DEF Linked
<1>. QED BY <1>1, <1>3, <1>4, <1>5, <1>6, <1>7, <1>8, <1>9, <1>10, QueryStep

\* ar_sendquery(): the packet belongs to the question, and whoever waits for
\* the query is signalled when it is given up or cannot be sent.
LEMMA SendQueryFacts ==
    ASSUME IInv, NEW h \in Handles, SendQuery(h)
    PROVE  /\ query' \in [Handles -> QueryType]
           /\ net' \in [Handles -> SUBSET Packets]
           /\ signalled' \subseteq Handles
           /\ \A g \in Handles \ {h} : query'[g] = query[g] /\ net'[g] = net[g]
           /\ query'[h].at = query[h].at /\ query'[h].depth = query[h].depth
           /\ query'[h].late = query[h].late
           /\ query[h].flags \subseteq query'[h].flags
           /\ "NOREPLY" \in query'[h].flags => "NOREPLY" \in query[h].flags
           /\ Trusted(h)' => \A m \in net'[h] : m.of = query[h].at
           /\ conn = "down" => net'[h] = {}
           /\ client' = client => NoLostSignal'
<1>1. CASE GiveUp(h)
  <2>1. /\ query' = [query EXCEPT ![h].flags = @ \cup {"ERROR"}]
        /\ signalled' = SignalTo({h}) /\ net' = net
    BY <1>1 DEF GiveUp
  <2>2. /\ query' \in [Handles -> QueryType]
        /\ \A g \in Handles \ {h} : query'[g] = query[g]
        /\ query'[h].at = query[h].at /\ query'[h].depth = query[h].depth
        /\ query'[h].late = query[h].late
        /\ query'[h].flags = query[h].flags \cup {"ERROR"}
    BY <2>1 DEF IInv, TypeOK, QueryType, Flags
  <2>3. ~NeverGivesUp
    BY <1>1, ArAssumption DEF GiveUp, Exhausted, NeverGivesUp
  <2>4. ~Trusted(h)' BY <2>2, <2>3 DEF Trusted, NeverGivesUp
  <2>5. client' = client => NoLostSignal' BY <2>1, <2>2, SignalKeep DEF IInv
  <2>6. signalled' \subseteq Handles BY <2>1, SignalType DEF IInv
  <2>. QED BY <2>1, <2>2, <2>4, <2>5, <2>6 DEF IInv, TypeOK, ConnOK
<1>2. ASSUME NEW ok \in BOOLEAN, Transmit(h, ok)
      PROVE  /\ query' \in [Handles -> QueryType]
             /\ net' \in [Handles -> SUBSET Packets]
             /\ signalled' \subseteq Handles
             /\ \A g \in Handles \ {h} : query'[g] = query[g] /\ net'[g] = net[g]
             /\ query'[h].at = query[h].at /\ query'[h].depth = query[h].depth
             /\ query'[h].late = query[h].late
             /\ query[h].flags \subseteq query'[h].flags
             /\ "NOREPLY" \in query'[h].flags => "NOREPLY" \in query[h].flags
             /\ \A m \in net'[h] : m.of = query[h].at
             /\ conn = "down" => net'[h] = {}
             /\ client' = client => NoLostSignal'
  <2>1. /\ query' = [query EXCEPT
                       ![h].flags = IF ok THEN @ ELSE @ \cup {"REPLY"},
                       ![h].tries = IF Retries = 0 THEN 0 ELSE @ + 1,
                       ![h].due = FALSE]
        /\ signalled' = IF ok THEN signalled ELSE SignalTo({h})
        /\ net' = [net EXCEPT ![h] = IF ok /\ conn = "up" THEN {Request(h)} ELSE {}]
    BY <1>2 DEF Transmit
  <2>2. /\ query' \in [Handles -> QueryType]
        /\ \A g \in Handles \ {h} : query'[g] = query[g]
        /\ query'[h].at = query[h].at /\ query'[h].depth = query[h].depth
        /\ query'[h].late = query[h].late
        /\ query'[h].flags = IF ok THEN query[h].flags
                                   ELSE query[h].flags \cup {"REPLY"}
    <3>. DEFINE f == IF ok THEN query[h].flags ELSE query[h].flags \cup {"REPLY"}
                t == IF Retries = 0 THEN 0 ELSE query[h].tries + 1
                q == [query[h] EXCEPT !.flags = f, !.tries = t, !.due = FALSE]
    <3>1. query[h] \in QueryType BY DEF IInv, TypeOK
    <3>2. f \in SUBSET Flags BY <3>1 DEF QueryType, Flags
    <3>3. t \in Nat BY <3>1 DEF QueryType
    <3>4. query' = [query EXCEPT ![h] = q]
      BY <2>1, <3>1 DEF IInv, TypeOK, QueryType
    <3>. HIDE DEF f, t
    <3>5. /\ q \in QueryType /\ q.flags = f
          /\ q.at = query[h].at /\ q.depth = query[h].depth /\ q.late = query[h].late
      BY <3>1, <3>2, <3>3 DEF QueryType
    <3>. HIDE DEF q
    <3>. QED BY <3>4, <3>5 DEF IInv, TypeOK, f
  <2>3. Request(h) \in Packets /\ Request(h).of = query[h].at
    BY DEF Request, Packets, IInv, TypeOK, QueryType
  <2>4. /\ net' \in [Handles -> SUBSET Packets]
        /\ \A g \in Handles \ {h} : net'[g] = net[g]
        /\ \A m \in net'[h] : m = Request(h)
        /\ conn = "down" => net'[h] = {}
    BY <2>1, <2>3 DEF IInv, TypeOK
  <2>5. client' = client => NoLostSignal'
    BY <2>1, <2>2, SignalKeep, SignalNone DEF IInv
  <2>6. signalled' \subseteq Handles BY <2>1, SignalType DEF IInv, TypeOK
  <2>. QED BY <2>2, <2>3, <2>4, <2>5, <2>6
<1>. QED BY <1>1, <1>2 DEF SendQuery

\* A step in which the dispatcher sends one query, active before or after.
LEMMA SendStep ==
    ASSUME IInv, NEW h \in Handles, SendQuery(h),
           UNCHANGED <<recycled, buf, dead, conn, breaks, client, ctl, closed>>,
           pending' \in Seq(Handles), active' \in Seq(Handles),
           disp' \in DispType, disp'.pc \in {"control", "top"},
           Placed', Linked' = Linked,
           ToSet(active') \subseteq ToSet(active) \cup {h}
    PROVE  IInv'
<1>1. TypeOK' BY SendQueryFacts DEF IInv, TypeOK
<1>2. NoLostSignal' BY SendQueryFacts
<1>3. NoLostWakeup' BY DEF NoLostWakeup, DispAt
<1>4. ConnOK' BY SendQueryFacts DEF IInv, ConnOK
<1>5. ASSUME NEW g \in Handles
      PROVE  /\ query'[g].at = query[g].at /\ query'[g].depth = query[g].depth
             /\ query[g].flags \subseteq query'[g].flags
             /\ query[g].late => query'[g].late
             /\ "NOREPLY" \in query'[g].flags
                => query'[g].late \/ "ERROR" \in query'[g].flags
  <2>1. CASE g = h BY <2>1, SendQueryFacts DEF IInv, ExpiryOK
  <2>2. CASE g # h
    <3>1. query'[g] = query[g] BY <2>2, SendQueryFacts
    <3>. QED BY <3>1 DEF IInv, ExpiryOK
  <2>. QED BY <2>1, <2>2
<1>6. ASSUME NEW g \in Linked, Trusted(g)', g \in ToSet(active')
      PROVE  \A m \in net'[g] : m.of = query[g].at
  <2>1. CASE g = h BY <1>6, <2>1, SendQueryFacts
  <2>2. CASE g # h
    <3>1. g \in Handles BY ListIndices DEF IInv, TypeOK, Linked
    <3>2. query'[g] = query[g] /\ net'[g] = net[g] BY <2>2, <3>1, SendQueryFacts
    <3>3. Trusted(g) BY <1>6, <3>2 DEF Trusted, NeverGivesUp
    <3>. QED BY <1>6, <2>2, <3>2, <3>3 DEF IInv, AnswersOK, AnswerOK
  <2>. QED BY <2>1, <2>2
<1>. QED BY <1>1, <1>2, <1>3, <1>4, <1>5, <1>6, QueryStep

\* The first pending query is sent and becomes active.
LEMMA SendPendingOK == ASSUME IInv, SendPending PROVE IInv'
<1>1. PICK h \in Handles : /\ h = Head(pending) /\ SendQuery(h)
                           /\ pending' = Tail(pending)
                           /\ active' = Append(active, h)
                           /\ disp' = [disp EXCEPT !.pc = "control"]
  BY TailList DEF SendPending, IInv, TypeOK
<1>2. UNCHANGED <<recycled, buf, dead, conn, breaks, client, ctl, closed>>
      /\ pending # <<>>
  BY DEF SendPending
<1>3. /\ pending' \in Seq(Handles) /\ NoTwice(pending')
      /\ ToSet(pending') = ToSet(pending) \ {h} /\ h \in ToSet(pending)
  BY <1>1, <1>2, TailList DEF IInv, TypeOK, Placed
<1>4. h \notin ToSet(active) BY <1>3 DEF IInv, Placed
<1>5. /\ active' \in Seq(Handles) /\ NoTwice(active')
      /\ ToSet(active') = ToSet(active) \cup {h}
  BY <1>1, <1>4, AppendList DEF IInv, TypeOK, Placed
<1>6. Linked' = Linked BY <1>3, <1>5 DEF Linked
<1>7. ToSet(pending') \cap ToSet(active') = {}
  BY <1>3, <1>5 DEF IInv, Placed
<1>8. Placed' BY <1>2, <1>3, <1>5, <1>6, <1>7, PlacedLists DEF IInv
<1>9. disp' \in DispType /\ disp'.pc = "control"
  BY <1>1 DEF IInv, TypeOK, DispType
<1>. QED BY <1>1, <1>2, <1>3, <1>5, <1>6, <1>8, <1>9, SendStep

\* Over UDP the first query whose retry interval has passed is sent again.
LEMMA RetryUDPOK == ASSUME IInv, RetryUDP PROVE IInv'
<1>1. PICK h \in Handles : SendQuery(h)
  <2>1. PICK i \in DOMAIN active : SendQuery(active[i]) BY DEF RetryUDP
  <2>2. i \in 1..Len(active) BY <2>1, ListIndices DEF IInv, TypeOK
  <2>3. active[i] \in Handles BY <2>2, ElementOfSeq DEF IInv, TypeOK
  <2>. QED BY <2>1, <2>3
<1>2. UNCHANGED <<pending, active, recycled, buf, dead, conn, breaks, client,
                  ctl, closed>>
  BY DEF RetryUDP
<1>3. Placed' BY <1>2, PlacedClients DEF IInv, Owns
<1>4. disp' \in DispType /\ disp'.pc = "top"
  BY DEF RetryUDP, IInv, TypeOK, DispType
<1>5. Linked' = Linked /\ pending' \in Seq(Handles) /\ active' \in Seq(Handles)
      /\ ToSet(active') \subseteq ToSet(active)
  BY <1>2 DEF IInv, TypeOK, Linked
<1>. QED BY <1>1, <1>2, <1>3, <1>4, <1>5, SendStep

\* ar_requeue() loses nothing and doubles nothing.
LEMMA ReconnectOK == ASSUME IInv, Reconnect PROVE IInv'
<1>. USE ArAssumption
<1>1. /\ conn' = "up" /\ pending' = active \o pending /\ active' = <<>>
      /\ disp' = [disp EXCEPT !.pc = "top", !.q = NoHandle]
      /\ UNCHANGED <<recycled, query, buf, signalled, dead, net, breaks,
                     client, closed>>
      /\ ctl' \in {ctl, ctl + 1}
  BY DEF Reconnect, WakeDispatcher
<1>2. /\ pending' \in Seq(Handles) /\ NoTwice(pending')
      /\ ToSet(pending') = ToSet(active) \cup ToSet(pending)
  BY <1>1, ConcatList DEF IInv, TypeOK, Placed
<1>3. active' \in Seq(Handles) /\ NoTwice(active') /\ ToSet(active') = {}
  BY <1>1 DEF NoTwice, ToSet
<1>4. Linked' = Linked BY <1>2, <1>3 DEF Linked
<1>5. Placed' BY <1>1, <1>2, <1>3, <1>4, PlacedLists DEF IInv
<1>6. disp' \in DispType /\ disp'.pc = "top"
  BY <1>1 DEF IInv, TypeOK, DispType
<1>7. TypeOK' BY <1>1, <1>2, <1>3, <1>6 DEF IInv, TypeOK
<1>8. NoLostWakeup' /\ ConnOK' BY <1>1, <1>6 DEF NoLostWakeup, DispAt, ConnOK
<1>9. NoLostSignal' BY <1>1 DEF IInv, NoLostSignal
<1>10. \A h \in Handles :
         "NOREPLY" \in query'[h].flags => query'[h].late \/ "ERROR" \in query'[h].flags
  BY <1>1 DEF IInv, ExpiryOK
<1>. QED BY <1>1, <1>3, <1>4, <1>5, <1>7, <1>8, <1>9, <1>10, QueryStep

\* ar_alldead() marks and signals the queries it reaches, over a connection that
\* has lost every packet.
LEMMA MarkDeadOK ==
    ASSUME IInv, NEW H \in SUBSET Handles, MarkDead(H),
           disp.pc \in {"reconnRead", "reconnRetry"},
           disp' \in DispType, disp'.pc \in {"exited", "stuck"}, dead' \in BOOLEAN
    PROVE  IInv'
<1>1. /\ active' = active \o pending /\ pending' = <<>>
      /\ query' = [h \in Handles |->
                     IF h \in H
                     THEN [query[h] EXCEPT !.flags = @ \cup {"NOREPLY", "ERROR"}]
                     ELSE query[h]]
      /\ signalled' = SignalTo(H)
      /\ UNCHANGED <<recycled, buf, netvars, client, ctl, closed>>
  BY DEF MarkDead
<1>2. /\ active' \in Seq(Handles) /\ NoTwice(active')
      /\ ToSet(active') = ToSet(active) \cup ToSet(pending)
  BY <1>1, ConcatList DEF IInv, TypeOK, Placed
<1>3. pending' \in Seq(Handles) /\ NoTwice(pending') /\ ToSet(pending') = {}
  BY <1>1 DEF NoTwice, ToSet
<1>4. Linked' = Linked BY <1>2, <1>3 DEF Linked
<1>5. Placed' BY <1>1, <1>2, <1>3, <1>4, PlacedLists DEF IInv
<1>6. \A h \in Handles :
        /\ query'[h] \in QueryType
        /\ query'[h].at = query[h].at /\ query'[h].depth = query[h].depth
        /\ query'[h].late = query[h].late
        /\ query'[h].flags = IF h \in H THEN query[h].flags \cup {"NOREPLY", "ERROR"}
                                        ELSE query[h].flags
  <2>. TAKE h \in Handles
  <2>1. query[h] \in QueryType BY DEF IInv, TypeOK
  <2>2. CASE h \in H
    <3>1. query'[h] = [query[h] EXCEPT !.flags = @ \cup {"NOREPLY", "ERROR"}]
      BY <1>1, <2>2
    <3>. QED BY <2>1, <2>2, <3>1 DEF QueryType, Flags
  <2>3. CASE h \notin H BY <1>1, <2>1, <2>3
  <2>. QED BY <2>2, <2>3
<1>7. TypeOK'
  <2>1. query' \in [Handles -> QueryType] BY <1>1, <1>6
  <2>2. signalled' \subseteq Handles BY <1>1, SignalType DEF IInv
  <2>. QED BY <1>1, <1>2, <1>3, <2>1, <2>2 DEF IInv, TypeOK, netvars
<1>8. NoLostWakeup' /\ ConnOK'
  BY <1>1 DEF IInv, NoLostWakeup, DispAt, ConnOK, netvars
<1>9. NoLostSignal'
  <2>1. \A h \in Handles \ H : query'[h].flags = query[h].flags BY <1>6
  <2>. QED BY <1>1, <2>1, SignalKeep DEF IInv
<1>10. \A h \in Handles :
         "NOREPLY" \in query'[h].flags => query'[h].late \/ "ERROR" \in query'[h].flags
  BY <1>6 DEF IInv, ExpiryOK
<1>11. \A h \in Handles : net'[h] = {} BY <1>1 DEF IInv, ConnOK, netvars
<1>12. Linked \subseteq Handles BY ListIndices DEF IInv, TypeOK, Linked
<1>. QED BY <1>1, <1>4, <1>5, <1>6, <1>7, <1>8, <1>9, <1>10, <1>11, <1>12, QueryStep

\* No nameserver is left: all queries are marked, or those in front of the one
\* whose q_lock the retry scan still holds.
LEMMA AllDeadOK == ASSUME IInv, AllDead \/ AllDeadStuck PROVE IInv'
<1>1. CASE AllDead
  <2>1. Linked \subseteq Handles BY ListIndices DEF IInv, TypeOK, Linked
  <2>2. disp' \in DispType /\ disp'.pc = "exited"
    BY <1>1 DEF AllDead, IInv, TypeOK, DispType
  <2>. QED BY <1>1, <2>1, <2>2, MarkDeadOK DEF AllDead
<1>2. CASE AllDeadStuck
  <2>. DEFINE all == active \o pending
  <2>1. all \in Seq(Handles) BY ConcatList DEF IInv, TypeOK
  <2>2. PICK i \in DOMAIN all : MarkDead({all[j] : j \in 1..(i - 1)})
    BY <1>2 DEF AllDeadStuck
  <2>. HIDE DEF all
  <2>3. i \in 1..Len(all) /\ Len(all) \in Nat BY <2>1, <2>2, ListIndices
  <2>4. {all[j] : j \in 1..(i - 1)} \in SUBSET Handles
    <3>1. \A j \in 1..(i - 1) : j \in 1..Len(all) BY <2>3
    <3>. QED BY <2>1, <3>1, ElementOfSeq
  <2>5. disp' \in DispType /\ disp'.pc = "stuck" /\ dead' \in BOOLEAN
        /\ disp.pc = "reconnRetry"
    BY <1>2 DEF AllDeadStuck, DispAt, IInv, TypeOK, DispType
  <2>. QED BY <2>2, <2>4, <2>5, MarkDeadOK
<1>. QED BY <1>1, <1>2

-----------------------------------------------------------------------------
(* The dispatcher: replies.                                                *)

\* A query's packets, where they are trusted, follow the chain as far as the
\* caller's depth allows and no further.
LEMMA ReplyFacts ==
    ASSUME IInv, NEW h \in ToSet(active), NEW m \in Replies(h)
    PROVE  /\ h \in Handles /\ h \in Linked /\ m \in Packets /\ query[h] \in QueryType
           /\ Trusted(h) => /\ m.of = query[h].at
                            /\ AnswerOK(h)
<1>1. h \in Handles /\ h \in Linked
  BY ListIndices DEF IInv, TypeOK, Linked
<1>2. m \in net[h] BY DEF Replies
<1>. QED BY <1>1, <1>2 DEF IInv, TypeOK, AnswersOK, AnswerOK

\* The reply reaches the caller's buffer: it is the end of the chain, or as far
\* as the caller's depth goes.
LEMMA ReadAnswerOK == ASSUME IInv, NEW h \in Handles, ReadAnswer(h) PROVE IInv'
<1>. USE ArAssumption
<1>1. PICK m \in Replies(h) :
        /\ DepthLeft(h, m) > 0 => ~IsAlias(m)
        /\ Received(h, m)
        /\ query' = [query EXCEPT ![h].depth = DepthLeft(h, m),
                                  ![h].flags = @ \cup {"REPLY"}]
        /\ Pack(h, m)
  BY DEF ReadAnswer
<1>2. /\ h \in ToSet(active) /\ signalled' = SignalTo({h})
      /\ disp' = [disp EXCEPT !.pc = "send"]
      /\ UNCHANGED <<pending, active, recycled, dead, conn, breaks, client, ctl,
                     closed>>
  BY DEF ReadAnswer
<1>3. /\ h \in Linked /\ m \in Packets /\ query[h] \in QueryType
      /\ Trusted(h) => m.of = query[h].at /\ AnswerOK(h)
  BY <1>2, ReplyFacts
<1>4. m.of \in Links /\ m.says \in Contents /\ DepthLeft(h, m) \in Nat
  BY <1>3 DEF Packets, DepthLeft, QueryType, Replies
<1>5. PICK q \in QueryType :
        /\ query' = [query EXCEPT ![h] = q]
        /\ q.depth = DepthLeft(h, m) /\ q.flags = query[h].flags \cup {"REPLY"}
        /\ q.at = query[h].at /\ q.late = query[h].late
  <2>. DEFINE q == [query[h] EXCEPT !.depth = DepthLeft(h, m),
                                    !.flags = query[h].flags \cup {"REPLY"}]
  <2>1. query' = [query EXCEPT ![h] = q] BY <1>1, <1>3 DEF IInv, TypeOK, QueryType
  <2>2. /\ q \in QueryType
        /\ q.depth = DepthLeft(h, m) /\ q.flags = query[h].flags \cup {"REPLY"}
        /\ q.at = query[h].at /\ q.late = query[h].late
    BY <1>3, <1>4 DEF QueryType, Flags
  <2>. QED BY <2>1, <2>2
<1>6. /\ query' \in [Handles -> QueryType] /\ query'[h] = q
      /\ \A g \in Handles \ {h} : query'[g] = query[g]
  BY <1>5 DEF IInv, TypeOK
<1>7. /\ buf' \in [Handles -> Texts \cup {<<>>}] /\ Answered(buf'[h]) = m.of
      /\ \A g \in Handles \ {h} : buf'[g] = buf[g]
  <2>. DEFINE b == [ask |-> m.of.ask, hop |-> m.of.hop, says |-> m.says]
  <2>1. b \in Texts /\ Answered(b) = m.of BY <1>4 DEF Texts, Links, Answered
  <2>2. buf' = [buf EXCEPT ![h] = b] BY <1>1 DEF Pack
  <2>. HIDE DEF b
  <2>. QED BY <2>1, <2>2 DEF IInv, TypeOK
<1>8. /\ net' \in [Handles -> SUBSET Packets]
      /\ \A g \in Handles : net'[g] \subseteq net[g]
  BY <1>1 DEF Received, IInv, TypeOK
<1>9. disp' \in DispType /\ disp'.pc = "send" BY <1>2 DEF IInv, TypeOK, DispType
<1>10. TypeOK'
  <2>1. signalled' \subseteq Handles BY <1>2, SignalType DEF IInv
  <2>. QED BY <1>2, <1>6, <1>7, <1>8, <1>9, <2>1 DEF IInv, TypeOK
<1>11. Placed' BY <1>2, PlacedClients DEF IInv, Owns
<1>12. NoLostSignal'
  <2>1. \A g \in Handles \ {h} : query'[g].flags = query[g].flags BY <1>6
  <2>. QED BY <1>2, <2>1, SignalKeep DEF IInv
<1>13. NoLostWakeup' /\ ConnOK'
  BY <1>2, <1>8, <1>9 DEF IInv, NoLostWakeup, DispAt, ConnOK
<1>14. \A g \in Handles :
         /\ "REPLY" \in query[g].flags => "REPLY" \in query'[g].flags
         /\ query[g].late => query'[g].late
         /\ Trusted(g)' <=> Trusted(g)
         /\ "NOREPLY" \in query'[g].flags => "NOREPLY" \in query[g].flags
         /\ "ERROR" \in query[g].flags => "ERROR" \in query'[g].flags
         /\ query'[g].at = query[g].at
  <2>. TAKE g \in Handles
  <2>1. CASE g = h BY <1>5, <1>6, <2>1 DEF Trusted, NeverGivesUp
  <2>2. CASE g # h BY <1>6, <2>2 DEF Trusted, NeverGivesUp
  <2>. QED BY <2>1, <2>2
<1>15. OutcomeOK' BY <1>2, <1>14, OutcomeKeep DEF IInv
<1>16. ExpiryOK' BY <1>14 DEF IInv, ExpiryOK
<1>17. ASSUME Trusted(h) PROVE AnswerOK(h)'
  <2>1. m.of = query[h].at /\ AnswerOK(h) BY <1>3, <1>17
  <2>2. query[h].at \in Links /\ query[h].depth \in Nat
    BY <1>3 DEF QueryType
  <2>3. Final(query[h].at)
    <3>1. CASE query[h].at.ask \in Oversized BY <3>1 DEF Final
    <3>2. CASE query[h].at.ask \notin Oversized /\ query[h].depth = 0
      <4>1. query[h].at.hop + 0 = Depth BY <2>1, <3>2 DEF AnswerOK
      <4>2. query[h].at.hop = Depth BY <2>2, <4>1 DEF Links
      <4>. QED BY <4>2 DEF Final
    <3>3. CASE query[h].at.ask \notin Oversized /\ query[h].depth > 0
      <4>1. ~IsAlias(m) BY <1>1, <2>1, <3>3 DEF DepthLeft
      <4>2. ~(query[h].at.hop < Chain[query[h].at.ask]) BY <2>1, <4>1 DEF IsAlias
      <4>3. query[h].at.hop <= Chain[query[h].at.ask] BY <2>1 DEF AnswerOK
      <4>4. Chain[query[h].at.ask] \in Nat /\ query[h].at.hop \in Nat
        BY <2>2 DEF Links
      <4>5. query[h].at.hop = Chain[query[h].at.ask] BY <4>2, <4>3, <4>4
      <4>. QED BY <4>5 DEF Final
    <3>. QED BY <2>2, <3>1, <3>2, <3>3
  <2>4. \/ query'[h].at.ask \in Oversized
        \/ query'[h].at.hop + query'[h].depth = Depth
    BY <1>5, <1>6, <2>1 DEF AnswerOK, DepthLeft
  <2>5. query'[h].at = query[h].at /\ "REPLY" \in query'[h].flags
        /\ Answered(buf'[h]) = query[h].at
    BY <1>5, <1>6, <1>7, <2>1
  <2>6. \A k \in net'[h] : k.of = query[h].at
    BY <1>2, <1>8, <2>1 DEF AnswerOK
  <2>7. Final(query'[h].at) BY <2>3, <2>5
  <2>. QED BY <2>1, <2>4, <2>5, <2>6, <2>7 DEF AnswerOK, Final, Answered
<1>18. AnswersOK'
  <2>1. ASSUME NEW g \in Handles, g # h, AnswerOK(g) PROVE AnswerOK(g)'
    <3>1. query'[g] = query[g] /\ buf'[g] = buf[g] /\ net'[g] \subseteq net[g]
      BY <1>6, <1>7, <1>8, <2>1
    <3>. QED BY <1>2, <2>1, <3>1 DEF AnswerOK, Final
  <2>2. Linked' = Linked /\ Linked \subseteq Handles
    BY <1>2, ListIndices DEF IInv, TypeOK, Linked
  <2>3. ASSUME NEW g \in Linked', Trusted(g)' PROVE AnswerOK(g)'
    BY <1>14, <1>17, <2>1, <2>2, <2>3 DEF IInv, AnswersOK
  <2>4. ASSUME NEW c \in Clients, Owns(c)', Trusted(client[c].h)'
        PROVE  query'[client'[c].h].at.ask = client'[c].ask
    <3>1. PICK g \in Handles : client[c].h = g /\ Owns(c)
      BY <1>2, <2>4, OwnHandle DEF Owns, IInv
    <3>2. Trusted(g)' BY <1>2, <2>4, <3>1
    <3>. QED BY <1>2, <1>14, <3>1, <3>2 DEF IInv, AnswersOK
  <2>. QED BY <2>3, <2>4 DEF AnswersOK
<1>. QED BY <1>10, <1>11, <1>12, <1>13, <1>15, <1>16, <1>18 DEF IInv

\* The reply names a CNAME: ar_requery() asks for its target, with one less to go
\* and a packet of its own.
LEMMA ReadAliasOK == ASSUME IInv, NEW h \in Handles, ReadAlias(h) PROVE IInv'
<1>. USE ArAssumption
<1>1. PICK m \in Replies(h) :
        /\ DepthLeft(h, m) > 0 /\ IsAlias(m)
        /\ Received(h, m)
        /\ query' = [query EXCEPT ![h].depth = @ - 1,
                                  ![h].at = [m.of EXCEPT !.hop = @ + 1]]
  BY DEF ReadAlias
<1>2. /\ h \in ToSet(active)
      /\ active' = Unlink(active, h) /\ pending' = <<h>> \o pending
      /\ disp' = [disp EXCEPT !.pc = "send"]
      /\ UNCHANGED <<recycled, buf, signalled, dead, conn, breaks, client, ctl,
                     closed>>
  BY DEF ReadAlias
<1>3. /\ h \in Linked /\ m \in Packets /\ query[h] \in QueryType
      /\ Trusted(h) => m.of = query[h].at /\ AnswerOK(h)
  BY <1>2, ReplyFacts
<1>4. /\ m.of \in Links /\ query[h].depth \in Nat /\ query[h].depth > 0
      /\ m.of.ask \notin Oversized
  BY <1>1, <1>3 DEF Packets, DepthLeft, QueryType
<1>5. PICK q \in QueryType :
        /\ query' = [query EXCEPT ![h] = q]
        /\ q.depth = query[h].depth - 1 /\ q.flags = query[h].flags
        /\ q.at = [m.of EXCEPT !.hop = @ + 1] /\ q.late = query[h].late
  <2>. DEFINE a == [m.of EXCEPT !.hop = @ + 1]
              q == [query[h] EXCEPT !.depth = query[h].depth - 1, !.at = a]
  <2>1. a \in Links BY <1>4 DEF Links
  <2>2. query' = [query EXCEPT ![h] = q] BY <1>1, <1>3 DEF IInv, TypeOK, QueryType
  <2>3. query[h].depth - 1 \in Nat BY <1>4
  <2>. HIDE DEF a
  <2>4. /\ q \in QueryType
        /\ q.depth = query[h].depth - 1 /\ q.flags = query[h].flags
        /\ q.at = a /\ q.late = query[h].late
    BY <1>3, <2>1, <2>3 DEF QueryType
  <2>. QED BY <2>2, <2>4 DEF a
<1>6. /\ query' \in [Handles -> QueryType] /\ query'[h] = q
      /\ \A g \in Handles \ {h} : query'[g] = query[g]
  BY <1>5 DEF IInv, TypeOK
<1>7. q.at.hop = m.of.hop + 1 /\ q.at.ask = m.of.ask
  BY <1>4, <1>5 DEF Links
<1>8. /\ net' \in [Handles -> SUBSET Packets]
      /\ \A g \in Handles : net'[g] \subseteq net[g]
  BY <1>1 DEF Received, IInv, TypeOK
<1>9. disp' \in DispType /\ disp'.pc = "send" BY <1>2 DEF IInv, TypeOK, DispType
<1>10. /\ active' \in Seq(Handles) /\ NoTwice(active')
       /\ ToSet(active') = ToSet(active) \ {h}
  BY <1>2, UnlinkList DEF IInv, TypeOK, Placed
<1>11. /\ pending' \in Seq(Handles) /\ NoTwice(pending')
       /\ ToSet(pending') = {h} \cup ToSet(pending)
  <2>1. h \notin ToSet(pending) BY <1>2 DEF IInv, Placed
  <2>. QED BY <1>2, <2>1, PushList DEF IInv, TypeOK, Placed
<1>12. Linked' = Linked /\ ToSet(pending') \cap ToSet(active') = {}
  BY <1>2, <1>10, <1>11 DEF IInv, Placed, Linked
<1>13. Placed' BY <1>2, <1>10, <1>11, <1>12, PlacedLists DEF IInv
<1>14. TypeOK' BY <1>2, <1>6, <1>8, <1>9, <1>10, <1>11 DEF IInv, TypeOK
<1>15. \A g \in Handles :
         /\ query'[g].flags = query[g].flags /\ query'[g].late = query[g].late
         /\ Trusted(g)' <=> Trusted(g)
  <2>. TAKE g \in Handles
  <2>1. CASE g = h BY <1>5, <1>6, <2>1 DEF Trusted, NeverGivesUp
  <2>2. CASE g # h BY <1>6, <2>2 DEF Trusted, NeverGivesUp
  <2>. QED BY <2>1, <2>2
<1>16. NoLostSignal' BY <1>2, <1>15, SignalKeep, SignalNone DEF IInv
<1>17. NoLostWakeup' /\ ConnOK'
  BY <1>2, <1>8, <1>9 DEF IInv, NoLostWakeup, DispAt, ConnOK
<1>18. OutcomeOK' BY <1>2, <1>15, OutcomeKeep DEF IInv
<1>19. ExpiryOK' BY <1>15 DEF IInv, ExpiryOK
<1>20. ASSUME Trusted(h)
       PROVE  AnswerOK(h)' /\ query'[h].at.ask = query[h].at.ask
  <2>1. m.of = query[h].at /\ AnswerOK(h) BY <1>3, <1>20
  <2>2. query[h].at \in Links /\ query[h].at.hop \in Nat
    BY <1>3 DEF QueryType, Links
  <2>3. query[h].at.hop + query[h].depth = Depth BY <1>4, <2>1 DEF AnswerOK
  <2>4. query[h].at.hop < Chain[query[h].at.ask] BY <1>1, <2>1 DEF IsAlias
  <2>5. ~Final(query[h].at)
    BY <1>4, <2>1, <2>2, <2>3, <2>4 DEF Final, Links
  <2>6. buf[h] = <<>> BY <2>1, <2>5 DEF AnswerOK
  <2>7. /\ query'[h].at.hop = query[h].at.hop + 1
        /\ query'[h].at.ask = query[h].at.ask
        /\ query'[h].depth = query[h].depth - 1
    BY <1>5, <1>6, <1>7, <2>1
  <2>8. query'[h].at.hop + query'[h].depth = Depth
    BY <1>4, <2>2, <2>3, <2>7
  <2>9. query'[h].at.hop <= Chain[query'[h].at.ask]
    <3>1. Chain[query[h].at.ask] \in Nat BY <2>2 DEF Links
    <3>. QED BY <2>2, <2>4, <2>7, <3>1
  <2>10. h \notin ToSet(active') /\ buf'[h] = <<>> BY <1>2, <1>10, <2>6
  <2>. QED BY <2>7, <2>8, <2>9, <2>10 DEF AnswerOK
<1>21. AnswersOK'
  <2>1. ASSUME NEW g \in Handles, g # h, AnswerOK(g) PROVE AnswerOK(g)'
    <3>1. query'[g] = query[g] /\ buf'[g] = buf[g] /\ net'[g] \subseteq net[g]
          /\ (g \in ToSet(active') => g \in ToSet(active))
      BY <1>2, <1>6, <1>8, <1>10, <2>1
    <3>. QED BY <2>1, <3>1 DEF AnswerOK, Final
  <2>2. Linked \subseteq Handles BY ListIndices DEF IInv, TypeOK, Linked
  <2>3. ASSUME NEW g \in Linked', Trusted(g)' PROVE AnswerOK(g)'
    BY <1>12, <1>15, <1>20, <2>1, <2>2, <2>3 DEF IInv, AnswersOK
  <2>4. ASSUME NEW c \in Clients, Owns(c)', Trusted(client[c].h)'
        PROVE  query'[client'[c].h].at.ask = client'[c].ask
    <3>1. PICK g \in Handles : client[c].h = g /\ Owns(c)
      BY <1>2, <2>4, OwnHandle DEF Owns, IInv
    <3>2. Trusted(g)' BY <1>2, <2>4, <3>1
    <3>3. Trusted(g) /\ query[g].at.ask = client[c].ask
      BY <1>15, <3>1, <3>2 DEF IInv, AnswersOK
    <3>4. query'[g].at.ask = query[g].at.ask
      BY <1>6, <1>20, <3>3
    <3>. QED BY <1>2, <3>1, <3>3, <3>4
  <2>. QED BY <2>3, <2>4 DEF AnswersOK
<1>. QED BY <1>13, <1>14, <1>16, <1>17, <1>18, <1>19, <1>21 DEF IInv

-----------------------------------------------------------------------------
(* The theorems.                                                           *)

\* Every part of the dispatcher's loop keeps the invariant.
LEMMA DispatcherOK == ASSUME IInv, Dispatcher PROVE IInv'
<1>1. CASE \E h \in Handles : ReadStray(h) \/ ReadMalformed(h)
  BY <1>1, ReadNothingOK
<1>2. CASE \E h \in Handles : ReadAlias(h) BY <1>2, ReadAliasOK
<1>3. CASE \E h \in Handles : ReadAnswer(h) BY <1>3, ReadAnswerOK
<1>4. CASE \/ EnterSelect \/ LeaveSelect \/ ReadFails \/ ReadBroken
           \/ NothingToSend \/ ReadControl \/ NothingToRetry
  BY <1>4, LoopOK
<1>5. CASE SendPending BY <1>5, SendPendingOK
<1>6. CASE Expire BY <1>6, ExpireOK
<1>7. CASE RetryUDP BY <1>7, RetryUDPOK
<1>8. CASE RetryTCP BY <1>8, BreakOK
<1>9. CASE Reconnect BY <1>9, ReconnectOK
<1>10. CASE AllDead \/ AllDeadStuck BY <1>10, AllDeadOK
<1>. QED
  BY <1>1, <1>2, <1>3, <1>4, <1>5, <1>6, <1>7, <1>8, <1>9, <1>10 DEF Dispatcher

\* A step that changes nothing, and those of the environment.
LEMMA StutterOK == ASSUME IInv, UNCHANGED vars PROVE IInv'
<1>1. UNCHANGED <<libvars, client, net, disp, ctl, closed, conn>>
  BY DEF vars, netvars
<1>2. TypeOK' BY <1>1 DEF IInv, TypeOK, libvars
<1>3. NoLostWakeup' /\ ConnOK'
  BY <1>1 DEF IInv, NoLostWakeup, ConnOK, DispAt, libvars
<1>. QED BY <1>1, <1>2, <1>3, QuietStep

\* Only ar_recycle() refuses a caller whose query is listed, and from there the
\* dispatcher goes nowhere.
LEMMA TangledKeeps ==
    ASSUME TypeOK, TangledOK, [Next]_vars
    PROVE  TangledOK'
<1>1. ASSUME NEW c \in Clients, ClientStep(c) PROVE TangledOK'
  <2>1. CASE Recycle(c)
    <3>1. disp'.pc = "tangled" BY <2>1 DEF Recycle, TypeOK, DispType
    <3>. QED BY <3>1 DEF TangledOK
  <2>2. CASE ~Recycle(c)
    <3>1. disp' = disp
      BY <1>1, <2>2, Zenon DEF ClientStep, Add, Submit, Enqueue, EnqueueFails, WaitAtOnce,
         WaitBlock, WakeUp, Spurious, Awake, TimedOut, Cancel
    <3>2. \A d \in Clients \ {c} : client'[d] = client[d]
      BY <1>1, <2>2 DEF ClientStep, Add, Submit, Enqueue, EnqueueFails, WaitAtOnce,
         WaitBlock, WakeUp, Spurious, Awake, AfterWait, TimedOut, Cancel, Return,
         TypeOK
    <3>3. client'[c].pc # "refused" \/ client' = client
      <4>0. client \in [Clients -> ClientType] BY DEF TypeOK
      <4>1. CASE \E a \in Questions : Add(c, a)
        BY <4>0, <4>1 DEF Add, Idle, ClientType
      <4>2. CASE \E l \in Limits : Enqueue(c, l) \/ EnqueueFails(c, l)
        BY <4>0, <4>2 DEF Submit, Enqueue, EnqueueFails, ClientType
      <4>3. ASSUME NEW x, Return(c, x) PROVE client'[c].pc # "refused"
        BY <4>0, <4>3 DEF Return, ClientType
      <4>4. CASE WaitAtOnce(c) BY <4>3, <4>4 DEF WaitAtOnce
      <4>5. CASE \E w \in Waits : WaitBlock(c, w)
        BY <4>0, <4>5 DEF WaitBlock, ClientType
      <4>6. CASE WakeUp(c) \/ Spurious(c) \/ TimedOut(c)
        BY <4>3, <4>6 DEF WakeUp, Spurious, TimedOut, Awake, AfterWait
      <4>7. CASE Cancel(c) BY <4>0, <4>7 DEF Cancel, Idle
      <4>. QED BY <1>1, <2>2, <4>1, <4>2, <4>4, <4>5, <4>6, <4>7 DEF ClientStep
    <3>. QED BY <3>1, <3>2, <3>3, SMTT(40) DEF TangledOK
  <2>. QED BY <2>1, <2>2
<1>2. ASSUME client' = client, disp' = disp \/ disp.pc # "tangled"
      PROVE  TangledOK'
  BY <1>2 DEF TangledOK
<1>3. CASE Dispatcher
  <2>1. client' = client
    BY <1>3, Zenon DEF Dispatcher, EnterSelect, LeaveSelect, ReadFails, ReadBroken, ReadStray,
       ReadAlias, ReadAnswer, ReadMalformed, SendPending, NothingToSend, ReadControl,
       Expire, RetryUDP, RetryTCP, NothingToRetry, Reconnect, AllDead, AllDeadStuck,
       MarkDead
  <2>2. disp.pc # "tangled"
    BY <1>3 DEF Dispatcher, EnterSelect, LeaveSelect, ReadFails, ReadBroken, ReadStray,
       ReadAlias, ReadAnswer, ReadMalformed, SendPending, NothingToSend, ReadControl,
       Expire, RetryUDP, RetryTCP, NothingToRetry, Reconnect, AllDead, AllDeadStuck,
       DispAt
  <2>. QED BY <1>2, <2>1, <2>2, Zenon
<1>4. CASE Environment
  BY <1>2, <1>4 DEF Environment, Reply, Lose, RetryElapses, QueryElapses, Break
<1>5. CASE Shutdown \/ Join \/ Finished \/ UNCHANGED vars
  BY <1>2, <1>5 DEF Shutdown, Join, Finished, vars
<1>. QED BY <1>1, <1>3, <1>4, <1>5 DEF Next

\* IInv, with TangledOK, is inductive.
LEMMA StepOK == IInv /\ TangledOK /\ [Next]_vars => IInv' /\ TangledOK'
<1>. SUFFICES ASSUME IInv, TangledOK, [Next]_vars PROVE IInv'
  BY TangledKeeps DEF IInv
<1>1. CASE \E c \in Clients : ClientStep(c) BY <1>1, ClientStepOK
<1>2. CASE Shutdown BY <1>2, ShutdownOK
<1>3. CASE Join BY <1>3, LoopOK
<1>4. CASE Dispatcher BY <1>4, DispatcherOK
<1>5. CASE Environment
  <2>1. CASE \E h \in Handles : Reply(h) \/ Lose(h) BY <2>1, NetworkOK
  <2>2. CASE \E h \in Handles : RetryElapses(h) \/ QueryElapses(h)
    BY <2>2, ElapseOK
  <2>3. CASE Break BY <2>3, BreakOK
  <2>. QED BY <1>5, <2>1, <2>2, <2>3 DEF Environment
<1>6. CASE Finished \/ UNCHANGED vars BY <1>6, StutterOK DEF Finished
<1>. QED BY <1>1, <1>2, <1>3, <1>4, <1>5, <1>6 DEF Next

\* The invariant of the resolver: whatever the threads, the nameservers and the
\* clock do, every handle is where its owner expects it, every waiter whose
\* query is decided has been signalled, and packets and buffers of a trusted
\* handle belong to the question it asks.
THEOREM Inductive == Spec => []IInv
<1>1. Init => TangledOK BY DEF Init, TangledOK, Idle
<1>. QED BY <1>1, InitOK, StepOK, PTL DEF Spec

\* ar_pending and ar_queries hold exactly the handles that one client each has
\* enqueued and not cancelled, each once, and a recyclable handle is nobody's but
\* that of a caller whom ar_addquery() refused because it could not wake the
\* dispatcher.
THEOREM PlacedAlways == Spec => []HandlesPlaced
<1>1. IInv => HandlesPlaced
  <2>. SUFFICES ASSUME IInv PROVE HandlesPlaced
    OBVIOUS
  <2>. DEFINE all == pending \o active
  <2>1. NoTwice(all) /\ ToSet(all) = Linked
    BY ConcatList DEF IInv, TypeOK, Placed, Linked
  <2>2. ToSet(all) = {client[c].h : c \in {d \in Clients :
                     client[d].pc \in {"held", "blocked", "failing", "refused"}}}
    BY <2>1 DEF IInv, Placed, Owns
  <2>3. /\ \A c, d \in Clients :
             client[c].h = client[d].h /\ client[c].h # NoHandle => c = d
        /\ \A c \in Clients : client[c].h \in recycled => client[c].pc = "refused"
    BY DEF IInv, Placed
  <2>. QED BY <2>1, <2>2, <2>3 DEF HandlesPlaced, NoTwice
<1>. QED BY <1>1, Inductive, PTL

\* A caller blocked on a query that was answered or expired has been signalled.
THEOREM NoLostSignalAlways == Spec => []NoLostSignal
<1>1. IInv => NoLostSignal BY DEF IInv
<1>. QED BY <1>1, Inductive, PTL

\* The dispatcher never sleeps on a pending query, though ar_addquery() skips
\* its message when the control socket is full.
THEOREM NoLostWakeupAlways == Spec => []NoLostWakeup
<1>1. IInv => NoLostWakeup BY DEF IInv
<1>. QED BY <1>1, Inductive, PTL

\* AR_STAT_EXPIRED is only told of a query whose own q_timeout is over.
THEOREM ExpiredIsLateAlways == Spec => []ExpiredIsLate
<1>1. IInv => ExpiredIsLate BY DEF IInv, OutcomeOK, ExpiredIsLate
<1>. QED BY <1>1, Inductive, PTL

-----------------------------------------------------------------------------
(* The refinement of ArService.  Two things of ar_sendquery() break its    *)
(* promises and are assumed away, each by a constant: a failed send()      *)
(* marks the query as replied to when no reply is there, and a query given *)
(* up is marked with QUERY_ERROR while the library lives, and keeps the    *)
(* q_id of an earlier packet.                                              *)

\* send() works, ar_retries is not set, and every question can be encoded.
Sound == NeverGivesUp /\ "sendfail" \notin Faults

\* Where QUERY_REPLY is set the caller's buffer holds a reply.
Told == \A h \in Handles : "REPLY" \in query[h].flags => buf[h] # <<>>

Broken == dead \/ DispAt("stuck")

\* QUERY_ERROR is only set by ar_alldead().
ErrorOK == \A h \in Handles : "ERROR" \in query[h].flags => Broken

\* Each CNAME followed is taken off the depth that is left.
HopOK == \A h \in Handles : query[h].at.hop + query[h].depth <= Depth

SInv == IInv /\ Told /\ ErrorOK /\ HopOK

Call == [c \in Clients |-> CallOf(c)]

-----------------------------------------------------------------------------
(* What a caller sees of a step.                                           *)

\* A reply is not an empty buffer.
LEMMA ReplyNotEmpty == ASSUME NEW b \in Texts PROVE b # <<>>
BY DEF Texts

\* A caller whose buffer and whose QUERY_REPLY a step leaves alone sees nothing.
LEMMA OtherCalls ==
    ASSUME IInv, NEW c \in Clients, client'[c] = client[c],
           \A h \in Handles : h = client[c].h =>
             /\ "REPLY" \in query'[h].flags <=> "REPLY" \in query[h].flags
             /\ buf'[h] = buf[h]
    PROVE  CallOf(c)' = CallOf(c)
BY OwnHandle DEF CallOf, IInv

\* When one caller sees a change only its call changes.
LEMMA OneCall ==
    ASSUME NEW c \in Clients,
           \A d \in Clients \ {c} : CallOf(d)' = CallOf(d)
    PROVE  Call' = [Call EXCEPT ![c] = CallOf(c)'] /\ Call[c] = CallOf(c)
BY DEF Call

\* Steps no caller sees: the flags they set are not for callers.
LEMMA UnseenStep ==
    ASSUME SInv, IInv', UNCHANGED <<client, buf, dead>>,
           DispAt("stuck")' <=> DispAt("stuck"),
           \A h \in Handles :
             /\ "REPLY" \in query'[h].flags <=> "REPLY" \in query[h].flags
             /\ "ERROR" \in query'[h].flags => "ERROR" \in query[h].flags
             /\ query'[h].at.hop + query'[h].depth <= Depth
    PROVE  SInv' /\ Call' = Call /\ (Broken' <=> Broken)
<1>1. Told' /\ HopOK' BY DEF SInv, Told, HopOK
<1>2. ErrorOK' /\ (Broken' <=> Broken) BY DEF SInv, ErrorOK, Broken
<1>3. \A c \in Clients : CallOf(c)' = CallOf(c) BY OtherCalls DEF SInv
<1>4. Call' = Call BY <1>3 DEF Call
<1>. QED BY <1>1, <1>2, <1>4 DEF SInv

-----------------------------------------------------------------------------
\* The initial state.
LEMMA ServiceInit == Init => SInv /\ Service!Init
<1>. SUFFICES ASSUME Init PROVE SInv /\ Service!Init
  OBVIOUS
<1>. USE ArAssumption
<1>1. FirstQuestion \in Questions BY DEF FirstQuestion
<1>2. \A h \in Handles : /\ query[h].flags = {} /\ query[h].depth = 0
                         /\ query[h].at.hop = 0
  BY DEF Init, NewQuery
<1>3. Told /\ ErrorOK /\ HopOK BY <1>2 DEF Told, ErrorOK, HopOK
<1>4. \A c \in Clients : CallOf(c) = Service!Closed(FirstQuestion)
  BY DEF Init, CallOf, Idle, Service!Closed
<1>5. [c \in Clients |-> CallOf(c)] \in
        [Clients -> {Service!Closed(a) : a \in Questions}]
  BY <1>1, <1>4
<1>6. (dead \/ DispAt("stuck")) = FALSE BY DEF Init, DispAt
<1>. QED BY <1>3, <1>5, <1>6, InitOK DEF SInv, Service!Init

-----------------------------------------------------------------------------
(* Steps of the library that no caller sees.                               *)

\* An unseen step is a step of ArService.
LEMMA UnseenServes ==
    ASSUME Call' = Call, Broken' <=> Broken
    PROVE  Service!Next
<1>1. [c \in Clients |-> CallOf(c)]' = [c \in Clients |-> CallOf(c)]
  BY DEF Call
<1>2. (dead \/ DispAt("stuck"))' = (dead \/ DispAt("stuck")) BY DEF Broken
<1>. QED BY <1>1, <1>2 DEF Service!Next, Service!Unseen, Service!vars

\* What the environment does, and the parts of the dispatcher's loop that touch
\* no query.
LEMMA LibraryUnseen ==
    ASSUME SInv, IInv', UNCHANGED <<query, buf, dead, client>>,
           disp'.pc = "stuck" <=> disp.pc = "stuck"
    PROVE  SInv' /\ Service!Next
<1>1. DispAt("stuck")' <=> DispAt("stuck") BY DEF DispAt
<1>2. SInv' /\ Call' = Call /\ (Broken' <=> Broken)
  BY <1>1, UnseenStep DEF SInv, HopOK
<1>. QED BY <1>2, UnseenServes

\* ar_expired() and the clock set marks that are not for ArService's callers.
LEMMA MarksUnseen ==
    ASSUME SInv, IInv',
           Expire \/ \E h \in Handles : RetryElapses(h) \/ QueryElapses(h)
    PROVE  SInv' /\ Service!Next
<1>1. /\ UNCHANGED <<client, buf, dead>>
      /\ (disp'.pc # "stuck" /\ disp.pc # "stuck") \/ disp' = disp
  BY DEF Expire, RetryElapses, QueryElapses, DispAt, SInv, IInv, TypeOK, DispType
<1>2. \A h \in Handles :
        /\ "REPLY" \in query'[h].flags <=> "REPLY" \in query[h].flags
        /\ "ERROR" \in query'[h].flags <=> "ERROR" \in query[h].flags
        /\ query'[h].at = query[h].at /\ query'[h].depth = query[h].depth
  <2>. TAKE h \in Handles
  <2>1. query \in [Handles -> QueryType] /\ query[h] \in QueryType
    BY DEF SInv, IInv, TypeOK
  <2>2. CASE Expire BY <2>1, <2>2 DEF Expire, QueryType
  <2>3. CASE \E g \in Handles : RetryElapses(g) \/ QueryElapses(g)
    BY <2>1, <2>3 DEF RetryElapses, QueryElapses, QueryType
  <2>. QED BY <2>2, <2>3
<1>3. SInv' /\ Call' = Call /\ (Broken' <=> Broken)
  <2>1. DispAt("stuck")' <=> DispAt("stuck") BY <1>1 DEF DispAt
  <2>2. \A h \in Handles : query'[h].at.hop + query'[h].depth <= Depth
    BY <1>2 DEF SInv, HopOK
  <2>. QED BY <1>1, <1>2, <2>1, <2>2, UnseenStep
<1>. QED BY <1>3, UnseenServes

\* A packet that is sent without a fault changes nothing callers see.
LEMMA SendUnseen ==
    ASSUME Sound, SInv, IInv', NEW h \in Handles, SendQuery(h),
           UNCHANGED <<client, buf, dead>>,
           disp'.pc # "stuck" /\ disp.pc # "stuck"
    PROVE  SInv' /\ Service!Next
<1>0. Retries = 0 /\ Unbuildable = {} /\ "sendfail" \notin Faults
  BY DEF Sound, NeverGivesUp
<1>1. /\ query \in [Handles -> QueryType] /\ query[h] \in QueryType
      /\ Transmit(h, TRUE)
  <2>1. ~GiveUp(h) BY <1>0 DEF GiveUp, Exhausted
  <2>2. Transmit(h, TRUE) BY <1>0, <2>1 DEF SendQuery
  <2>. QED BY <2>2 DEF SInv, IInv, TypeOK
<1>2. query' = [query EXCEPT ![h].flags = @, ![h].tries = 0, ![h].due = FALSE]
  BY <1>1 DEF Transmit, Sound, NeverGivesUp
<1>3. \A g \in Handles :
        /\ query'[g].flags = query[g].flags
        /\ query'[g].at = query[g].at /\ query'[g].depth = query[g].depth
  BY <1>1, <1>2 DEF QueryType
<1>4. SInv' /\ Call' = Call /\ (Broken' <=> Broken)
  BY <1>3, UnseenStep DEF SInv, HopOK, DispAt
<1>. QED BY <1>4, UnseenServes

\* ar_requery() follows a CNAME: no caller sees it.
LEMMA AliasUnseen ==
    ASSUME Sound, SInv, IInv', NEW h \in Handles, ReadAlias(h)
    PROVE  SInv' /\ Service!Next
<1>1. PICK m \in Replies(h) :
        /\ DepthLeft(h, m) > 0
        /\ query' = [query EXCEPT ![h].depth = @ - 1,
                                  ![h].at = [m.of EXCEPT !.hop = @ + 1]]
  BY DEF ReadAlias
<1>2. /\ h \in Linked /\ m \in Packets /\ query[h] \in QueryType
      /\ m.of = query[h].at
  BY <1>1, ReplyFacts DEF ReadAlias, SInv, Sound, Trusted
<1>3. /\ query \in [Handles -> QueryType] /\ query[h].at \in Links
      /\ query[h].at.hop \in Nat /\ query[h].depth \in Nat
  BY <1>2 DEF SInv, IInv, TypeOK, QueryType, Links
<1>4. \A g \in Handles :
        /\ query'[g].flags = query[g].flags
        /\ query'[g].at.hop + query'[g].depth <= Depth
  <2>1. [m.of EXCEPT !.hop = @ + 1].hop = query[h].at.hop + 1
    BY <1>2, <1>3 DEF Links
  <2>2. query'[h].at.hop = query[h].at.hop + 1 /\ query'[h].depth = query[h].depth - 1
    BY <1>1, <1>2, <1>3, <2>1 DEF QueryType
  <2>3. query[h].at.hop + query[h].depth <= Depth BY DEF SInv, HopOK
  <2>4. query'[h].at.hop + query'[h].depth <= Depth
    BY <1>3, <2>2, <2>3
  <2>5. query'[h].flags = query[h].flags BY <1>1, <1>2, <1>3 DEF QueryType
  <2>6. \A g \in Handles \ {h} : query'[g] = query[g] BY <1>1, <1>3
  <2>. QED BY <2>4, <2>5, <2>6 DEF SInv, HopOK
<1>5. /\ UNCHANGED <<client, buf, dead>>
      /\ DispAt("stuck")' <=> DispAt("stuck")
  BY DEF ReadAlias, DispAt, SInv, IInv, TypeOK, DispType
<1>6. SInv' /\ Call' = Call /\ (Broken' <=> Broken)
  BY <1>4, <1>5, UnseenStep
<1>. QED BY <1>6, UnseenServes

-----------------------------------------------------------------------------
(* Steps of the library that callers see.                                  *)

\* ar_alldead() marks every query, or those it can reach, and gives up.
LEMMA DeadServes ==
    ASSUME SInv, IInv', AllDead \/ AllDeadStuck
    PROVE  SInv' /\ Service!Next
<1>1. /\ UNCHANGED <<client, buf>> /\ Broken'
      /\ \E H : query' = [h \in Handles |->
                   IF h \in H
                   THEN [query[h] EXCEPT !.flags = @ \cup {"NOREPLY", "ERROR"}]
                   ELSE query[h]]
  BY DEF AllDead, AllDeadStuck, MarkDead, Broken, DispAt, SInv, IInv, TypeOK,
         DispType
<1>2. \A h \in Handles :
        /\ "REPLY" \in query'[h].flags <=> "REPLY" \in query[h].flags
        /\ query'[h].at = query[h].at /\ query'[h].depth = query[h].depth
  BY <1>1 DEF SInv, IInv, TypeOK, QueryType
<1>3. Told' /\ HopOK' BY <1>1, <1>2 DEF SInv, Told, HopOK
<1>4. SInv' BY <1>1, <1>3 DEF SInv, ErrorOK
<1>5. Call' = Call
  <2>1. \A c \in Clients : CallOf(c)' = CallOf(c)
    BY <1>1, <1>2, OtherCalls DEF SInv
  <2>. QED BY <2>1 DEF Call
<1>6. CASE Broken BY <1>1, <1>4, <1>5, <1>6, UnseenServes
<1>7. CASE ~Broken
  <2>1. Service!GiveUp BY <1>1, <1>5, <1>7 DEF Service!GiveUp, Broken, Call
  <2>. QED BY <1>4, <2>1 DEF Service!Next
<1>. QED BY <1>6, <1>7

\* The reply copied into the caller's buffer answers its question, and a second
\* one takes its place.
LEMMA AnswerServes ==
    ASSUME Sound, SInv, IInv', NEW h \in Handles, ReadAnswer(h)
    PROVE  SInv' /\ Service!Next
<1>. USE ArAssumption
<1>1. PICK m \in Replies(h) :
        /\ query' = [query EXCEPT ![h].depth = DepthLeft(h, m),
                                  ![h].flags = @ \cup {"REPLY"}]
        /\ buf' = [buf EXCEPT ![h] =
                     [ask |-> m.of.ask, hop |-> m.of.hop, says |-> m.says]]
  BY DEF ReadAnswer, Pack
<1>2. /\ h \in Linked /\ m \in Packets /\ m.kind = "reply"
      /\ query[h] \in QueryType
      /\ m.of = query[h].at /\ Trusted(h)
  BY <1>1, ReplyFacts DEF ReadAnswer, SInv, Sound, Trusted, Replies
<1>3. /\ query \in [Handles -> QueryType] /\ buf \in [Handles -> Texts \cup {<<>>}]
      /\ query[h].at \in Links /\ m.says \in Contents
      /\ query[h].at.hop \in Nat /\ query[h].depth \in Nat
      /\ DepthLeft(h, m) \in Nat /\ DepthLeft(h, m) <= query[h].depth
  <2>1. query[h].depth \in Nat /\ m.says \in Contents
    BY <1>2 DEF QueryType, Packets
  <2>. QED BY <1>2, <2>1 DEF SInv, IInv, TypeOK, QueryType, Links, DepthLeft
<1>4. /\ UNCHANGED <<client, dead>> /\ (Broken' <=> Broken)
      /\ UNCHANGED <<pending, active>>
  BY DEF ReadAnswer, DispAt, SInv, IInv, TypeOK, DispType, Broken
<1>. DEFINE b == [ask |-> query[h].at.ask, hop |-> query[h].at.hop, says |-> m.says]
<1>5. /\ query'[h].flags = query[h].flags \cup {"REPLY"}
      /\ query'[h].at = query[h].at /\ query'[h].depth = DepthLeft(h, m)
      /\ buf'[h] = b /\ buf'[h] # <<>>
      /\ \A g \in Handles \ {h} : query'[g] = query[g] /\ buf'[g] = buf[g]
  <2>1. buf'[h] = b /\ \A g \in Handles \ {h} : buf'[g] = buf[g]
    BY <1>1, <1>2, <1>3
  <2>2. b \in Texts BY <1>3 DEF Texts, Links
  <2>. HIDE DEF b
  <2>3. buf'[h] # <<>> BY <2>1, <2>2, ReplyNotEmpty
  <2>. QED BY <1>1, <1>2, <1>3, <2>1, <2>3 DEF QueryType
<1>6. SInv'
  <2>1. Told' BY <1>5 DEF SInv, Told
  <2>2. ErrorOK' BY <1>4, <1>5 DEF SInv, ErrorOK
  <2>3. query[h].at.hop + query[h].depth <= Depth BY DEF SInv, HopOK
  <2>4. query'[h].at.hop + query'[h].depth <= Depth BY <1>3, <1>5, <2>3
  <2>5. HopOK' BY <1>5, <2>4 DEF SInv, HopOK
  <2>. QED BY <2>1, <2>2, <2>5 DEF SInv
<1>7. PICK c \in Clients : client[c].h = h /\ Owns(c)
  BY <1>2 DEF SInv, IInv, Placed
<1>8. /\ query[h].at.ask = client[c].ask
      /\ query[h].at.hop \in 0..Depth
  <2>1. query[h].at.hop + query[h].depth <= Depth BY DEF SInv, HopOK
  <2>2. query[h].at.hop \in 0..Depth BY <1>3, <2>1
  <2>. QED BY <1>2, <1>7, <2>2 DEF SInv, IInv, AnswersOK
<1>9. \A d \in Clients \ {c} : CallOf(d)' = CallOf(d)
  <2>. TAKE d \in Clients \ {c}
  <2>1. client[d].h # h
    BY <1>7, OwnHandle DEF SInv, IInv, Placed
  <2>. QED BY <1>4, <1>5, <2>1, OtherCalls DEF SInv
<1>10. Call' = [Call EXCEPT ![c] = CallOf(c)'] /\ Call[c] = CallOf(c)
  BY <1>9, OneCall
<1>11. CASE ~Accepted(c)
  <2>1. CallOf(c)' = CallOf(c) BY <1>4, <1>7, <1>11 DEF CallOf, Accepted
  <2>2. Call' = Call BY <1>9, <2>1 DEF Call
  <2>. QED BY <1>4, <1>6, <2>2, UnseenServes
<1>12. ASSUME Accepted(c)
       PROVE  /\ CallOf(c)' = [CallOf(c) EXCEPT !.answer = b]
              /\ CallOf(c).st # "closed"
              /\ CallOf(c).ask = client[c].ask
              /\ CallOf(c).answer = IF "REPLY" \in query[h].flags THEN buf[h] ELSE <<>>
  <2>. HIDE DEF b
  <2>. QED BY <1>4, <1>5, <1>7, <1>12 DEF CallOf, Accepted
<1>13. (dead \/ DispAt("stuck"))' = (dead \/ DispAt("stuck"))
  BY <1>4 DEF Broken
<1>14. CASE Accepted(c) /\ "REPLY" \in query[h].flags
  <2>1. Answered(buf[h]) = query[h].at /\ buf[h] # <<>> /\ buf[h] \in Texts
    BY <1>2, <1>3, <1>14 DEF SInv, Told, IInv, AnswersOK, AnswerOK
  <2>2. b = [buf[h] EXCEPT !.says = m.says]
    BY <1>3, <2>1 DEF Texts, Links, Answered
  <2>3. Call[c] = CallOf(c) /\ CallOf(c).answer = buf[h] /\ CallOf(c).st # "closed"
    BY <1>10, <1>12, <1>14
  <2>4. CallOf(c)' = [CallOf(c) EXCEPT !.answer.says = m.says]
    <3>1. CallOf(c)' = [CallOf(c) EXCEPT !.answer = [buf[h] EXCEPT !.says = m.says]]
      BY <1>12, <1>14, <2>2
    <3>. QED BY <2>3, <3>1
  <2>5. Call' = [Call EXCEPT ![c].answer.says = m.says]
    BY <1>10, <2>3, <2>4
  <2>6. Service!Replace(c)
    BY <1>3, <1>13, <2>1, <2>3, <2>5 DEF Service!Replace, Call
  <2>. QED BY <1>6, <2>6 DEF Service!Next
<1>15. CASE Accepted(c) /\ "REPLY" \notin query[h].flags
  <2>1. b \in Service!Answers(Call[c].ask)
    BY <1>3, <1>8, <1>10, <1>12, <1>15 DEF Service!Answers
  <2>. HIDE DEF b
  <2>2. /\ Call[c].st # "closed" /\ Call[c].answer = <<>>
        /\ Call' = [Call EXCEPT ![c].answer = b]
    BY <1>10, <1>12, <1>15
  <2>3. Service!Deliver(c) BY <1>13, <2>1, <2>2 DEF Service!Deliver, Call
  <2>. QED BY <1>6, <2>3 DEF Service!Next
<1>. QED BY <1>11, <1>14, <1>15

-----------------------------------------------------------------------------
(* Steps of the callers.                                                   *)

\* A step of one caller on its own handle is seen by no other.
LEMMA CallerStep ==
    ASSUME SInv, NEW c \in Clients, UNCHANGED <<dead, disp>>,
           \A d \in Clients \ {c} : client'[d] = client[d],
           \A h \in Handles \ {client[c].h} :
             query'[h] = query[h] /\ buf'[h] = buf[h]
    PROVE  /\ Call' = [Call EXCEPT ![c] = CallOf(c)'] /\ Call[c] = CallOf(c)
           /\ (dead \/ DispAt("stuck"))' = (dead \/ DispAt("stuck"))
<1>1. \A d \in Clients \ {c} : CallOf(d)' = CallOf(d)
  <2>. TAKE d \in Clients \ {c}
  <2>1. \A h \in Handles : h = client[d].h => h # client[c].h
    BY ArAssumption DEF SInv, IInv, Placed
  <2>2. \A h \in Handles : h = client[d].h =>
          /\ "REPLY" \in query'[h].flags <=> "REPLY" \in query[h].flags
          /\ buf'[h] = buf[h]
    BY <2>1
  <2>. QED BY <2>2, OtherCalls DEF SInv
<1>. QED BY <1>1, OneCall DEF DispAt

\* The invariant, when a step forgets or keeps what a handle holds.
LEMMA CallerKeeps ==
    ASSUME SInv, IInv', UNCHANGED <<dead, disp>>,
           \A h \in Handles :
             \/ query'[h] = query[h] /\ buf'[h] = buf[h]
             \/ /\ query'[h].flags \cap {"REPLY", "ERROR"} = {}
                /\ query'[h].at.hop + query'[h].depth <= Depth
    PROVE  SInv'
<1>1. Told' BY DEF SInv, Told
<1>2. ErrorOK' BY DEF SInv, ErrorOK, Broken, DispAt
<1>3. HopOK' BY DEF SInv, HopOK
<1>. QED BY <1>1, <1>2, <1>3 DEF SInv

\* ar_addquery() makes the call: nothing is known before it is on the list.
LEMMA AddServes ==
    ASSUME SInv, IInv', NEW c \in Clients, NEW a \in Questions, Add(c, a)
    PROVE  SInv' /\ Service!Next
<1>1. PICK h \in Handles :
        client' = [client EXCEPT ![c] =
                     [Idle EXCEPT !.pc = "building", !.h = h, !.ask = a]]
  BY DEF Add
<1>2. client[c].pc = "idle" /\ UNCHANGED <<query, buf, dead, disp>>
  BY DEF Add
<1>3. SInv' BY <1>2, CallerKeeps
<1>4. client \in [Clients -> ClientType] BY DEF SInv, IInv, TypeOK
<1>5. /\ Call' = [Call EXCEPT ![c] = CallOf(c)'] /\ Call[c] = CallOf(c)
      /\ (dead \/ DispAt("stuck"))' = (dead \/ DispAt("stuck"))
  BY <1>1, <1>2, <1>4, CallerStep
<1>6. CallOf(c).st = "closed" BY <1>2 DEF CallOf
<1>7. client'[c] = [Idle EXCEPT !.pc = "building", !.h = h, !.ask = a]
  BY <1>1, <1>4
<1>8. CallOf(c)' = Service!Closed(a) BY <1>7 DEF CallOf, Service!Closed, Idle
<1>9. Service!Choose(c) BY <1>5, <1>6, <1>8 DEF Service!Choose, Call
<1>. QED BY <1>3, <1>9 DEF Service!Next

\* The second half of ar_addquery() opens it, unless the dispatcher cannot be woken.
LEMMA SubmitServes ==
    ASSUME SInv, IInv', NEW c \in Clients, NEW limit, NEW pc \in {"held", "failing"},
           Submit(c, limit, pc)
    PROVE  SInv' /\ Service!Next
<1>. USE ArAssumption
<1>0. PICK h \in Handles : client[c].h = h /\ client[c].pc = "building"
  BY OwnHandle DEF Submit, SInv, IInv
<1>1. /\ client' = [client EXCEPT ![c].pc = pc]
      /\ UNCHANGED <<dead, disp>>
  BY DEF Submit
<1>2. /\ client \in [Clients -> ClientType] /\ query \in [Handles -> QueryType]
      /\ buf \in [Handles -> Texts \cup {<<>>}]
  BY DEF SInv, IInv, TypeOK
<1>3. /\ query'[h].flags \cap {"REPLY", "ERROR"} = {}
      /\ query'[h].at.hop = 0 /\ query'[h].depth = Depth
      /\ \A g \in Handles \ {h} : query'[g] = query[g] /\ buf'[g] = buf[g]
  BY <1>0, <1>2 DEF Submit
<1>4. query'[h].at.hop + query'[h].depth <= Depth BY <1>3
<1>5. SInv' BY <1>1, <1>3, <1>4, CallerKeeps
<1>6. /\ Call' = [Call EXCEPT ![c] = CallOf(c)'] /\ Call[c] = CallOf(c)
      /\ (dead \/ DispAt("stuck"))' = (dead \/ DispAt("stuck"))
  BY <1>0, <1>1, <1>2, <1>3, CallerStep
<1>7. /\ client[c].res = "none" /\ client[c].ask \in Questions
      /\ client'[c].pc = pc /\ client'[c].h = h
      /\ client'[c].ask = client[c].ask /\ client'[c].res = client[c].res
  BY <1>0, <1>1, <1>2 DEF SInv, IInv, OutcomeOK, Accepted, ClientType
<1>8. CallOf(c).st = "closed" BY <1>0 DEF CallOf
<1>9. CASE pc = "held"
  <2>1. CallOf(c)' = [Service!Closed(client[c].ask) EXCEPT !.st = "open"]
    BY <1>3, <1>7, <1>9 DEF CallOf, Service!Closed
  <2>2. Service!Open(c) BY <1>6, <1>7, <1>8, <2>1 DEF Service!Open, Call
  <2>. QED BY <1>5, <2>2 DEF Service!Next
<1>10. CASE pc = "failing"
  <2>1. CallOf(c)' = Service!Closed(client[c].ask)
    BY <1>7, <1>10 DEF CallOf, Service!Closed
  <2>2. Service!Choose(c) BY <1>6, <1>7, <1>8, <2>1 DEF Service!Choose, Call
  <2>. QED BY <1>5, <2>2 DEF Service!Next
<1>. QED BY <1>9, <1>10

\* A caller that is refused has no call.
LEMMA RecycleServes ==
    ASSUME SInv, IInv', NEW c \in Clients, Recycle(c)
    PROVE  SInv' /\ Service!Next
<1>1. /\ client[c].pc = "failing" /\ client' = [client EXCEPT ![c].pc = "refused"]
      /\ UNCHANGED <<query, buf, dead>>
      /\ ~DispAt("stuck") /\ ~DispAt("stuck")'
  BY DEF Recycle, ArLockFree, DispAt, SInv, IInv, TypeOK, DispType
<1>2. SInv' BY <1>1 DEF SInv, Told, HopOK, ErrorOK, Broken
<1>3. \A d \in Clients : CallOf(d)' = CallOf(d)
  <2>. TAKE d \in Clients
  <2>1. CASE d = c
    <3>1. /\ client'[c].pc = "refused" /\ client'[c].ask = client[c].ask
          /\ client'[c].res = client[c].res
      BY <1>1 DEF SInv, IInv, TypeOK, ClientType
    <3>. QED BY <1>1, <2>1, <3>1 DEF CallOf
  <2>2. CASE d # c
    <3>1. client'[d] = client[d] BY <1>1, <2>2 DEF SInv, IInv, TypeOK
    <3>. QED BY <1>1, <3>1 DEF CallOf
  <2>. QED BY <2>1, <2>2
<1>4. Call' = Call /\ (Broken' <=> Broken) BY <1>1, <1>3 DEF Call, Broken
<1>. QED BY <1>2, <1>4, UnseenServes

\* ar_cancelquery() closes it.
LEMMA CancelServes ==
    ASSUME SInv, IInv', NEW c \in Clients, Cancel(c)
    PROVE  SInv' /\ Service!Next
<1>. USE ArAssumption
<1>0. PICK h \in Handles : client[c].h = h /\ client[c].pc = "held"
  BY OwnHandle DEF Cancel, SInv, IInv
<1>1. /\ query' = [query EXCEPT ![h] = [NewQuery EXCEPT !.due = query[h].due]]
      /\ buf' = [buf EXCEPT ![h] = <<>>]
      /\ client' = [client EXCEPT ![c] = Idle]
      /\ UNCHANGED <<dead, disp>>
  BY <1>0 DEF Cancel
<1>2. /\ client \in [Clients -> ClientType] /\ query \in [Handles -> QueryType]
      /\ buf \in [Handles -> Texts \cup {<<>>}]
  BY DEF SInv, IInv, TypeOK
<1>3. /\ query'[h].flags \cap {"REPLY", "ERROR"} = {}
      /\ query'[h].at.hop = 0 /\ query'[h].depth = 0
      /\ \A g \in Handles \ {h} : query'[g] = query[g] /\ buf'[g] = buf[g]
  BY <1>1, <1>2 DEF NewQuery
<1>4. query'[h].at.hop + query'[h].depth <= Depth BY <1>3
<1>5. SInv' BY <1>1, <1>3, <1>4, CallerKeeps
<1>6. /\ Call' = [Call EXCEPT ![c] = CallOf(c)'] /\ Call[c] = CallOf(c)
      /\ (dead \/ DispAt("stuck"))' = (dead \/ DispAt("stuck"))
  BY <1>0, <1>1, <1>2, <1>3, CallerStep
<1>7. client'[c] = Idle /\ FirstQuestion \in Questions
  BY <1>1, <1>2 DEF FirstQuestion
<1>8. CallOf(c).st = "open" BY <1>0 DEF CallOf
<1>9. CallOf(c)' = Service!Closed(FirstQuestion)
  BY <1>7 DEF CallOf, Service!Closed, Idle
<1>10. Service!Close(c) BY <1>6, <1>7, <1>8, <1>9 DEF Service!Close, Call
<1>. QED BY <1>5, <1>10 DEF Service!Next

\* ar_waitreply() blocks only where no answer is.
LEMMA BlockServes ==
    ASSUME SInv, IInv', NEW c \in Clients, NEW w, WaitBlock(c, w)
    PROVE  SInv' /\ Service!Next
<1>0. PICK h \in Handles : client[c].h = h /\ client[c].pc = "held"
  BY OwnHandle DEF WaitBlock, MayWait, SInv, IInv
<1>1. /\ \E m \in {"forever", "query", "call"} :
            client' = [client EXCEPT ![c].pc = "blocked", ![c].mode = m,
                                       ![c].res = "none"]
      /\ UNCHANGED <<query, buf, dead, disp>>
      /\ "REPLY" \notin query[h].flags
  BY <1>0 DEF WaitBlock, libvars
<1>2. client \in [Clients -> ClientType] BY DEF SInv, IInv, TypeOK
<1>3. SInv' BY <1>1, CallerKeeps
<1>4. /\ client'[c].pc = "blocked" /\ client'[c].h = h
      /\ client'[c].ask = client[c].ask /\ client'[c].res = "none"
      /\ \A d \in Clients \ {c} : client'[d] = client[d]
  BY <1>0, <1>1, <1>2 DEF ClientType
<1>5. /\ Call' = [Call EXCEPT ![c] = CallOf(c)'] /\ Call[c] = CallOf(c)
      /\ (dead \/ DispAt("stuck"))' = (dead \/ DispAt("stuck"))
  BY <1>1, <1>4, CallerStep
<1>6. CallOf(c).st = "open" /\ CallOf(c).answer = <<>>
  BY <1>0, <1>1 DEF CallOf
<1>7. CallOf(c)' = [CallOf(c) EXCEPT !.st = "waiting", !.res = "none"]
  <2>1. CallOf(c) = [st |-> "open", ask |-> client[c].ask, answer |-> <<>>,
                     res |-> client[c].res]
    BY <1>0, <1>1 DEF CallOf
  <2>2. CallOf(c)' = [st |-> "waiting", ask |-> client[c].ask, answer |-> <<>>,
                      res |-> "none"]
    BY <1>0, <1>1, <1>4 DEF CallOf
  <2>. DEFINE v == [CallOf(c) EXCEPT !.st = "waiting"]
  <2>3. v = [st |-> "waiting", ask |-> client[c].ask, answer |-> <<>>,
             res |-> client[c].res]
    BY <2>1
  <2>4. [CallOf(c) EXCEPT !.st = "waiting", !.res = "none"] = [v EXCEPT !.res = "none"]
    OBVIOUS
  <2>. HIDE DEF v
  <2>5. [v EXCEPT !.res = "none"] = [st |-> "waiting", ask |-> client[c].ask,
                                     answer |-> <<>>, res |-> "none"]
    BY <2>3
  <2>. QED BY <2>2, <2>4, <2>5
<1>8. Service!Wait(c) BY <1>5, <1>6, <1>7 DEF Service!Wait, Call
<1>. QED BY <1>3, <1>8 DEF Service!Next

\* What ar_waitreply() tells is true.
LEMMA ReturnServes ==
    ASSUME SInv, IInv', NEW c \in Clients, Accepted(c),
           NEW r \in {"SUCCESS", "NOREPLY", "EXPIRED", "ERROR"}, Return(c, r),
           UNCHANGED <<query, buf, dead, disp>>,
           r = "SUCCESS" => "REPLY" \in query[client[c].h].flags,
           r \in {"NOREPLY", "EXPIRED"} => "REPLY" \notin query[client[c].h].flags,
           r = "ERROR" => "ERROR" \in query[client[c].h].flags
    PROVE  SInv' /\ Service!Next
<1>0. PICK h \in Handles : client[c].h = h
  BY OwnHandle DEF Accepted, SInv, IInv
<1>1. client \in [Clients -> ClientType] BY DEF SInv, IInv, TypeOK
<1>2. SInv' BY CallerKeeps
<1>3. /\ client'[c].pc = "held" /\ client'[c].h = h
      /\ client'[c].ask = client[c].ask /\ client'[c].res = r
      /\ \A d \in Clients \ {c} : client'[d] = client[d]
  BY <1>0, <1>1 DEF Return, ClientType
<1>4. /\ Call' = [Call EXCEPT ![c] = CallOf(c)'] /\ Call[c] = CallOf(c)
      /\ (dead \/ DispAt("stuck"))' = (dead \/ DispAt("stuck"))
  BY <1>3, CallerStep
<1>5. /\ CallOf(c).st # "closed"
      /\ CallOf(c).answer = IF "REPLY" \in query[h].flags THEN buf[h] ELSE <<>>
  BY <1>0 DEF CallOf, Accepted
<1>6. CallOf(c)' = [CallOf(c) EXCEPT !.st = "open", !.res = r]
  <2>. DEFINE a == IF "REPLY" \in query[h].flags THEN buf[h] ELSE <<>>
  <2>1. CallOf(c)' = [st |-> "open", ask |-> client[c].ask, answer |-> a,
                      res |-> r]
    BY <1>3 DEF CallOf
  <2>2. PICK s \in {"open", "waiting"} :
          CallOf(c) = [st |-> s, ask |-> client[c].ask, answer |-> a,
                       res |-> client[c].res]
    BY <1>0 DEF CallOf, Accepted
  <2>. DEFINE v == [CallOf(c) EXCEPT !.st = "open"]
  <2>. HIDE DEF a
  <2>3. v = [st |-> "open", ask |-> client[c].ask, answer |-> a,
             res |-> client[c].res]
    BY <2>2
  <2>4. [CallOf(c) EXCEPT !.st = "open", !.res = r] = [v EXCEPT !.res = r]
    OBVIOUS
  <2>. HIDE DEF v
  <2>5. [v EXCEPT !.res = r] = [st |-> "open", ask |-> client[c].ask,
                                answer |-> a, res |-> r]
    BY <2>3
  <2>. QED BY <2>1, <2>4, <2>5
<1>7. Service!Truthful(c, r)
  <2>1. r = "SUCCESS" => Call[c].answer # <<>>
    BY <1>0, <1>4, <1>5 DEF SInv, Told
  <2>2. r \in {"NOREPLY", "EXPIRED"} => Call[c].answer = <<>>
    BY <1>0, <1>4, <1>5
  <2>3. r = "ERROR" => dead \/ DispAt("stuck")
    BY <1>0 DEF SInv, ErrorOK, Broken
  <2>. QED BY <2>1, <2>2, <2>3 DEF Service!Truthful, Call
<1>8. Service!Return(c) BY <1>4, <1>5, <1>6, <1>7 DEF Service!Return, Call
<1>. QED BY <1>2, <1>8 DEF Service!Next

\* The outcome read after the wait, and the one that is there at once.
LEMMA OutcomeServes ==
    ASSUME SInv, IInv', NEW c \in Clients,
           WaitAtOnce(c) \/ Awake(c) \/ TimedOut(c)
    PROVE  SInv' /\ Service!Next
<1>0. Accepted(c) BY DEF WaitAtOnce, MayWait, Awake, TimedOut, Accepted
<1>1. UNCHANGED <<query, buf, dead, disp>>
  BY DEF WaitAtOnce, Awake, TimedOut, libvars
<1>2. CASE AfterWait(c)
  <2>. DEFINE f == query[client[c].h].flags
  <2>1. CASE "ERROR" \in f BY <1>0, <1>1, <1>2, <2>1, ReturnServes DEF AfterWait
  <2>2. CASE f \cap {"ERROR", "REPLY"} = {}
    <3>1. PICK r \in {"EXPIRED", "NOREPLY"} : Return(c, r)
      BY <1>2, <2>2 DEF AfterWait
    <3>. QED BY <1>0, <1>1, <2>2, <3>1, ReturnServes
  <2>3. CASE "ERROR" \notin f /\ "REPLY" \in f
    BY <1>0, <1>1, <1>2, <2>3, ReturnServes DEF AfterWait
  <2>. QED BY <2>1, <2>2, <2>3
<1>3. CASE WaitAtOnce(c)
  <2>1. PICK r \in {"SUCCESS", "EXPIRED", "ERROR"} :
          /\ Return(c, r)
          /\ r = "SUCCESS" => "REPLY" \in query[client[c].h].flags
          /\ r = "EXPIRED" => "REPLY" \notin query[client[c].h].flags
          /\ r = "ERROR" => "ERROR" \in query[client[c].h].flags
    BY <1>3 DEF WaitAtOnce
  <2>. QED BY <1>0, <1>1, <2>1, ReturnServes
<1>4. CASE Awake(c) /\ client' = client
  <2>1. SInv' BY <1>1, CallerKeeps
  <2>2. Call' = Call /\ (Broken' <=> Broken)
    BY <1>1, <1>4, OtherCalls DEF Call, Broken, DispAt, SInv
  <2>. QED BY <2>1, <2>2, UnseenServes
<1>. QED BY <1>2, <1>3, <1>4 DEF Awake, TimedOut

-----------------------------------------------------------------------------
(* The theorems.                                                           *)

\* Every step of the resolver keeps its invariant and is one of ArService.
LEMMA ServiceStep ==
    ASSUME Sound, SInv, IInv', Next
    PROVE  SInv' /\ Service!Next
<1>1. CASE \E c \in Clients : ClientStep(c)
  <2>1. PICK c \in Clients : ClientStep(c) BY <1>1
  <2>2. CASE \E a \in Questions : Add(c, a) BY <2>2, AddServes
  <2>3. CASE \E l \in Limits : Enqueue(c, l) \/ EnqueueFails(c, l)
    BY <2>3, SubmitServes DEF Enqueue, EnqueueFails
  <2>4. CASE \E w \in Waits : WaitBlock(c, w) BY <2>4, BlockServes
  <2>5. CASE WaitAtOnce(c) \/ WakeUp(c) \/ Spurious(c) \/ TimedOut(c)
    BY <2>5, OutcomeServes DEF WakeUp, Spurious
  <2>6. CASE Cancel(c) BY <2>6, CancelServes
  <2>7. CASE Recycle(c) BY <2>7, RecycleServes
  <2>. QED BY <2>1, <2>2, <2>3, <2>4, <2>5, <2>6, <2>7 DEF ClientStep
<1>2. CASE Shutdown \/ Join \/ Finished
  BY <1>2, LibraryUnseen DEF Shutdown, Join, Finished, libvars, vars, SInv, IInv,
     TypeOK, DispType
<1>3. CASE Dispatcher
  <2>1. CASE \/ EnterSelect \/ LeaveSelect \/ ReadFails \/ ReadBroken
             \/ NothingToSend \/ ReadControl \/ NothingToRetry
             \/ \E h \in Handles : ReadStray(h) \/ ReadMalformed(h)
    <3>1. disp \in DispType BY DEF SInv, IInv, TypeOK
    <3>2. UNCHANGED <<query, buf, dead, client>>
      BY <2>1 DEF EnterSelect, LeaveSelect, ReadFails, ReadBroken, NothingToSend,
         ReadControl, NothingToRetry, ReadStray, ReadMalformed, libvars
    <3>3. disp'.pc # "stuck" /\ disp.pc # "stuck"
      <4>1. CASE LeaveSelect BY <3>1, <4>1 DEF LeaveSelect, DispType, DispAt
      <4>2. CASE ReadControl BY <3>1, <4>2 DEF ReadControl, DispType, DispAt
      <4>3. CASE \E h \in Handles : ReadStray(h) \/ ReadMalformed(h)
        BY <3>1, <4>3 DEF ReadStray, ReadMalformed, DispType, DispAt
      <4>. QED
        BY <2>1, <3>1, <4>1, <4>2, <4>3 DEF EnterSelect, ReadFails, ReadBroken,
           NothingToSend, NothingToRetry, DispType, DispAt
    <3>. QED BY <3>2, <3>3, LibraryUnseen
  <2>2. CASE \E h \in Handles : ReadAlias(h) BY <2>2, AliasUnseen
  <2>3. CASE \E h \in Handles : ReadAnswer(h) BY <2>3, AnswerServes
  <2>4. CASE RetryTCP \/ Reconnect
    BY <2>4, LibraryUnseen DEF RetryTCP, Reconnect, libvars, SInv, IInv,
       TypeOK, DispType, DispAt
  <2>5. CASE Expire BY <2>5, MarksUnseen
  <2>6. CASE AllDead \/ AllDeadStuck BY <2>6, DeadServes
  <2>7. CASE SendPending
    <3>1. Head(pending) \in Handles
      BY <2>7, TailList DEF SendPending, SInv, IInv, TypeOK
    <3>2. disp'.pc # "stuck" /\ disp.pc # "stuck"
      BY <2>7 DEF SendPending, DispAt, SInv, IInv, TypeOK, DispType
    <3>. QED BY <2>7, <3>1, <3>2, SendUnseen DEF SendPending
  <2>8. CASE RetryUDP
    <3>1. PICK i \in DOMAIN active : SendQuery(active[i])
      BY <2>8 DEF RetryUDP
    <3>2. i \in 1..Len(active)
      BY <3>1, ListIndices DEF SInv, IInv, TypeOK
    <3>3. active[i] \in Handles
      BY <3>2, ElementOfSeq DEF SInv, IInv, TypeOK
    <3>4. disp'.pc # "stuck" /\ disp.pc # "stuck"
      BY <2>8 DEF RetryUDP, DispAt, SInv, IInv, TypeOK, DispType
    <3>. QED BY <2>8, <3>1, <3>3, <3>4, SendUnseen DEF RetryUDP
  <2>. QED BY <1>3, <2>1, <2>2, <2>3, <2>4, <2>5, <2>6, <2>7, <2>8 DEF Dispatcher
<1>4. CASE Environment
  <2>1. CASE \E h \in Handles : RetryElapses(h) \/ QueryElapses(h)
    BY <2>1, MarksUnseen
  <2>2. CASE Break \/ \E h \in Handles : Reply(h) \/ Lose(h)
    BY <2>2, LibraryUnseen DEF Break, Reply, Lose, libvars
  <2>. QED BY <1>4, <2>1, <2>2 DEF Environment
<1>. QED BY <1>1, <1>2, <1>3, <1>4 DEF Next

\* A step that changes nothing.
LEMMA ServiceStutter ==
    ASSUME SInv, UNCHANGED vars
    PROVE  SInv' /\ UNCHANGED Service!vars
<1>1. IInv' BY StutterOK DEF SInv
<1>2. UNCHANGED <<query, buf, dead, client, disp>> BY DEF vars, libvars
<1>3. SInv' BY <1>1, <1>2, CallerKeeps
<1>4. \A c \in Clients : CallOf(c)' = CallOf(c) BY <1>2 DEF CallOf
<1>5. [c \in Clients |-> CallOf(c)]' = [c \in Clients |-> CallOf(c)]
  BY <1>4
<1>6. (dead \/ DispAt("stuck"))' = (dead \/ DispAt("stuck"))
  BY <1>2 DEF DispAt
<1>. QED BY <1>3, <1>5, <1>6 DEF Service!vars

\* The resolver implements ArService: where packets leave as they should and no
\* query is given up, every caller gets an answer to its own question, which only
\* another reply to that question replaces, and each return of ar_waitreply()
\* tells the truth, whatever is lost, duplicated or late, however the connection
\* breaks and though the dispatcher cannot be woken.
THEOREM Refinement == ASSUME Sound PROVE Spec => ImplementsService
<1>1. Init => SInv /\ Service!Init BY ServiceInit
<1>2. SInv /\ IInv' /\ [Next]_vars => SInv' /\ [Service!Next]_(Service!vars)
  BY ServiceStep, ServiceStutter
<1>. QED BY <1>1, <1>2, Inductive, PTL DEF Spec, Service!Spec, ImplementsService

\* The same invariant, for the theorem on answers.
LEMMA SoundInductive == ASSUME Sound PROVE Spec => []SInv
<1>1. Init => SInv BY ServiceInit
<1>2. SInv /\ IInv' /\ [Next]_vars => SInv' BY ServiceStep, ServiceStutter
<1>. QED BY <1>1, <1>2, Inductive, PTL DEF Spec

\* Under the same assumption a caller that is told AR_STAT_SUCCESS has in its
\* buffer a reply to this call's question, as far down its CNAMEs as the
\* dispatcher followed them, and followed to the end as the caller allowed.
THEOREM RightAnswerAlways == ASSUME Sound PROVE Spec => []RightAnswer
<1>1. SInv => RightAnswer
  <2>. SUFFICES ASSUME SInv, NEW c \in Clients, client[c].res = "SUCCESS"
                PROVE  /\ Answered(buf[client[c].h]) = query[client[c].h].at
                       /\ buf[client[c].h].ask = client[c].ask
                       /\ Final(buf[client[c].h])
    BY DEF RightAnswer, Final
  <2>1. Owns(c) BY DEF SInv, IInv, OutcomeOK, Accepted, Owns
  <2>2. PICK h \in Handles : client[c].h = h /\ h \in Linked
    BY <2>1, OwnHandle DEF SInv, IInv, Owns, Placed
  <2>3. buf[h] # <<>> BY <2>2 DEF SInv, IInv, OutcomeOK, Told
  <2>4. Trusted(h) BY DEF Sound, Trusted
  <2>. QED BY <2>1, <2>2, <2>3, <2>4
         DEF SInv, IInv, AnswersOK, AnswerOK, Answered, Final
<1>. QED BY <1>1, SoundInductive, PTL

\* With every fault and every setting: a caller told AR_STAT_SUCCESS whose query
\* was not given up, and whose buffer holds a reply at all, has the reply to its
\* own question.
OwnAnswer ==
    \A c \in Clients :
        LET h == client[c].h IN
        /\ client[c].res = "SUCCESS"
        /\ "ERROR" \notin query[h].flags /\ buf[h] # <<>>
        => /\ Answered(buf[h]) = query[h].at /\ buf[h].ask = client[c].ask
           /\ Final(buf[h])

\* No recycled handle, late, duplicated or malformed reply, failed send, retry
\* limit or reconnection gives a caller the answer to another question.
THEOREM OwnAnswerAlways == Spec => []OwnAnswer
<1>1. IInv => OwnAnswer
  <2>. SUFFICES ASSUME IInv, NEW c \in Clients, client[c].res = "SUCCESS",
                       "ERROR" \notin query[client[c].h].flags,
                       buf[client[c].h] # <<>>
                PROVE  /\ Answered(buf[client[c].h]) = query[client[c].h].at
                       /\ buf[client[c].h].ask = client[c].ask
                       /\ Final(buf[client[c].h])
    BY DEF OwnAnswer
  <2>1. Owns(c) BY DEF IInv, OutcomeOK, Accepted, Owns
  <2>2. PICK h \in Handles : client[c].h = h /\ h \in Linked
    BY <2>1, OwnHandle DEF IInv, Owns, Placed
  <2>3. Trusted(h) BY <2>2 DEF Trusted
  <2>. QED BY <2>1, <2>2, <2>3
         DEF IInv, AnswersOK, AnswerOK, Answered, Final
<1>. QED BY <1>1, Inductive, PTL
=============================================================================
