--------------------------- MODULE PeerLinkProofs ---------------------------
(***************************************************************************)
(* Proofs about PeerLink, for any number of calls, chunks and epochs and    *)
(* any limits: a stream that ends is complete, a settled request is never   *)
(* heard of again, and the connection breaks only in the known crossings.   *)
(***************************************************************************)
EXTENDS PeerLink, SequenceTheorems, FiniteSetTheorems, TLAPS

(***************************************************************************)
(* The two ends.                                                            *)
(***************************************************************************)
\* Ids are given out in order, and a caller has a reader once its stream began.
ClientOK ==
    /\ nextId + deferred <= asked + 1
    /\ \A id \in Id :
          /\ call[id].state = "free" <=> id >= nextId
          /\ call[id].state = "sending" => call[id].kind = "upload"
          /\ call[id].state = "stream" => call[id].kind \in {"range", "ensure"}
          /\ call[id].state \in {"free", "sending", "pending"} => reader[id] = NoReader

\* An end that has gone has no tables, and nothing is on its way to it.
EndsOK ==
    /\ end.client # "up" => ~HostUp /\ toClient = <<>>
    /\ ~HostUp => host = NoHost /\ toHost = <<>>

\* What the host knows of are requests it has received.
HostOK ==
    /\ host.last < nextId
    /\ host.contexts \cup host.jobs \subseteq 1..host.last
    /\ host.contexts \subseteq host.jobs \cup host.streams /\ host.streams \cap host.jobs = {}
    /\ \A id \in host.contexts \cup host.jobs :
          call[id].kind \in {"json", "range", "ensure", "inspect"}
    /\ \A id \in host.streams : call[id].kind \in {"range", "ensure"}
    /\ \A id \in Id : id \notin host.streams => host.sent[id] = 0
    /\ host.upload # NoId => host.upload <= host.last /\ call[host.upload].kind = "upload"

(***************************************************************************)
(* The frames on their way to the host.                                     *)
(***************************************************************************)
\* Requests have rising ids; the end of an upload and a cancellation are the last
\* the host hears of an id.
HostOrder(s) ==
    \A i, j \in 1..Len(s) : i < j =>
        /\ s[j].type = "request" => s[i].id < s[j].id
        /\ s[i].id = s[j].id => s[i].type \in {"request", "chunk"}

Told(id) == \E f \in ToSet(toHost) : f.id = id

ToHostOK ==
    /\ HostOrder(toHost)
    /\ HostUp => \A id \in Id : host.last < id /\ id < nextId =>
                    Msg("request", id, 0) \in ToSet(toHost)
    /\ \A f \in ToSet(toHost) :
          /\ f.id < nextId
          /\ f.type = "request" => f.id > host.last
          /\ f.type \in {"chunk", "final", "failed"} => call[f.id].kind = "upload"
          /\ f.type \in {"final", "failed"} => call[f.id].state # "sending"
          /\ f.type = "cancelled" => /\ f.n = 0 /\ call[f.id].kind \in {"range", "ensure"}
                                     /\ call[f.id].state = "left"

\* The host knows of an upload that may go on, or has refused it; and of a
\* derivative whose cancellation may come.
KnownOK ==
    \A id \in 1..host.last :
        /\ call[id].kind = "upload" /\ (call[id].state = "sending" \/ Told(id)) =>
              id = host.upload \/ id \in refused
        /\ call[id].kind = "ensure" /\ (call[id].state \in {"pending", "stream"} \/ Told(id)) =>
              id \in host.contexts \cup ToSet(host.recent) \cup host.forgotten \cup refused

(***************************************************************************)
(* The frames on their way to the client.                                   *)
(***************************************************************************)
\* The frames of one request: an answer, or the beginning of a stream, its chunks
\* in order and its end.
ClientOrder(s) ==
    \A i, j \in 1..Len(s) : i < j /\ s[i].id = s[j].id =>
        /\ s[i].type \in {"meta", "chunk"} /\ s[j].type \in {"chunk", "final", "failed"}
        /\ s[i].type = "chunk" /\ s[j].type = "chunk" => s[i].n < s[j].n

Heard(id) == \E f \in ToSet(toClient) : f.id = id

\* The host may yet answer: it has the request, or will get it.
Live(id) == HostUp /\ (id > host.last \/ id \in host.contexts \cup {host.upload})

ToClientOK ==
    /\ ClientOrder(toClient)
    /\ \A f \in ToSet(toClient) :
          /\ f.id < nextId /\ (HostUp => f.id <= host.last)
          /\ call[f.id].state # "over"
          /\ f.type = "meta" => f.n = 0 /\ call[f.id].kind \in {"range", "ensure"}
          /\ f.type \in {"ok", "error", "final", "failed"} => ~Live(f.id)
          /\ f.type \in {"chunk", "final", "failed"} =>
                \/ call[f.id].state \in {"stream", "left"}
                \/ Msg("meta", f.id, 0) \in ToSet(toClient)
          /\ call[f.id].state = "stream" => f.type \notin {"ok", "error", "meta"}

\* Who is waiting for what.
LiveOK ==
    \A id \in Id :
        /\ call[id].state = "over" => ~Live(id)
        /\ id \in (host.jobs \cap host.contexts) \cup {host.upload} =>
              ~Heard(id) /\ call[id].state # "stream"
        /\ HostUp /\ call[id].state = "stream" => id <= host.last
        /\ id \in host.streams => \/ call[id].state \in {"stream", "left"}
                                  \/ Msg("meta", id, 0) \in ToSet(toClient)

(***************************************************************************)
(* The chunks of a stream.                                                  *)
(***************************************************************************)
Chunk(id, n) == Msg("chunk", id, n)

\* The chunks that were put into the reader's buffer.
Rcvd(id) == Len(reader[id].got) + Len(reader[id].buf)

\* The client passes on what it gets.
Following(id) ==
    call[id].state \in {"pending", "stream"} /\ reader[id].state \in {"none", "open"}

\* Every chunk up to n that was not received is on its way.
UnderWay(id, n) == \A m \in (Rcvd(id) + 1)..n : Chunk(id, m) \in ToSet(toClient)

ChunksOK ==
    /\ \A f \in ToSet(toClient) :
          /\ f.type = "chunk" => f.n >= 1
          /\ f.type = "chunk" /\ f.id \in host.streams => f.n <= host.sent[f.id]
          /\ Following(f.id) =>
                /\ f.type = "chunk" => f.n > Rcvd(f.id) /\ UnderWay(f.id, f.n)
                /\ f.type = "final" => UnderWay(f.id, Chunks)
    /\ \A id \in Id : Following(id) =>
          /\ Rcvd(id) <= Chunks
          /\ id \in host.streams => Rcvd(id) <= host.sent[id] /\ UnderWay(id, host.sent[id])

ReaderOK(r) ==
    /\ \A i \in 1..Len(r.got) : r.got[i] = i
    /\ \A i \in 1..Len(r.buf) :
          /\ r.buf[i].type \in {"chunk", "final", "failed"}
          /\ r.buf[i].type = "chunk" => r.buf[i].n = Len(r.got) + i
          /\ r.buf[i].type = "final" => Len(r.got) + i = Chunks + 1

ReadersOK ==
    \A id \in Id :
        /\ reader[id].state = "open" =>
              /\ ReaderOK(reader[id]) /\ call[id].state \in {"stream", "over", "left"}
              /\ call[id].state = "stream" =>
                    \A i \in 1..Len(reader[id].buf) : reader[id].buf[i].type = "chunk"
        /\ reader[id].state = "eof" => reader[id].got = [i \in 1..Chunks |-> i]

Inv ==
    /\ TypeOK /\ ClientOK /\ EndsOK /\ HostOK /\ ToHostOK /\ KnownOK
    /\ ToClientOK /\ LiveOK /\ ChunksOK /\ ReadersOK

\* No inspection follows a cancellation of a later epoch, and the epoch the host
\* keeps is that of a cancellation it has received.
EpochsOK ==
    /\ \A id \in Id : id < nextId /\ call[id].kind = "inspectCancel" => call[id].epoch <= cancelEpoch
    /\ \A i, j \in Id :
          i < j /\ j < nextId /\ call[i].kind = "inspectCancel" /\ call[j].kind = "inspect" =>
             call[i].epoch <= call[j].epoch
    /\ host.mediaEpoch > 0 =>
          \E id \in 1..host.last : call[id].kind = "inspectCancel" /\ call[id].epoch = host.mediaEpoch
    /\ StaleInspectionsEnd

(***************************************************************************)
(* Sequences.                                                               *)
(***************************************************************************)
\* What a sequence holds.
LEMMA SetFacts ==
    ASSUME NEW S, NEW s \in Seq(S)
    PROVE  /\ Len(s) \in Nat /\ DOMAIN s = 1..Len(s) /\ ToSet(s) \subseteq S
           /\ \A i \in 1..Len(s) : s[i] \in S /\ s[i] \in ToSet(s)
           /\ \A x : x \in ToSet(s) <=> \E i \in 1..Len(s) : s[i] = x
BY LenProperties, ElementOfSeq DEF ToSet

\* The empty sequence.
LEMMA EmptyFacts ==
    ASSUME NEW S
    PROVE  <<>> \in Seq(S) /\ Len(<<>>) = 0 /\ ToSet(<<>>) = {} /\ IsInjective(<<>>)
<1>1. <<>> \in Seq(S) /\ Len(<<>>) = 0
    BY EmptySeq
<1>2. DOMAIN <<>> = {} /\ ToSet(<<>>) = {}
    <2>1. DOMAIN <<>> = 1..Len(<<>>)
        BY <1>1, LenProperties
    <2> QED BY <1>1, <2>1 DEF ToSet
<1> QED BY <1>1, <1>2 DEF IsInjective

\* Taking the first element.
LEMMA TailFacts ==
    ASSUME NEW S, NEW s \in Seq(S), s # <<>>
    PROVE  /\ Head(s) \in S /\ Tail(s) \in Seq(S)
           /\ Len(s) \in Nat \ {0} /\ Len(Tail(s)) = Len(s) - 1
           /\ s[1] = Head(s) /\ \A i \in 1..Len(Tail(s)) : Tail(s)[i] = s[i + 1]
           /\ ToSet(s) = {Head(s)} \cup ToSet(Tail(s))
<1>1. /\ Head(s) \in S /\ Tail(s) \in Seq(S) /\ Len(Tail(s)) = Len(s) - 1
      /\ \A i \in 1..Len(Tail(s)) : Tail(s)[i] = s[i + 1]
      /\ Len(s) \in Nat \ {0} /\ s[1] = Head(s)
    BY HeadTailProperties, EmptySeq
<1>2. ASSUME NEW x \in ToSet(s) PROVE x = Head(s) \/ x \in ToSet(Tail(s))
    <2>1. PICK i \in 1..Len(s) : s[i] = x
        BY SetFacts
    <2>2. CASE i = 1
        BY <1>1, <2>1, <2>2
    <2>3. CASE i # 1
        <3>1. i - 1 \in 1..Len(Tail(s)) /\ Tail(s)[i - 1] = x
            BY <1>1, <2>1, <2>3
        <3> QED BY <1>1, <3>1, SetFacts
    <2> QED BY <2>2, <2>3
<1>3. ASSUME NEW x \in ToSet(Tail(s)) PROVE x \in ToSet(s)
    <2>1. PICK i \in 1..Len(Tail(s)) : Tail(s)[i] = x
        BY <1>1, SetFacts, ZenonT(60)
    <2>2. i + 1 \in 1..Len(s) /\ s[i + 1] = x
        BY <1>1, <2>1
    <2> QED BY <2>2, SetFacts
<1>4. Head(s) \in ToSet(s)
    BY <1>1, SetFacts
<1> QED BY <1>1, <1>2, <1>3, <1>4

\* Adding an element.
LEMMA AppendFacts ==
    ASSUME NEW S, NEW s \in Seq(S), NEW e \in S
    PROVE  /\ Append(s, e) \in Seq(S) /\ Len(Append(s, e)) = Len(s) + 1
           /\ \A i \in 1..Len(s) : Append(s, e)[i] = s[i]
           /\ Append(s, e)[Len(s) + 1] = e
           /\ ToSet(Append(s, e)) = ToSet(s) \cup {e}
<1>1. /\ Append(s, e) \in Seq(S) /\ Len(Append(s, e)) = Len(s) + 1 /\ Len(s) \in Nat
      /\ \A i \in 1..Len(s) : Append(s, e)[i] = s[i]
      /\ Append(s, e)[Len(s) + 1] = e
    BY AppendProperties, LenProperties
<1>2. ASSUME NEW x \in ToSet(Append(s, e)) PROVE x = e \/ x \in ToSet(s)
    <2>1. PICK i \in 1..Len(Append(s, e)) : Append(s, e)[i] = x
        BY <1>1, SetFacts, Zenon
    <2>2. CASE i = Len(s) + 1
        BY <1>1, <2>1, <2>2
    <2>3. CASE i # Len(s) + 1
        <3>1. i \in 1..Len(s) /\ s[i] = x
            BY <1>1, <2>1, <2>3
        <3> QED BY <3>1, SetFacts
    <2> QED BY <2>2, <2>3
<1>3. ASSUME NEW x \in ToSet(s) PROVE x \in ToSet(Append(s, e))
    <2>1. PICK i \in 1..Len(s) : s[i] = x
        BY SetFacts
    <2>2. i \in 1..Len(Append(s, e)) /\ Append(s, e)[i] = x
        BY <1>1, <2>1
    <2> QED BY <1>1, <2>2, SetFacts
<1>4. e \in ToSet(Append(s, e))
    <2>1. Len(s) + 1 \in 1..Len(Append(s, e))
        BY <1>1
    <2> QED BY <1>1, <2>1, SetFacts
<1> QED BY <1>1, <1>2, <1>3, <1>4

\* Without the element at one place.
LEMMA RemoveAtFacts ==
    ASSUME NEW S, NEW s \in Seq(S), NEW k \in 1..Len(s)
    PROVE  /\ RemoveAt(s, k) \in Seq(S) /\ Len(RemoveAt(s, k)) = Len(s) - 1
           /\ \A i \in 1..(Len(s) - 1) : RemoveAt(s, k)[i] = IF i < k THEN s[i] ELSE s[i + 1]
<1> DEFINE a == SubSeq(s, 1, k - 1)
           b == SubSeq(s, k + 1, Len(s))
<1>0. Len(s) \in Nat /\ k \in Int /\ 1 <= k /\ k <= Len(s) /\ \A i \in 1..Len(s) : s[i] \in S
    BY SetFacts
<1>1. a \in Seq(S) /\ Len(a) = k - 1 /\ \A i \in 1..(k - 1) : a[i] = s[i]
    <2>1. \A i \in 1..(k - 1) : s[i] \in S
        BY <1>0
    <2>2. a \in Seq(S) /\ Len(a) = (IF 1 <= k - 1 THEN (k - 1) - 1 + 1 ELSE 0)
          /\ \A i \in 1..((k - 1) - 1 + 1) : a[i] = s[1 + i - 1]
        BY <1>0, <2>1, SubSeqProperties
    <2> HIDE DEF a
    <2> QED BY <1>0, <2>2
<1>2. b \in Seq(S) /\ Len(b) = Len(s) - k /\ \A i \in 1..(Len(s) - k) : b[i] = s[k + i]
    <2>1. \A i \in (k + 1)..Len(s) : s[i] \in S
        BY <1>0
    <2>2. b \in Seq(S) /\ Len(b) = (IF k + 1 <= Len(s) THEN Len(s) - (k + 1) + 1 ELSE 0)
          /\ \A i \in 1..(Len(s) - (k + 1) + 1) : b[i] = s[(k + 1) + i - 1]
        BY <1>0, <2>1, SubSeqProperties
    <2> HIDE DEF b
    <2> QED BY <1>0, <2>2
<1>3. RemoveAt(s, k) = a \o b
    BY DEF RemoveAt
<1> HIDE DEF a, b
<1>4. /\ a \o b \in Seq(S) /\ Len(a \o b) = Len(a) + Len(b)
      /\ \A i \in 1..(Len(a) + Len(b)) :
            (a \o b)[i] = IF i <= Len(a) THEN a[i] ELSE b[i - Len(a)]
    BY <1>1, <1>2, ConcatProperties
<1>5. ASSUME NEW i \in 1..(Len(s) - 1)
      PROVE  (a \o b)[i] = IF i < k THEN s[i] ELSE s[i + 1]
    <2>1. CASE i < k
        BY <1>0, <1>1, <1>2, <1>4, <2>1
    <2>2. CASE ~(i < k)
        <3>1. i - (k - 1) \in 1..(Len(s) - k) /\ k + (i - (k - 1)) = i + 1 /\ i \in 1..(Len(a) + Len(b))
            BY <1>0, <1>1, <1>2, <2>2
        <3>2. (a \o b)[i] = b[i - (k - 1)]
            BY <1>0, <1>1, <1>4, <2>2, <3>1
        <3> QED BY <1>2, <2>2, <3>1, <3>2
    <2> QED BY <2>1, <2>2
<1> QED BY <1>0, <1>1, <1>2, <1>3, <1>4, <1>5

\* Without the first occurrence of an element.
LEMMA RemoveFirstFacts ==
    ASSUME NEW S, NEW s \in Seq(S), NEW e
    PROVE  /\ RemoveFirst(s, e) \in Seq(S) /\ Len(RemoveFirst(s, e)) <= Len(s)
           /\ ToSet(s) \ {e} \subseteq ToSet(RemoveFirst(s, e))
           /\ ToSet(RemoveFirst(s, e)) \subseteq ToSet(s)
           /\ IsInjective(s) => /\ IsInjective(RemoveFirst(s, e))
                                /\ ToSet(RemoveFirst(s, e)) = ToSet(s) \ {e}
<1>0. Len(s) \in Nat /\ DOMAIN s = 1..Len(s)
    BY SetFacts
<1>1. CASE ~\E i \in 1..Len(s) : s[i] = e
    <2>1. RemoveFirst(s, e) = s
        BY <1>1 DEF RemoveFirst
    <2>2. e \notin ToSet(s)
        BY <1>1, SetFacts
    <2> QED BY <1>0, <2>1, <2>2
<1>2. CASE \E i \in 1..Len(s) : s[i] = e
    <2> DEFINE I == {i \in 1..Len(s) : s[i] = e}
               k == Min(I)
               r == RemoveAt(s, k)
    <2>1. k \in 1..Len(s) /\ s[k] = e
        <3>1. I \subseteq Nat /\ I # {}
            BY <1>2
        <3>2. PICK m \in I : \A n \in I : m <= n
            <4>1. IsWellFoundedOn(OpToRel(<, Nat), Nat)
                BY NatLessThanWellFounded
            <4>2. PICK m \in I : \A n \in I : ~(<<n, m>> \in OpToRel(<, Nat))
                BY <3>1, <4>1, WFMin
            <4>3. ASSUME NEW n \in I PROVE m <= n
                <5>1. n \in Nat /\ m \in Nat
                    BY <3>1
                <5>2. ~(n < m)
                    BY <4>2, <5>1 DEF OpToRel
                <5> QED BY <5>1, <5>2
            <4> QED BY <4>3
        <3>3. k \in I
            BY <3>2 DEF Min
        <3> QED BY <3>3
    <2>2. RemoveFirst(s, e) = r
        BY <1>2 DEF RemoveFirst, SelectInSeq
    <2> HIDE DEF k
    <2>3. /\ r \in Seq(S) /\ Len(r) = Len(s) - 1
          /\ \A i \in 1..(Len(s) - 1) : r[i] = IF i < k THEN s[i] ELSE s[i + 1]
        BY <2>1, RemoveAtFacts
    <2> HIDE DEF r
    <2>4. ASSUME NEW x \in ToSet(s) \ {e} PROVE x \in ToSet(r)
        <3>1. PICK i \in 1..Len(s) : s[i] = x
            BY SetFacts
        <3>2. CASE i < k
            <4>1. i \in 1..Len(r) /\ r[i] = x
                BY <1>0, <2>1, <2>3, <3>1, <3>2
            <4> QED BY <2>3, <4>1, SetFacts
        <3>3. CASE ~(i < k)
            <4>1. i # k
                BY <2>1, <3>1
            <4>2. i - 1 \in 1..Len(r) /\ r[i - 1] = x
                BY <1>0, <2>1, <2>3, <3>1, <3>3, <4>1
            <4> QED BY <2>3, <4>2, SetFacts
        <3> QED BY <3>2, <3>3
    <2>5. ASSUME NEW i \in 1..Len(r)
          PROVE  \E j \in 1..Len(s) : j # k /\ r[i] = s[j] /\ j = IF i < k THEN i ELSE i + 1
        BY <1>0, <2>1, <2>3
    <2>6. ToSet(r) \subseteq ToSet(s)
        <3> SUFFICES ASSUME NEW x \in ToSet(r) PROVE x \in ToSet(s)
            OBVIOUS
        <3>1. PICK i \in 1..Len(r) : r[i] = x
            BY <2>3, SetFacts
        <3> QED BY <2>5, <3>1, SetFacts
    <2>7. ASSUME IsInjective(s) PROVE IsInjective(r) /\ e \notin ToSet(r)
        <3>1. \A i, j \in 1..Len(s) : s[i] = s[j] => i = j
            BY <1>0, <2>7 DEF IsInjective
        <3>2. ASSUME NEW i \in 1..Len(r), NEW j \in 1..Len(r), r[i] = r[j] PROVE i = j
            BY <1>0, <2>1, <2>3, <2>5, <3>1, <3>2
        <3>3. DOMAIN r = 1..Len(r)
            BY <2>3, SetFacts
        <3>4. ASSUME e \in ToSet(r) PROVE FALSE
            <4>1. PICK i \in 1..Len(r) : r[i] = e
                BY <2>3, <3>4, SetFacts
            <4> QED BY <2>1, <2>5, <3>1, <4>1
        <3> QED BY <3>2, <3>3, <3>4 DEF IsInjective
    <2> QED BY <1>0, <2>2, <2>3, <2>4, <2>6, <2>7
<1> QED BY <1>1, <1>2

\* Queues of turns: no element comes twice.
LEMMA TurnFacts ==
    ASSUME NEW S, NEW s \in Seq(S), IsInjective(s)
    PROVE  /\ s # <<>> => /\ IsInjective(Tail(s)) /\ Head(s) \notin ToSet(Tail(s))
                          /\ ToSet(Tail(s)) = ToSet(s) \ {Head(s)}
           /\ \A e \in S : e \notin ToSet(s) => IsInjective(Append(s, e))
<1>0. \A i, j \in 1..Len(s) : s[i] = s[j] => i = j
    BY SetFacts DEF IsInjective
<1>1. ASSUME s # <<>>
      PROVE  IsInjective(Tail(s)) /\ Head(s) \notin ToSet(Tail(s))
    <2>1. /\ Tail(s) \in Seq(S) /\ Len(s) \in Nat \ {0} /\ Len(Tail(s)) = Len(s) - 1
          /\ s[1] = Head(s) /\ \A i \in 1..Len(Tail(s)) : Tail(s)[i] = s[i + 1]
        BY <1>1, TailFacts
    <2>2. DOMAIN Tail(s) = 1..Len(Tail(s))
        BY <2>1, SetFacts
    <2>3. ASSUME NEW i \in 1..Len(Tail(s)), NEW j \in 1..Len(Tail(s)), Tail(s)[i] = Tail(s)[j]
          PROVE  i = j
        <3>1. i + 1 \in 1..Len(s) /\ j + 1 \in 1..Len(s) /\ s[i + 1] = s[j + 1]
            BY <2>1, <2>3
        <3> QED BY <1>0, <3>1
    <2>4. ASSUME Head(s) \in ToSet(Tail(s)) PROVE FALSE
        <3>0. \A x : x \in ToSet(Tail(s)) <=> \E i \in 1..Len(Tail(s)) : Tail(s)[i] = x
            BY <2>1, SetFacts
        <3>1. PICK i \in 1..Len(Tail(s)) : Tail(s)[i] = Head(s)
            BY <2>4, <3>0, Zenon
        <3>2. i + 1 \in 1..Len(s) /\ 1 \in 1..Len(s) /\ s[i + 1] = s[1] /\ i + 1 # 1
            BY <2>1, <3>1
        <3> QED BY <1>0, <3>2
    <2> QED BY <2>2, <2>3, <2>4 DEF IsInjective
<1>2. ASSUME NEW e \in S, e \notin ToSet(s) PROVE IsInjective(Append(s, e))
    <2>1. /\ Append(s, e) \in Seq(S) /\ Len(Append(s, e)) = Len(s) + 1 /\ Len(s) \in Nat
          /\ \A i \in 1..Len(s) : Append(s, e)[i] = s[i] /\ s[i] \in ToSet(s)
          /\ Append(s, e)[Len(s) + 1] = e
        BY AppendFacts, SetFacts
    <2>2. DOMAIN Append(s, e) = 1..(Len(s) + 1)
        BY <2>1, SetFacts
    <2>3. ASSUME NEW i \in 1..(Len(s) + 1), NEW j \in 1..(Len(s) + 1),
                 Append(s, e)[i] = Append(s, e)[j]
          PROVE  i = j
        <3>1. CASE i \in 1..Len(s) /\ j \in 1..Len(s)
            BY <1>0, <2>1, <2>3, <3>1
        <3>2. CASE i \notin 1..Len(s) \/ j \notin 1..Len(s)
            <4>1. i = Len(s) + 1 \/ j = Len(s) + 1
                BY <2>1, <3>2
            <4>2. i \in 1..Len(s) => Append(s, e)[i] # e
                BY <1>2, <2>1
            <4>3. j \in 1..Len(s) => Append(s, e)[j] # e
                BY <1>2, <2>1
            <4> QED BY <2>1, <2>3, <4>1, <4>2, <4>3
        <3> QED BY <3>1, <3>2
    <2> QED BY <2>2, <2>3 DEF IsInjective
<1> QED BY <1>1, <1>2, TailFacts

\* The one whose turn it was goes to the end of the queue.
LEMMA RotateFacts ==
    ASSUME NEW S, NEW s \in Seq(S), IsInjective(s), s # <<>>
    PROVE  LET r == Append(Tail(s), Head(s))
           IN r \in Seq(S) /\ IsInjective(r) /\ ToSet(r) = ToSet(s)
<1>1. /\ Head(s) \in S /\ Tail(s) \in Seq(S) /\ IsInjective(Tail(s))
      /\ Head(s) \notin ToSet(Tail(s)) /\ ToSet(s) = {Head(s)} \cup ToSet(Tail(s))
    BY TailFacts, TurnFacts
<1> DEFINE t == Tail(s)
           e == Head(s)
<1> HIDE DEF t, e
<1>2. t \in Seq(S) /\ e \in S /\ IsInjective(t) /\ e \notin ToSet(t) /\ ToSet(s) = {e} \cup ToSet(t)
    BY <1>1 DEF t, e
<1>3. IsInjective(Append(t, e))
    BY <1>2, TurnFacts
<1>4. Append(t, e) \in Seq(S) /\ ToSet(Append(t, e)) = ToSet(t) \cup {e}
    BY <1>2, AppendFacts
<1> QED BY <1>2, <1>3, <1>4 DEF t, e

\* One sequence after another.
LEMMA ConcatFacts ==
    ASSUME NEW S, NEW s \in Seq(S), NEW t \in Seq(S)
    PROVE  /\ s \o t \in Seq(S) /\ Len(s \o t) = Len(s) + Len(t)
           /\ Len(s) \in Nat /\ Len(t) \in Nat
           /\ \A i \in 1..Len(s) : (s \o t)[i] = s[i]
           /\ \A i \in (Len(s) + 1)..(Len(s) + Len(t)) :
                 i - Len(s) \in 1..Len(t) /\ (s \o t)[i] = t[i - Len(s)]
           /\ ToSet(s \o t) = ToSet(s) \cup ToSet(t)
<1>1. /\ s \o t \in Seq(S) /\ Len(s \o t) = Len(s) + Len(t) /\ Len(s) \in Nat /\ Len(t) \in Nat
      /\ \A i \in 1..(Len(s) + Len(t)) :
            (s \o t)[i] = IF i <= Len(s) THEN s[i] ELSE t[i - Len(s)]
    BY ConcatProperties, LenProperties
<1>2. \A i \in 1..Len(s) : i \in 1..(Len(s) + Len(t)) /\ (s \o t)[i] = s[i]
    BY <1>1
<1>3. \A i \in (Len(s) + 1)..(Len(s) + Len(t)) :
          i - Len(s) \in 1..Len(t) /\ (s \o t)[i] = t[i - Len(s)]
    BY <1>1
<1>4. \A i \in 1..Len(t) : Len(s) + i \in 1..(Len(s) + Len(t)) /\ (s \o t)[Len(s) + i] = t[i]
    BY <1>1
<1>5. ASSUME NEW x \in ToSet(s \o t) PROVE x \in ToSet(s) \cup ToSet(t)
    <2>1. PICK i \in 1..Len(s \o t) : (s \o t)[i] = x
        BY <1>1, SetFacts, Zenon
    <2>2. CASE i \in 1..Len(s)
        BY <1>2, <2>1, <2>2, SetFacts
    <2>3. CASE i \notin 1..Len(s)
        <3>1. i \in (Len(s) + 1)..(Len(s) + Len(t))
            BY <1>1, <2>3
        <3>2. i - Len(s) \in 1..Len(t) /\ t[i - Len(s)] = x
            BY <1>3, <2>1, <3>1
        <3> QED BY <3>2, SetFacts
    <2> QED BY <2>2, <2>3
<1>6. ASSUME NEW x \in ToSet(s) PROVE x \in ToSet(s \o t)
    <2>1. PICK i \in 1..Len(s) : s[i] = x
        BY SetFacts
    <2>2. i \in 1..Len(s \o t) /\ (s \o t)[i] = x
        BY <1>1, <1>2, <2>1
    <2> QED BY <1>1, <2>2, SetFacts
<1>7. ASSUME NEW x \in ToSet(t) PROVE x \in ToSet(s \o t)
    <2>1. PICK i \in 1..Len(t) : t[i] = x
        BY SetFacts
    <2>2. Len(s) + i \in 1..Len(s \o t) /\ (s \o t)[Len(s) + i] = x
        BY <1>1, <1>4, <2>1
    <2> QED BY <1>1, <2>2, SetFacts
<1> QED BY <1>1, <1>2, <1>3, <1>5, <1>6, <1>7

(***************************************************************************)
(* The order of the frames.                                                 *)
(***************************************************************************)
\* The first frame for the host is handled.
LEMMA HostOrderTail ==
    ASSUME NEW s \in Seq(HostFrames), s # <<>>, HostOrder(s)
    PROVE  /\ HostOrder(Tail(s))
           /\ \A g \in ToSet(Tail(s)) :
                 /\ g.type = "request" => Head(s).id < g.id
                 /\ g.id = Head(s).id => Head(s).type \in {"request", "chunk"}
<1>1. /\ Tail(s) \in Seq(HostFrames) /\ Len(s) \in Nat \ {0} /\ Len(Tail(s)) = Len(s) - 1
      /\ s[1] = Head(s) /\ \A i \in 1..Len(Tail(s)) : Tail(s)[i] = s[i + 1]
    BY TailFacts
<1>2. HostOrder(Tail(s))
    <2> SUFFICES ASSUME NEW i \in 1..Len(Tail(s)), NEW j \in 1..Len(Tail(s)), i < j
                 PROVE  /\ Tail(s)[j].type = "request" => Tail(s)[i].id < Tail(s)[j].id
                        /\ Tail(s)[i].id = Tail(s)[j].id => Tail(s)[i].type \in {"request", "chunk"}
        BY DEF HostOrder
    <2>1. i + 1 \in 1..Len(s) /\ j + 1 \in 1..Len(s) /\ i + 1 < j + 1
          /\ Tail(s)[i] = s[i + 1] /\ Tail(s)[j] = s[j + 1]
        BY <1>1
    <2> QED BY <2>1 DEF HostOrder
<1>3. ASSUME NEW g \in ToSet(Tail(s))
      PROVE  /\ g.type = "request" => Head(s).id < g.id
             /\ g.id = Head(s).id => Head(s).type \in {"request", "chunk"}
    <2>0. \A x : x \in ToSet(Tail(s)) <=> \E i \in 1..Len(Tail(s)) : Tail(s)[i] = x
        BY <1>1, SetFacts
    <2>1. PICK i \in 1..Len(Tail(s)) : Tail(s)[i] = g
        BY <2>0, Zenon
    <2>2. 1 \in 1..Len(s) /\ i + 1 \in 1..Len(s) /\ 1 < i + 1 /\ s[i + 1] = g /\ s[1] = Head(s)
        BY <1>1, <2>1
    <2> QED BY <2>2 DEF HostOrder
<1> QED BY <1>2, <1>3

\* A frame for the host is sent.
LEMMA HostOrderAppend ==
    ASSUME NEW s \in Seq(HostFrames), NEW f \in HostFrames, HostOrder(s),
           \A g \in ToSet(s) : /\ f.type = "request" => g.id < f.id
                               /\ g.id = f.id => g.type \in {"request", "chunk"}
    PROVE  HostOrder(Append(s, f))
<1> DEFINE t == Append(s, f)
<1>1. /\ Len(t) = Len(s) + 1 /\ Len(s) \in Nat /\ t[Len(s) + 1] = f
      /\ \A i \in 1..Len(s) : t[i] = s[i] /\ s[i] \in ToSet(s)
    BY AppendFacts, SetFacts
<1> HIDE DEF t
<1> SUFFICES ASSUME NEW i \in 1..Len(t), NEW j \in 1..Len(t), i < j
             PROVE  /\ t[j].type = "request" => t[i].id < t[j].id
                    /\ t[i].id = t[j].id => t[i].type \in {"request", "chunk"}
    BY DEF HostOrder, t
<1>2. i \in 1..Len(s)
    BY <1>1
<1>3. CASE j \in 1..Len(s)
    BY <1>1, <1>2, <1>3 DEF HostOrder
<1>4. CASE j \notin 1..Len(s)
    BY <1>1, <1>2, <1>4
<1> QED BY <1>3, <1>4

\* How two frames of one request to the client may follow each other.
Follows(f, g) ==
    /\ f.type \in {"meta", "chunk"} /\ g.type \in {"chunk", "final", "failed"}
    /\ f.type = "chunk" /\ g.type = "chunk" => f.n < g.n

\* The first frame for the client is handled.
LEMMA ClientOrderTail ==
    ASSUME NEW s \in Seq(ClientFrames), s # <<>>, ClientOrder(s)
    PROVE  /\ ClientOrder(Tail(s))
           /\ \A g \in ToSet(Tail(s)) : g.id = Head(s).id => Follows(Head(s), g)
<1>1. /\ Tail(s) \in Seq(ClientFrames) /\ Len(s) \in Nat \ {0} /\ Len(Tail(s)) = Len(s) - 1
      /\ s[1] = Head(s) /\ \A i \in 1..Len(Tail(s)) : Tail(s)[i] = s[i + 1]
    BY TailFacts
<1>0. \A i, j \in 1..Len(s) : i < j /\ s[i].id = s[j].id => Follows(s[i], s[j])
    BY DEF ClientOrder, Follows
<1>2. ClientOrder(Tail(s))
    <2> SUFFICES ASSUME NEW i \in 1..Len(Tail(s)), NEW j \in 1..Len(Tail(s)), i < j,
                        Tail(s)[i].id = Tail(s)[j].id
                 PROVE  Follows(Tail(s)[i], Tail(s)[j])
        BY DEF ClientOrder, Follows
    <2>1. i + 1 \in 1..Len(s) /\ j + 1 \in 1..Len(s) /\ i + 1 < j + 1
          /\ Tail(s)[i] = s[i + 1] /\ Tail(s)[j] = s[j + 1]
        BY <1>1
    <2> QED BY <1>0, <2>1
<1>3. ASSUME NEW g \in ToSet(Tail(s)), g.id = Head(s).id PROVE Follows(Head(s), g)
    <2>0. \A x : x \in ToSet(Tail(s)) <=> \E i \in 1..Len(Tail(s)) : Tail(s)[i] = x
        BY <1>1, SetFacts
    <2>1. PICK i \in 1..Len(Tail(s)) : Tail(s)[i] = g
        BY <2>0, Zenon
    <2>2. 1 \in 1..Len(s) /\ i + 1 \in 1..Len(s) /\ 1 < i + 1 /\ s[i + 1] = g /\ s[1] = Head(s)
        BY <1>1, <2>1
    <2> QED BY <1>0, <1>3, <2>2
<1> QED BY <1>2, <1>3

\* Frames are sent to the client.
LEMMA ClientOrderConcat ==
    ASSUME NEW s \in Seq(ClientFrames), NEW t \in Seq(ClientFrames), ClientOrder(s), ClientOrder(t),
           \A f \in ToSet(s), g \in ToSet(t) : f.id = g.id => Follows(f, g)
    PROVE  ClientOrder(s \o t)
<1> DEFINE u == s \o t
<1>1. /\ Len(u) = Len(s) + Len(t) /\ Len(s) \in Nat /\ Len(t) \in Nat
      /\ \A i \in 1..Len(s) : u[i] = s[i]
      /\ \A i \in (Len(s) + 1)..(Len(s) + Len(t)) : i - Len(s) \in 1..Len(t) /\ u[i] = t[i - Len(s)]
    BY ConcatFacts
<1>2. \A i \in 1..Len(s) : s[i] \in ToSet(s)
    BY SetFacts
<1>3. \A i \in 1..Len(t) : t[i] \in ToSet(t)
    BY SetFacts
<1>4. /\ \A i, j \in 1..Len(s) : i < j /\ s[i].id = s[j].id => Follows(s[i], s[j])
      /\ \A i, j \in 1..Len(t) : i < j /\ t[i].id = t[j].id => Follows(t[i], t[j])
    BY DEF ClientOrder, Follows
<1> HIDE DEF u
<1> SUFFICES ASSUME NEW i \in 1..Len(u), NEW j \in 1..Len(u), i < j, u[i].id = u[j].id
             PROVE  Follows(u[i], u[j])
    BY DEF ClientOrder, Follows, u
<1>5. CASE j \in 1..Len(s)
    <2>1. i \in 1..Len(s)
        BY <1>1, <1>5
    <2> QED BY <1>1, <1>4, <1>5, <2>1
<1>6. CASE i \notin 1..Len(s)
    <2>1. i \in (Len(s) + 1)..(Len(s) + Len(t)) /\ j \in (Len(s) + 1)..(Len(s) + Len(t))
        BY <1>1, <1>6
    <2>2. i - Len(s) \in 1..Len(t) /\ j - Len(s) \in 1..Len(t) /\ i - Len(s) < j - Len(s)
          /\ u[i] = t[i - Len(s)] /\ u[j] = t[j - Len(s)]
        BY <1>1, <2>1
    <2> QED BY <1>4, <2>2
<1>7. CASE i \in 1..Len(s) /\ j \notin 1..Len(s)
    <2>1. j \in (Len(s) + 1)..(Len(s) + Len(t))
        BY <1>1, <1>7
    <2>2. u[i] = s[i] /\ s[i] \in ToSet(s)
        BY <1>1, <1>2, <1>7
    <2>3. j - Len(s) \in 1..Len(t) /\ u[j] = t[j - Len(s)] /\ t[j - Len(s)] \in ToSet(t)
        BY <1>1, <1>3, <2>1
    <2> QED BY <2>2, <2>3
<1> QED BY <1>5, <1>6, <1>7

\* A single frame.
LEMMA ClientOrderAppend ==
    ASSUME NEW s \in Seq(ClientFrames), NEW f \in ClientFrames, ClientOrder(s),
           \A g \in ToSet(s) : g.id = f.id => Follows(g, f)
    PROVE  ClientOrder(Append(s, f))
<1>1. /\ Len(Append(s, f)) = Len(s) + 1 /\ Len(s) \in Nat /\ Append(s, f)[Len(s) + 1] = f
      /\ \A i \in 1..Len(s) : Append(s, f)[i] = s[i] /\ s[i] \in ToSet(s)
    BY AppendFacts, SetFacts
<1>2. \A i, j \in 1..Len(s) : i < j /\ s[i].id = s[j].id => Follows(s[i], s[j])
    BY DEF ClientOrder, Follows
<1> DEFINE t == Append(s, f)
<1> HIDE DEF t
<1> SUFFICES ASSUME NEW i \in 1..Len(t), NEW j \in 1..Len(t), i < j, t[i].id = t[j].id
             PROVE  Follows(t[i], t[j])
    BY DEF ClientOrder, Follows, t
<1>3. i \in 1..Len(s)
    BY <1>1 DEF t
<1>4. CASE j \in 1..Len(s)
    BY <1>1, <1>2, <1>3, <1>4 DEF t
<1>5. CASE j \notin 1..Len(s)
    BY <1>1, <1>3, <1>5 DEF t
<1> QED BY <1>4, <1>5

(***************************************************************************)
(* The tables of the host.                                                  *)
(***************************************************************************)
\* The part of TypeOK that is about the host.
Tables(h) ==
    /\ h \in Hosts /\ IsInjective(h.order) /\ ToSet(h.order) = h.streams
    /\ h.streams \subseteq h.contexts /\ h.upload = h.active
    /\ Len(h.recent) <= RECENT_DERIVATIVES

\* The fields of the host's tables.
LEMMA HostFields ==
    ASSUME NEW h \in Hosts
    PROVE  /\ h.last \in 0..MaxCalls /\ h.active \in 0..MaxCalls /\ h.upload \in 0..MaxCalls
           /\ h.contexts \subseteq Id /\ h.jobs \subseteq Id /\ h.streams \subseteq Id
           /\ h.order \in Seq(Id) /\ h.sent \in [Id -> 0..Chunks] /\ h.recent \in Seq(Id)
           /\ h.forgotten \subseteq Id /\ h.mediaEpoch \in 0..MaxEpoch
BY DEF Hosts

\* The tables of a host that has just started, or has left.
LEMMA NoHostFacts == Tables(NoHost)
<1>1. <<>> \in Seq(Id) /\ Len(<<>>) = 0 /\ ToSet(<<>>) = {} /\ IsInjective(<<>>)
    BY EmptyFacts
<1>2. NoHost \in Hosts
    BY <1>1, BoundAssumption DEF NoHost, Hosts, NoId
<1> QED BY <1>1, <1>2, BoundAssumption DEF Tables, NoHost

\* A derivative that has ended is kept in mind, and the oldest one may go.
LEMMA RememberFacts ==
    ASSUME NEW r \in Seq(Id), Len(r) <= RECENT_DERIVATIVES, NEW id \in Id
    PROVE  /\ remember(r, id) \in Seq(Id) /\ Len(remember(r, id)) <= RECENT_DERIVATIVES
           /\ call[id].kind = "ensure" => id \in ToSet(remember(r, id))
<1>0. Len(r) \in Nat /\ RECENT_DERIVATIVES \in Nat \ {0}
    BY SetFacts, BoundAssumption
<1>1. CASE call[id].kind # "ensure"
    BY <1>1 DEF remember
<1>2. CASE call[id].kind = "ensure" /\ Len(r) = RECENT_DERIVATIVES
    <2>1. r # <<>>
        BY <1>0, <1>2, EmptyFacts
    <2>2. Tail(r) \in Seq(Id) /\ Len(Tail(r)) = Len(r) - 1
        BY <2>1, TailFacts
    <2> DEFINE t == Tail(r)
    <2>3. remember(r, id) = Append(t, id)
        BY <1>2 DEF remember
    <2> HIDE DEF t
    <2>4. t \in Seq(Id) /\ Len(t) = Len(r) - 1
        BY <2>2 DEF t
    <2>5. Append(t, id) \in Seq(Id) /\ Len(Append(t, id)) = Len(t) + 1 /\ id \in ToSet(Append(t, id))
        BY <2>4, AppendFacts
    <2> QED BY <1>0, <2>3, <2>4, <2>5
<1>3. CASE call[id].kind = "ensure" /\ Len(r) # RECENT_DERIVATIVES
    <2>1. remember(r, id) = Append(r, id)
        BY <1>3 DEF remember
    <2>2. Append(r, id) \in Seq(Id) /\ Len(Append(r, id)) = Len(r) + 1 /\ id \in ToSet(Append(r, id))
        BY AppendFacts
    <2> QED BY <1>0, <1>3, <2>1, <2>2
<1> QED BY <1>1, <1>2, <1>3

\* A request is over: it goes from the tables, and only from there.
LEMMA SettledFacts ==
    ASSUME NEW h, Tables(h), NEW id \in Id
    PROVE  LET g == Settled(h, id)
           IN /\ Tables(g) /\ g.last = h.last /\ g.upload = h.upload /\ g.jobs = h.jobs
              /\ g.mediaEpoch = h.mediaEpoch
              /\ g.contexts = h.contexts \ {id} /\ g.streams = h.streams \ {id}
              /\ \A i \in Id : g.sent[i] = IF i = id THEN 0 ELSE h.sent[i]
              /\ ToSet(h.recent) \cup h.forgotten \subseteq ToSet(g.recent) \cup g.forgotten
              /\ call[id].kind = "ensure" => id \in ToSet(g.recent)
<1> DEFINE r == remember(h.recent, id)
           o == RemoveFirst(h.order, id)
           F == Forgets(h, id)
           g == Settled(h, id)
<1>0. h \in Hosts
    BY DEF Tables
<1>1. /\ h.contexts \subseteq Id /\ h.streams \subseteq Id /\ h.order \in Seq(Id)
      /\ h.sent \in [Id -> 0..Chunks] /\ h.recent \in Seq(Id) /\ h.forgotten \subseteq Id
    BY <1>0, HostFields
<1>2. r \in Seq(Id) /\ Len(r) <= RECENT_DERIVATIVES /\ (call[id].kind = "ensure" => id \in ToSet(r))
    BY <1>1, RememberFacts DEF Tables
<1>3. o \in Seq(Id) /\ IsInjective(o) /\ ToSet(o) = ToSet(h.order) \ {id}
    BY <1>1, RemoveFirstFacts DEF Tables
<1>4. ToSet(h.recent) \subseteq Id
    BY <1>1, SetFacts
<1>5. F \subseteq Id /\ ToSet(h.recent) \cup h.forgotten \subseteq ToSet(r) \cup F
    BY <1>1, <1>4 DEF Forgets
<1>6. g = [h EXCEPT !.contexts = @ \ {id}, !.streams = @ \ {id}, !.order = o,
                    !.sent[id] = 0, !.recent = r, !.forgotten = F]
    BY DEF Settled
<1> HIDE DEF r, o, F
<1>7. /\ g.last = h.last /\ g.upload = h.upload /\ g.active = h.active /\ g.jobs = h.jobs
      /\ g.mediaEpoch = h.mediaEpoch /\ g.contexts = h.contexts \ {id}
      /\ g.streams = h.streams \ {id} /\ g.order = o /\ g.recent = r /\ g.forgotten = F
      /\ g.sent = [h.sent EXCEPT ![id] = 0]
    BY <1>0, <1>6 DEF Hosts
<1>8. g \in Hosts
    <2>1. [h.sent EXCEPT ![id] = 0] \in [Id -> 0..Chunks]
        BY <1>1, BoundAssumption
    <2> HIDE DEF g
    <2> QED BY <1>0, <1>1, <1>2, <1>3, <1>5, <1>6, <2>1 DEF Hosts
<1> HIDE DEF g
<1>9. Tables(g)
    BY <1>2, <1>3, <1>7, <1>8 DEF Tables
<1> QED BY <1>1, <1>2, <1>5, <1>7, <1>9 DEF g

(***************************************************************************)
(* Steps of the client.                                                     *)
(***************************************************************************)
\* The types of the parts.
LEMMA CallFields ==
    ASSUME TypeOK, NEW id \in Id
    PROVE  /\ call[id] \in Calls /\ call[id].kind \in AllKinds /\ call[id].epoch \in 0..MaxEpoch
           /\ call[id].sent \in 0..Chunks
           /\ call[id].state \in {"free", "sending", "pending", "stream", "over", "left"}
           /\ call[id].reply \in {"none", "ok", "error", "stream"}
           /\ reader[id] \in Readings /\ reader[id].buf \in Seq(ClientFrames)
           /\ reader[id].got \in Seq(0..Chunks)
           /\ reader[id].state \in {"none", "open", "eof", "failed", "gone"}
BY DEF TypeOK, Calls, Readings

\* Ids and what is on its way.
LEMMA FrameFields ==
    ASSUME TypeOK
    PROVE  /\ \A f \in ToSet(toHost) : f \in HostFrames
           /\ \A f \in ToSet(toClient) : f \in ClientFrames
           /\ \A f \in HostFrames \cup ClientFrames : f.id \in Id /\ f.n \in 0..Chunks
           /\ \A f \in HostFrames : f.type \in {"request", "chunk", "final", "failed", "cancelled"}
           /\ \A f \in ClientFrames : f.type \in {"ok", "error", "meta", "chunk", "final", "failed"}
           /\ Tables(host) /\ host.last \in 0..MaxCalls /\ nextId \in 1..(MaxCalls + 1)
           /\ host.sent \in [Id -> 0..Chunks] /\ MaxCalls \in Nat /\ Chunks \in Nat
           /\ host.contexts \subseteq Id /\ host.jobs \subseteq Id /\ host.upload \in 0..MaxCalls
<1>1. ToSet(toHost) \subseteq HostFrames /\ ToSet(toClient) \subseteq ClientFrames
    BY SetFacts DEF TypeOK
<1>2. host \in Hosts
    BY DEF TypeOK
<1> QED BY <1>1, <1>2, HostFields, BoundAssumption DEF TypeOK, Tables, HostFrames, ClientFrames

\* A frame has its fields.
LEMMA MsgFields ==
    ASSUME NEW t, NEW id, NEW n
    PROVE  Msg(t, id, n).type = t /\ Msg(t, id, n).id = id /\ Msg(t, id, n).n = n
BY DEF Msg

\* How the state of a call may change once it was sent.
Moves(s, t) ==
    \/ t = s
    \/ s = "sending" /\ t \in {"pending", "left", "over"}
    \/ s = "pending" /\ t \in {"stream", "left", "over"}
    \/ s = "stream" /\ t \in {"left", "over"}

\* A step of the client that sends no request and stays in the loop.
ClientStep ==
    /\ UNCHANGED <<nextId, refused, host, end>>
    /\ \A id \in Id : /\ call'[id].kind = call[id].kind
                      /\ Moves(call[id].state, call'[id].state)

\* Nothing changes for the host.
LEMMA StepHost ==
    ASSUME Inv, ClientStep
    PROVE  HostOK'
<1>1. host' = host /\ nextId' = nextId /\ \A id \in Id : call'[id].kind = call[id].kind
    BY DEF ClientStep
<1>2. host.contexts \cup host.jobs \cup host.streams \subseteq Id
    BY HostFields, FrameFields DEF Inv, TypeOK
<1>3. host.upload # NoId => host.upload \in Id
    BY FrameFields DEF Inv, Id, NoId
<1> QED BY <1>1, <1>2, <1>3 DEF Inv, HostOK

\* Nothing is sent.
LEMMA StepSilent ==
    ASSUME Inv, ClientStep, toHost' = toHost
    PROVE  ToHostOK' /\ KnownOK'
<1>1. host' = host /\ nextId' = nextId /\ refused' = refused /\ (HostUp' <=> HostUp)
    BY DEF ClientStep, HostUp
<1>2. \A id \in Id : call'[id].kind = call[id].kind /\ Moves(call[id].state, call'[id].state)
    BY DEF ClientStep
<1>3. \A f \in ToSet(toHost) : f.id \in Id
    BY FrameFields DEF Inv
<1>4. 1..host.last \subseteq Id
    BY FrameFields DEF Inv, Id
<1>5. ToHostOK'
    BY <1>1, <1>2, <1>3 DEF Inv, ToHostOK, Moves
<1>6. KnownOK'
    <2>1. \A id : Told(id)' <=> Told(id)
        BY DEF Told
    <2> SUFFICES ASSUME NEW id \in 1..host.last
                 PROVE  /\ call'[id].kind = "upload" /\ (call'[id].state = "sending" \/ Told(id)') =>
                              id = host.upload \/ id \in refused
                        /\ call'[id].kind = "ensure" /\ (call'[id].state \in {"pending", "stream"} \/ Told(id)') =>
                              id \in host.contexts \cup ToSet(host.recent) \cup host.forgotten \cup refused
        BY <1>1 DEF KnownOK
    <2>2. id \in Id
        BY <1>4
    <2>3. call'[id].kind = call[id].kind /\ Moves(call[id].state, call'[id].state)
        BY <1>2, <2>2
    <2>4. call[id].kind = "ensure" => call[id].state # "sending"
        BY <2>2 DEF Inv, ClientOK
    <2> QED BY <2>1, <2>3, <2>4 DEF Inv, KnownOK, Moves
<1> QED BY <1>5, <1>6

\* A frame that is no request is sent.
LEMMA StepSends ==
    ASSUME Inv, ClientStep, HostUp, NEW f \in HostFrames, toHost' = Append(toHost, f),
           f.type # "request", f.id < nextId,
           f.type \in {"chunk", "final", "failed"} =>
              call[f.id].kind = "upload" /\ call[f.id].state = "sending",
           f.type \in {"final", "failed"} => call'[f.id].state # "sending",
           f.type = "cancelled" =>
              /\ f.n = 0 /\ call[f.id].kind \in {"range", "ensure"}
              /\ call[f.id].state \in {"pending", "stream"} /\ call'[f.id].state = "left"
    PROVE  ToHostOK' /\ KnownOK'
<1>1. host' = host /\ nextId' = nextId /\ refused' = refused /\ (HostUp' <=> HostUp)
    BY DEF ClientStep, HostUp
<1>2. \A id \in Id : call'[id].kind = call[id].kind /\ Moves(call[id].state, call'[id].state)
    BY DEF ClientStep
<1>3. f.id \in Id /\ f.type \in {"chunk", "final", "failed", "cancelled"}
      /\ \A g \in ToSet(toHost) : g.id \in Id
         /\ g.type \in {"request", "chunk", "final", "failed", "cancelled"}
    BY FrameFields DEF Inv
<1>4. 1..host.last \subseteq Id
    BY FrameFields DEF Inv, Id
<1>5. toHost \in Seq(HostFrames) /\ ToSet(toHost') = ToSet(toHost) \cup {f}
    BY AppendFacts DEF Inv, TypeOK
<1>6. ToHostOK'
    <2>1. \A g \in ToSet(toHost) : g.id = f.id => g.type \in {"request", "chunk"}
        BY <1>3 DEF Inv, ToHostOK
    <2>2. HostOrder(toHost')
        BY <1>5, <2>1, HostOrderAppend DEF Inv, ToHostOK
    <2>3. ASSUME NEW g \in ToSet(toHost')
          PROVE  /\ g.id < nextId
                 /\ g.type = "request" => g.id > host.last
                 /\ g.type \in {"chunk", "final", "failed"} => call'[g.id].kind = "upload"
                 /\ g.type \in {"final", "failed"} => call'[g.id].state # "sending"
                 /\ g.type = "cancelled" => /\ g.n = 0 /\ call'[g.id].kind \in {"range", "ensure"}
                                            /\ call'[g.id].state = "left"
        <3>1. CASE g = f
            BY <1>2, <1>3, <3>1
        <3>2. CASE g \in ToSet(toHost)
            BY <1>2, <1>3, <3>2 DEF Inv, ToHostOK, Moves
        <3> QED BY <1>5, <3>1, <3>2
    <2>4. \A id \in Id : host.last < id /\ id < nextId => Msg("request", id, 0) \in ToSet(toHost')
        BY <1>5 DEF Inv, ToHostOK
    <2> QED BY <1>1, <2>2, <2>3, <2>4 DEF ToHostOK
<1>7. KnownOK'
    <2>1. \A id : Told(id)' => Told(id) \/ id = f.id
        BY <1>5 DEF Told
    <2> SUFFICES ASSUME NEW id \in 1..host.last
                 PROVE  /\ call'[id].kind = "upload" /\ (call'[id].state = "sending" \/ Told(id)') =>
                              id = host.upload \/ id \in refused
                        /\ call'[id].kind = "ensure" /\ (call'[id].state \in {"pending", "stream"} \/ Told(id)') =>
                              id \in host.contexts \cup ToSet(host.recent) \cup host.forgotten \cup refused
        BY <1>1 DEF KnownOK
    <2>2. id \in Id
        BY <1>4
    <2>3. call'[id].kind = call[id].kind /\ Moves(call[id].state, call'[id].state)
        BY <1>2, <2>2
    <2>4. call'[id].kind = "upload" /\ (call'[id].state = "sending" \/ Told(id)') =>
              call[id].state = "sending" \/ Told(id)
        BY <1>3, <2>1, <2>3 DEF Moves
    <2>5. call'[id].kind = "ensure" /\ (call'[id].state \in {"pending", "stream"} \/ Told(id)') =>
              call[id].state \in {"pending", "stream"} \/ Told(id)
        <3>1. call[id].kind = "ensure" => call[id].state # "sending"
            BY <2>2 DEF Inv, ClientOK
        <3> QED BY <1>3, <2>1, <2>3, <3>1 DEF Moves
    <2> QED BY <2>3, <2>4, <2>5 DEF Inv, KnownOK
<1> QED BY <1>6, <1>7

\* The client hears nothing: a call goes on waiting, or is given up.
LEMMA StepKeeps ==
    ASSUME Inv, ClientStep, toClient' = toClient, reader' = reader, nextId' + deferred' <= asked' + 1,
           \A id \in Id : call'[id].state # call[id].state => call'[id].state \in {"pending", "left"}
    PROVE  ClientOK' /\ ToClientOK' /\ LiveOK' /\ ChunksOK' /\ ReadersOK'
<1>1. host' = host /\ nextId' = nextId /\ refused' = refused /\ (HostUp' <=> HostUp)
    BY DEF ClientStep, HostUp
<1>2. \A id \in Id : /\ call'[id].kind = call[id].kind
                     /\ \/ call'[id].state = call[id].state
                        \/ call[id].state = "sending" /\ call'[id].state = "pending"
                        \/ call[id].state \in {"sending", "pending", "stream"} /\ call'[id].state = "left"
    BY DEF ClientStep, Moves
<1>3. \A f \in ToSet(toClient) : f.id \in Id
    BY FrameFields DEF Inv
<1>4. /\ \A id : Live(id)' <=> Live(id)
      /\ \A id : Heard(id)' <=> Heard(id)
      /\ \A id : Rcvd(id)' = Rcvd(id)
      /\ \A id, n : UnderWay(id, n)' <=> UnderWay(id, n)
    BY <1>1 DEF Live, Heard, Rcvd, UnderWay
<1>5. ClientOK'
    BY <1>1, <1>2 DEF Inv, ClientOK
<1>6. ToClientOK'
    BY <1>1, <1>2, <1>3, <1>4 DEF Inv, ToClientOK
<1>7. LiveOK'
    BY <1>1, <1>2, <1>4 DEF Inv, LiveOK
<1>8. ChunksOK'
    <2>1. ASSUME NEW id \in Id, Following(id)', ~Following(id)
          PROVE  call[id].state = "sending" /\ call[id].kind = "upload" /\ reader[id] = NoReader
        BY <1>2, <2>1 DEF Following, Inv, ClientOK
    <2>2. ASSUME NEW id \in Id, call[id].state = "sending", call[id].kind = "upload"
          PROVE  /\ \A f \in ToSet(toClient) : f.id = id => f.type \notin {"chunk", "final"}
                 /\ id \notin host.streams
        <3>1. Msg("meta", id, 0) \notin ToSet(toClient)
            BY <2>2, MsgFields DEF Inv, ToClientOK
        <3> QED BY <2>2, <3>1 DEF Inv, ToClientOK, HostOK
    <2>3. ASSUME NEW id \in Id, reader[id] = NoReader PROVE Rcvd(id) = 0
        BY <2>3, EmptyFacts DEF Rcvd, NoReader
    <2>4. Chunks \in Nat
        BY BoundAssumption
    <2>5. ASSUME NEW f \in ToSet(toClient)
          PROVE  /\ f.type = "chunk" => f.n >= 1
                 /\ f.type = "chunk" /\ f.id \in host.streams => f.n <= host.sent[f.id]
                 /\ Following(f.id)' => /\ f.type = "chunk" => f.n > Rcvd(f.id) /\ UnderWay(f.id, f.n)
                                        /\ f.type = "final" => UnderWay(f.id, Chunks)
        BY <1>3, <2>1, <2>2 DEF Inv, ChunksOK
    <2>6. ASSUME NEW id \in Id, Following(id)'
          PROVE  /\ Rcvd(id) <= Chunks
                 /\ id \in host.streams => Rcvd(id) <= host.sent[id] /\ UnderWay(id, host.sent[id])
        BY <2>1, <2>2, <2>3, <2>4, <2>6 DEF Inv, ChunksOK
    <2> QED BY <1>1, <1>4, <2>5, <2>6 DEF ChunksOK
<1>9. ReadersOK'
    BY <1>2, EmptyFacts DEF Inv, ReadersOK, ClientOK, NoReader
<1> QED BY <1>5, <1>6, <1>7, <1>8, <1>9

\* The client handles a frame f.
ClientHears(f) ==
    /\ toClient # <<>> /\ f = Head(toClient) /\ toClient' = Tail(toClient)
    /\ \A id \in Id : id # f.id => call'[id] = call[id] /\ reader'[id] = reader[id]
    /\ \/ call'[f.id].state = "left"
       \/ call'[f.id].state = "over" /\ f.type \notin {"meta", "chunk"}
       \/ call'[f.id].state = "stream" /\ call[f.id].state = "stream" /\ f.type = "chunk"
       \/ call'[f.id].state = "stream" /\ call[f.id].state = "pending" /\ f.type = "meta"

\* What is left when the first frame was taken.
LEMMA HearsFacts ==
    ASSUME TypeOK, ToClientOK, NEW f, ClientHears(f)
    PROVE  /\ f \in ClientFrames /\ f.id \in Id /\ f.n \in 0..Chunks
           /\ f \in ToSet(toClient) /\ ToSet(toClient) = {f} \cup ToSet(toClient')
           /\ toClient' \in Seq(ClientFrames) /\ ClientOrder(toClient')
           /\ \A g \in ToSet(toClient') : g \in ClientFrames /\ g.id \in Id
           /\ \A g \in ToSet(toClient') : g.id = f.id => Follows(f, g)
<1>1. toClient \in Seq(ClientFrames) /\ toClient # <<>> /\ f = Head(toClient) /\ toClient' = Tail(toClient)
    BY DEF TypeOK, ClientHears
<1>2. f \in ClientFrames /\ toClient' \in Seq(ClientFrames) /\ ToSet(toClient) = {f} \cup ToSet(toClient')
    BY <1>1, TailFacts
<1>3. /\ ClientOrder(toClient')
      /\ \A g \in ToSet(toClient') : g.id = f.id => Follows(f, g)
    BY <1>1, ClientOrderTail DEF ToClientOK
<1> QED BY <1>2, <1>3, FrameFields

\* What the client knows of its calls stays in order.
LEMMA StepHears ==
    ASSUME Inv, ClientStep, NEW f, ClientHears(f), nextId' + deferred' <= asked' + 1
    PROVE  ClientOK' /\ ToClientOK' /\ LiveOK'
<1>1. host' = host /\ nextId' = nextId /\ refused' = refused /\ (HostUp' <=> HostUp)
    BY DEF ClientStep, HostUp
<1>2. \A id \in Id : /\ call'[id].kind = call[id].kind /\ Moves(call[id].state, call'[id].state)
                     /\ id # f.id => call'[id].state = call[id].state /\ reader'[id] = reader[id]
    BY DEF ClientStep, ClientHears
<1>3. /\ f \in ToSet(toClient) /\ ToSet(toClient) = {f} \cup ToSet(toClient') /\ f.id \in Id
      /\ f \in ClientFrames
    BY HearsFacts DEF Inv
<1>4. \A g \in ToSet(toClient') : g.id \in Id /\ (g.id = f.id => Follows(f, g))
    BY HearsFacts DEF Inv
<1>5. ClientOrder(toClient')
    BY HearsFacts DEF Inv
<1>6. \/ call'[f.id].state = "left"
      \/ call'[f.id].state = "over" /\ f.type \notin {"meta", "chunk"}
      \/ call'[f.id].state = "stream" /\ call[f.id].state = "stream" /\ f.type = "chunk"
      \/ call'[f.id].state = "stream" /\ call[f.id].state = "pending" /\ f.type = "meta"
    BY DEF ClientHears
<1>7. f.type \in {"ok", "error", "meta", "chunk", "final", "failed"}
    BY <1>3, FrameFields DEF Inv
<1>8. /\ \A id : Live(id)' <=> Live(id)
      /\ \A id : Heard(id)' => Heard(id)
    BY <1>1, <1>3 DEF Live, Heard
<1>9. call[f.id].state # "free" /\ f.id < nextId
    <2>1. nextId \in Nat /\ f.id \in Nat
        BY <1>3, FrameFields DEF Inv, Id
    <2> QED BY <1>3, <2>1 DEF Inv, ToClientOK, ClientOK
<1>10. ClientOK'
    <2>1. ASSUME NEW id \in Id
          PROVE  /\ call'[id].state = "free" <=> id >= nextId
                 /\ call'[id].state = "sending" => call'[id].kind = "upload"
                 /\ call'[id].state = "stream" => call'[id].kind \in {"range", "ensure"}
                 /\ call'[id].state \in {"free", "sending", "pending"} => reader'[id] = NoReader
        <3>1. CASE id = f.id
            <4>1. f.type = "meta" => call[id].kind \in {"range", "ensure"}
                BY <1>3, <3>1 DEF Inv, ToClientOK
            <4>2. call[id].state = "stream" => call[id].kind \in {"range", "ensure"}
                BY DEF Inv, ClientOK
            <4>3. call[id].state = "free" <=> id >= nextId
                BY DEF Inv, ClientOK
            <4> QED BY <1>2, <1>6, <1>9, <3>1, <4>1, <4>2, <4>3
        <3>2. CASE id # f.id
            BY <1>2, <3>2 DEF Inv, ClientOK
        <3> QED BY <3>1, <3>2
    <2> QED BY <1>1, <2>1 DEF ClientOK
<1>11. ToClientOK'
    <2>1. ASSUME NEW g \in ToSet(toClient')
          PROVE  /\ g.id < nextId /\ (HostUp => g.id <= host.last)
                 /\ call'[g.id].state # "over"
                 /\ g.type = "meta" => g.n = 0 /\ call'[g.id].kind \in {"range", "ensure"}
                 /\ g.type \in {"ok", "error", "final", "failed"} => ~Live(g.id)
                 /\ g.type \in {"chunk", "final", "failed"} =>
                       \/ call'[g.id].state \in {"stream", "left"}
                       \/ Msg("meta", g.id, 0) \in ToSet(toClient')
                 /\ call'[g.id].state = "stream" => g.type \notin {"ok", "error", "meta"}
        <3>0. g \in ToSet(toClient)
            BY <1>3
        <3>1. CASE g.id = f.id
            <4>1. Follows(f, g)
                BY <1>4, <3>1
            <4> QED BY <1>2, <1>3, <1>6, <3>0, <3>1, <4>1 DEF Inv, ToClientOK, Follows
        <3>2. CASE g.id # f.id
            <4>1. Msg("meta", g.id, 0) # f
                BY <3>2, MsgFields
            <4>2. g.id \in Id
                BY <1>4
            <4> QED BY <1>2, <1>3, <3>0, <3>2, <4>1, <4>2 DEF Inv, ToClientOK
        <3> QED BY <3>1, <3>2
    <2> QED BY <1>1, <1>5, <1>8, <2>1 DEF ToClientOK
<1>12. LiveOK'
    <2>1. ASSUME NEW id \in Id
          PROVE  /\ call'[id].state = "over" => ~Live(id)
                 /\ id \in (host.jobs \cap host.contexts) \cup {host.upload} =>
                       ~Heard(id)' /\ call'[id].state # "stream"
                 /\ HostUp /\ call'[id].state = "stream" => id <= host.last
                 /\ id \in host.streams => \/ call'[id].state \in {"stream", "left"}
                                           \/ Msg("meta", id, 0) \in ToSet(toClient')
        <3>1. CASE id = f.id
            <4>1. Heard(id)
                BY <1>3, <3>1 DEF Heard
            <4>2. call'[id].state = "over" => ~Live(id)
                BY <1>3, <1>6, <1>7, <3>1 DEF Inv, ToClientOK
            <4>3. id \notin (host.jobs \cap host.contexts) \cup {host.upload}
                BY <4>1 DEF Inv, LiveOK
            <4>4. HostUp => id <= host.last
                BY <1>3, <3>1 DEF Inv, ToClientOK
            <4>5. id \in host.streams => Live(id)
                <5>1. id \in host.streams => HostUp
                    BY DEF Inv, EndsOK, NoHost
                <5> QED BY <5>1 DEF Inv, TypeOK, Live
            <4> QED BY <1>6, <3>1, <4>2, <4>3, <4>4, <4>5
        <3>2. CASE id # f.id
            <4>1. Msg("meta", id, 0) # f
                BY <3>2, MsgFields
            <4> QED BY <1>2, <1>3, <1>8, <3>2, <4>1 DEF Inv, LiveOK
        <3> QED BY <3>1, <3>2
    <2> QED BY <1>1, <1>8, <2>1 DEF LiveOK
<1> QED BY <1>10, <1>11, <1>12

\* The streams a frame is not about, and the chunks that are still on their way.
LEMMA HearsOthers ==
    ASSUME TypeOK, ToClientOK, NEW f, ClientHears(f)
    PROVE  /\ \A id \in Id : id # f.id =>
                 /\ Following(id)' <=> Following(id)
                 /\ Rcvd(id)' = Rcvd(id)
                 /\ \A n : UnderWay(id, n) => UnderWay(id, n)'
           /\ \A m : f # Chunk(f.id, m) /\ Chunk(f.id, m) \in ToSet(toClient) =>
                        Chunk(f.id, m) \in ToSet(toClient')
<1>1. \A id \in Id : id # f.id => call'[id] = call[id] /\ reader'[id] = reader[id]
    BY DEF ClientHears
<1>2. ToSet(toClient) = {f} \cup ToSet(toClient')
    BY HearsFacts
<1>3. ASSUME NEW id \in Id, id # f.id
      PROVE  /\ Following(id)' <=> Following(id)
             /\ Rcvd(id)' = Rcvd(id)
             /\ \A m : Chunk(id, m) \in ToSet(toClient) => Chunk(id, m) \in ToSet(toClient')
    <2>1. \A m : Chunk(id, m) # f
        BY <1>3, MsgFields DEF Chunk
    <2> QED BY <1>1, <1>2, <1>3, <2>1 DEF Following, Rcvd
<1>4. ASSUME NEW id \in Id, id # f.id, NEW n, UnderWay(id, n) PROVE UnderWay(id, n)'
    BY <1>3, <1>4 DEF UnderWay
<1> QED BY <1>2, <1>3, <1>4

\* The frame ends what the client follows of its stream.
LEMMA HearsEnd ==
    ASSUME Inv, ClientStep, NEW f, ClientHears(f), ~Following(f.id)'
    PROVE  ChunksOK'
<1>1. host' = host
    BY DEF ClientStep
<1>2. /\ ToSet(toClient) = {f} \cup ToSet(toClient')
      /\ \A g \in ToSet(toClient') : g.id \in Id
    BY HearsFacts DEF Inv
<1>3. \A id \in Id : id # f.id => /\ Following(id)' <=> Following(id)
                                  /\ Rcvd(id)' = Rcvd(id)
                                  /\ \A n : UnderWay(id, n) => UnderWay(id, n)'
    BY HearsOthers DEF Inv
<1>4. ASSUME NEW g \in ToSet(toClient')
      PROVE  /\ g.type = "chunk" => g.n >= 1
             /\ g.type = "chunk" /\ g.id \in host.streams => g.n <= host.sent[g.id]
             /\ Following(g.id)' => /\ g.type = "chunk" => g.n > Rcvd(g.id)' /\ UnderWay(g.id, g.n)'
                                    /\ g.type = "final" => UnderWay(g.id, Chunks)'
    BY <1>2, <1>3 DEF Inv, ChunksOK
<1>5. ASSUME NEW id \in Id, Following(id)'
      PROVE  /\ Rcvd(id)' <= Chunks
             /\ id \in host.streams => Rcvd(id)' <= host.sent[id] /\ UnderWay(id, host.sent[id])'
    BY <1>1, <1>3, <1>5 DEF Inv, ChunksOK
<1> QED BY <1>1, <1>4, <1>5 DEF ChunksOK, UnderWay

\* A stream begins.
LEMMA HearsMeta ==
    ASSUME Inv, ClientStep, NEW f, ClientHears(f), f.type = "meta", call[f.id].state = "pending",
           reader' = [reader EXCEPT ![f.id].state = "open"]
    PROVE  ChunksOK' /\ ReadersOK'
<1>0. host' = host
    BY DEF ClientStep
<1>1. /\ ToSet(toClient) = {f} \cup ToSet(toClient') /\ f \in ToSet(toClient) /\ f.id \in Id
      /\ \A g \in ToSet(toClient') : g.id \in Id
    BY HearsFacts DEF Inv
<1>2. \A id \in Id : id # f.id => /\ Following(id)' <=> Following(id)
                                  /\ Rcvd(id)' = Rcvd(id)
                                  /\ \A n : UnderWay(id, n) => UnderWay(id, n)'
    BY HearsOthers DEF Inv
<1>3. reader[f.id] = NoReader /\ reader \in [Id -> Readings]
    BY <1>1 DEF Inv, ClientOK, TypeOK
<1>4. reader'[f.id].state = "open" /\ reader'[f.id].got = <<>> /\ reader'[f.id].buf = <<>>
    BY <1>1, <1>3 DEF NoReader
<1>5. Following(f.id) /\ Rcvd(f.id)' = Rcvd(f.id)
    <2>1. reader[f.id].state = "none" /\ reader[f.id].got = <<>> /\ reader[f.id].buf = <<>>
        BY <1>3 DEF NoReader
    <2> QED BY <1>4, <2>1 DEF Following, Rcvd
<1>6. ASSUME NEW n, UnderWay(f.id, n) PROVE UnderWay(f.id, n)'
    <2>1. \A m : f # Chunk(f.id, m)
        BY MsgFields DEF Chunk
    <2>2. \A m : Chunk(f.id, m) \in ToSet(toClient) => Chunk(f.id, m) \in ToSet(toClient')
        BY <2>1, HearsOthers DEF Inv
    <2> QED BY <1>5, <1>6, <2>2 DEF UnderWay
<1>7. ASSUME NEW g \in ToSet(toClient')
      PROVE  /\ g.type = "chunk" => g.n >= 1
             /\ g.type = "chunk" /\ g.id \in host.streams => g.n <= host.sent[g.id]
             /\ Following(g.id)' => /\ g.type = "chunk" => g.n > Rcvd(g.id)' /\ UnderWay(g.id, g.n)'
                                    /\ g.type = "final" => UnderWay(g.id, Chunks)'
    BY <1>1, <1>2, <1>5, <1>6 DEF Inv, ChunksOK
<1>8. ASSUME NEW id \in Id, Following(id)'
      PROVE  /\ Rcvd(id)' <= Chunks
             /\ id \in host.streams => Rcvd(id)' <= host.sent[id] /\ UnderWay(id, host.sent[id])'
    BY <1>0, <1>2, <1>5, <1>6, <1>8 DEF Inv, ChunksOK
<1>9. ChunksOK'
    BY <1>0, <1>7, <1>8 DEF ChunksOK, UnderWay
<1>10. ReadersOK'
    <2>1. ASSUME NEW id \in Id, id # f.id
          PROVE  call'[id].state = call[id].state /\ reader'[id] = reader[id]
        BY <2>1 DEF ClientHears
    <2>2. call'[f.id].state \in {"stream", "left"}
        BY DEF ClientHears
    <2>3. ReaderOK(reader'[f.id]) /\ Len(reader'[f.id].buf) = 0
        BY <1>4, EmptyFacts DEF ReaderOK
    <2> QED BY <1>4, <2>1, <2>2, <2>3 DEF Inv, ReadersOK
<1> QED BY <1>9, <1>10

\* Counting one more.
LEMMA SumFacts ==
    ASSUME NEW a \in Nat, NEW b \in Nat
    PROVE  a + b \in Nat /\ a + (b + 1) = (a + b) + 1
OBVIOUS

\* The number of chunks a reader was given.
LEMMA RcvdFacts ==
    ASSUME TypeOK, NEW id \in Id
    PROVE  Rcvd(id) \in Nat /\ Len(reader[id].got) \in Nat /\ Len(reader[id].buf) \in Nat
<1>1. Len(reader[id].got) \in Nat /\ Len(reader[id].buf) \in Nat
    BY CallFields, SetFacts
<1> QED BY <1>1, SumFacts DEF Rcvd

\* What is put into the buffer of a reader.
LEMMA PutFacts ==
    ASSUME TypeOK, NEW f \in ClientFrames, Put(f)
    PROVE  /\ f.id \in Id /\ reader'[f.id].state = reader[f.id].state
           /\ reader'[f.id].got = reader[f.id].got
           /\ reader'[f.id].buf = Append(reader[f.id].buf, f)
           /\ Len(reader'[f.id].buf) = Len(reader[f.id].buf) + 1
           /\ Len(reader[f.id].buf) \in Nat /\ Len(reader[f.id].got) \in Nat
           /\ \A i \in 1..Len(reader[f.id].buf) : reader'[f.id].buf[i] = reader[f.id].buf[i]
           /\ reader'[f.id].buf[Len(reader[f.id].buf) + 1] = f
           /\ \A id \in Id : id # f.id => reader'[id] = reader[id]
           /\ reader' \in [Id -> Readings] /\ Rcvd(f.id)' = Rcvd(f.id) + 1
<1>1. f.id \in Id
    BY FrameFields
<1>2. /\ reader \in [Id -> Readings] /\ reader[f.id] \in Readings
      /\ reader[f.id].buf \in Seq(ClientFrames) /\ reader[f.id].got \in Seq(0..Chunks)
    BY <1>1, CallFields DEF TypeOK
<1> DEFINE b == reader[f.id].buf
           c == Append(b, f)
<1>3. /\ c \in Seq(ClientFrames) /\ c[Len(b) + 1] = f
      /\ \A i \in 1..Len(b) : c[i] = b[i]
    BY <1>2, AppendFacts
<1>4. Len(reader[f.id].got) \in Nat /\ Len(b) \in Nat /\ Len(c) = Len(b) + 1
    BY <1>2, AppendFacts, SetFacts
<1>5. reader' = [reader EXCEPT ![f.id].buf = c]
    BY DEF Put
<1> HIDE DEF c
<1>6. /\ reader'[f.id].buf = c /\ reader'[f.id].state = reader[f.id].state
      /\ reader'[f.id].got = reader[f.id].got
      /\ \A id \in Id : id # f.id => reader'[id] = reader[id]
    BY <1>1, <1>2, <1>5 DEF Readings
<1>7. reader' \in [Id -> Readings]
    BY <1>1, <1>2, <1>3, <1>5 DEF Readings
<1>8. Rcvd(f.id)' = Rcvd(f.id) + 1
    BY <1>4, <1>6, SumFacts DEF Rcvd
<1> QED BY <1>1, <1>3, <1>4, <1>6, <1>7, <1>8 DEF c

\* A chunk is passed on: it is the next one.
LEMMA HearsChunk ==
    ASSUME Inv, ClientStep, NEW f, ClientHears(f), f.type = "chunk", call[f.id].state = "stream",
           Put(f)
    PROVE  ChunksOK' /\ ReadersOK'
<1>0. host' = host
    BY DEF ClientStep
<1>1. /\ ToSet(toClient) = {f} \cup ToSet(toClient') /\ f \in ToSet(toClient)
      /\ f \in ClientFrames /\ f.id \in Id /\ f.n \in 0..Chunks
      /\ \A g \in ToSet(toClient') : g \in ClientFrames /\ g.id \in Id /\ (g.id = f.id => Follows(f, g))
    BY HearsFacts DEF Inv
<1>2. \A id \in Id : id # f.id => /\ Following(id)' <=> Following(id)
                                  /\ Rcvd(id)' = Rcvd(id)
                                  /\ \A n : UnderWay(id, n) => UnderWay(id, n)'
    BY HearsOthers DEF Inv
<1>3. /\ reader'[f.id].state = reader[f.id].state
      /\ reader'[f.id].got = reader[f.id].got
      /\ \A id \in Id : id # f.id => reader'[id] = reader[id]
      /\ Rcvd(f.id)' = Rcvd(f.id) + 1
    BY <1>1, PutFacts DEF Inv
<1>30. /\ Len(reader'[f.id].buf) = Len(reader[f.id].buf) + 1
       /\ Len(reader[f.id].buf) \in Nat /\ Len(reader[f.id].got) \in Nat
    BY <1>1, PutFacts DEF Inv
<1>31. /\ \A i \in 1..Len(reader[f.id].buf) : reader'[f.id].buf[i] = reader[f.id].buf[i]
       /\ reader'[f.id].buf[Len(reader[f.id].buf) + 1] = f
    BY <1>1, PutFacts DEF Inv
<1>4. Rcvd(f.id) \in Nat
    BY <1>1, RcvdFacts DEF Inv
<1>5. Following(f.id)' => Following(f.id)
    BY <1>3 DEF Following
<1>6. ASSUME Following(f.id) PROVE f.n = Rcvd(f.id) + 1
    <2>1. f.n > Rcvd(f.id) /\ UnderWay(f.id, f.n)
        BY <1>1, <1>6 DEF Inv, ChunksOK
    <2>2. Rcvd(f.id) + 1 \in (Rcvd(f.id) + 1)..f.n
        BY <1>1, <1>4, <2>1
    <2>3. Chunk(f.id, Rcvd(f.id) + 1) \in ToSet(toClient)
        BY <2>1, <2>2 DEF UnderWay
    <2> DEFINE c == Chunk(f.id, Rcvd(f.id) + 1)
    <2>4. c.type = "chunk" /\ c.id = f.id /\ c.n = Rcvd(f.id) + 1
        BY MsgFields DEF Chunk
    <2>5. c = f \/ c \in ToSet(toClient')
        BY <1>1, <2>3
    <2> HIDE DEF c
    <2>6. CASE c = f
        BY <2>4, <2>6
    <2>7. CASE c \in ToSet(toClient')
        <3>1. f.n < c.n
            BY <1>1, <2>4, <2>7 DEF Follows
        <3> QED BY <1>1, <1>4, <2>1, <2>4, <3>1
    <2> QED BY <2>5, <2>6, <2>7
<1>7. ASSUME NEW n \in 0..Chunks, UnderWay(f.id, n), Following(f.id) PROVE UnderWay(f.id, n)'
    <2> SUFFICES ASSUME NEW m \in (Rcvd(f.id)' + 1)..n PROVE Chunk(f.id, m) \in ToSet(toClient')
        BY DEF UnderWay
    <2>1. m \in (Rcvd(f.id) + 1)..n /\ m # f.n
        BY <1>3, <1>4, <1>6, <1>7
    <2>2. f # Chunk(f.id, m)
        BY <2>1, MsgFields DEF Chunk
    <2>3. Chunk(f.id, m) \in ToSet(toClient)
        BY <1>7, <2>1 DEF UnderWay
    <2> QED BY <2>2, <2>3, HearsOthers DEF Inv
<1>8. ASSUME NEW g \in ToSet(toClient')
      PROVE  /\ g.type = "chunk" => g.n >= 1
             /\ g.type = "chunk" /\ g.id \in host.streams => g.n <= host.sent[g.id]
             /\ Following(g.id)' => /\ g.type = "chunk" => g.n > Rcvd(g.id)' /\ UnderWay(g.id, g.n)'
                                    /\ g.type = "final" => UnderWay(g.id, Chunks)'
    <2>1. /\ g.type = "chunk" => g.n >= 1
          /\ g.type = "chunk" /\ g.id \in host.streams => g.n <= host.sent[g.id]
          /\ Following(g.id) => /\ g.type = "chunk" => g.n > Rcvd(g.id) /\ UnderWay(g.id, g.n)
                                /\ g.type = "final" => UnderWay(g.id, Chunks)
        BY <1>1 DEF Inv, ChunksOK
    <2>2. g.n \in 0..Chunks /\ Chunks \in 0..Chunks
        BY <1>1, FrameFields, BoundAssumption DEF Inv
    <2>3. CASE g.id = f.id
        <3>1. Following(f.id) /\ g.type = "chunk" => g.n > Rcvd(f.id)'
            BY <1>1, <1>3, <1>4, <1>6, <2>3 DEF Follows
        <3> QED BY <1>5, <1>7, <2>1, <2>2, <2>3, <3>1
    <2>4. CASE g.id # f.id
        BY <1>1, <1>2, <2>1, <2>4
    <2> QED BY <2>3, <2>4
<1>9. ASSUME NEW id \in Id, Following(id)'
      PROVE  /\ Rcvd(id)' <= Chunks
             /\ id \in host.streams => Rcvd(id)' <= host.sent[id] /\ UnderWay(id, host.sent[id])'
    <2>1. CASE id # f.id
        BY <1>0, <1>2, <1>9, <2>1 DEF Inv, ChunksOK
    <2>2. CASE id = f.id
        <3>1. f.n = Rcvd(id)' /\ Following(id)
            BY <1>3, <1>5, <1>6, <1>9, <2>2
        <3>2. f.id \in host.streams => f.n <= host.sent[f.id]
            BY <1>1 DEF Inv, ChunksOK
        <3>3. host.sent[id] \in 0..Chunks
            BY FrameFields DEF Inv
        <3>4. id \in host.streams => UnderWay(id, host.sent[id])
            BY <3>1 DEF Inv, ChunksOK
        <3> QED BY <1>0, <1>1, <1>7, <2>2, <3>1, <3>2, <3>3, <3>4
    <2> QED BY <2>1, <2>2
<1>10. ChunksOK'
    BY <1>0, <1>8, <1>9 DEF ChunksOK, UnderWay
<1>11. ReadersOK'
    <2>1. ASSUME NEW id \in Id, id # f.id
          PROVE  call'[id].state = call[id].state /\ reader'[id] = reader[id]
        BY <2>1 DEF ClientHears
    <2>2. call'[f.id].state \in {"stream", "left"}
        BY DEF ClientHears
    <2>3. ASSUME reader[f.id].state = "open"
          PROVE  /\ ReaderOK(reader'[f.id])
                 /\ \A i \in 1..Len(reader'[f.id].buf) : reader'[f.id].buf[i].type = "chunk"
        <3>1. /\ ReaderOK(reader[f.id])
              /\ \A i \in 1..Len(reader[f.id].buf) : reader[f.id].buf[i].type = "chunk"
            BY <1>1, <2>3 DEF Inv, ReadersOK
        <3>2. f.n = Len(reader[f.id].got) + (Len(reader[f.id].buf) + 1)
            <4>1. Following(f.id)
                BY <2>3 DEF Following
            <4> QED BY <1>6, <1>30, <4>1, SumFacts DEF Rcvd
        <3>3. ASSUME NEW i \in 1..Len(reader'[f.id].buf)
              PROVE  /\ reader'[f.id].buf[i].type = "chunk"
                     /\ reader'[f.id].buf[i].n = Len(reader[f.id].got) + i
            <4>1. CASE i = Len(reader[f.id].buf) + 1
                BY <1>31, <3>2, <4>1
            <4>2. CASE i # Len(reader[f.id].buf) + 1
                <5>1. i \in 1..Len(reader[f.id].buf)
                    BY <1>30, <4>2
                <5> QED BY <1>31, <3>1, <5>1 DEF ReaderOK
            <4> QED BY <4>1, <4>2
        <3> QED BY <1>3, <3>1, <3>3 DEF ReaderOK
    <2>4. reader'[f.id].state = "eof" => reader'[f.id].got = [i \in 1..Chunks |-> i]
        BY <1>1, <1>3 DEF Inv, ReadersOK
    <2> QED BY <1>3, <2>1, <2>2, <2>3, <2>4 DEF Inv, ReadersOK
<1> QED BY <1>10, <1>11

\* The end or the failure of a stream is passed on.
LEMMA HearsLast ==
    ASSUME Inv, ClientStep, NEW f, ClientHears(f), f.type \in {"final", "failed"},
           call[f.id].state = "stream", call'[f.id].state = "over", Put(f)
    PROVE  ReadersOK'
<1>1. /\ ToSet(toClient) = {f} \cup ToSet(toClient') /\ f \in ToSet(toClient)
      /\ f \in ClientFrames /\ f.id \in Id
      /\ \A g \in ToSet(toClient') : g.id = f.id => Follows(f, g)
    BY HearsFacts DEF Inv
<1>2. /\ reader'[f.id].state = reader[f.id].state
      /\ reader'[f.id].got = reader[f.id].got
      /\ \A id \in Id : id # f.id => reader'[id] = reader[id]
    BY <1>1, PutFacts DEF Inv
<1>3. /\ Len(reader'[f.id].buf) = Len(reader[f.id].buf) + 1
      /\ Len(reader[f.id].buf) \in Nat /\ Len(reader[f.id].got) \in Nat
    BY <1>1, PutFacts DEF Inv
<1>4. /\ \A i \in 1..Len(reader[f.id].buf) : reader'[f.id].buf[i] = reader[f.id].buf[i]
      /\ reader'[f.id].buf[Len(reader[f.id].buf) + 1] = f
    BY <1>1, PutFacts DEF Inv
<1>5. ASSUME f.type = "final", reader[f.id].state = "open"
      PROVE  Len(reader[f.id].got) + (Len(reader[f.id].buf) + 1) = Chunks + 1
    <2>1. Rcvd(f.id) \in Nat /\ Chunks \in Nat
        BY <1>1, RcvdFacts, BoundAssumption DEF Inv
    <2>2. UnderWay(f.id, Chunks) /\ Rcvd(f.id) <= Chunks
        <3>1. Following(f.id)
            BY <1>5 DEF Following
        <3> QED BY <1>1, <1>5, <3>1 DEF Inv, ChunksOK
    <2>3. ASSUME NEW m PROVE Chunk(f.id, m) \notin ToSet(toClient)
        <3>1. Chunk(f.id, m).type = "chunk" /\ Chunk(f.id, m).id = f.id
            BY MsgFields DEF Chunk
        <3> QED BY <1>1, <1>5, <3>1 DEF Follows
    <2>4. ~(Rcvd(f.id) < Chunks)
        <3> SUFFICES ASSUME Rcvd(f.id) < Chunks PROVE FALSE
            OBVIOUS
        <3>1. Rcvd(f.id) + 1 \in (Rcvd(f.id) + 1)..Chunks
            BY <2>1
        <3> QED BY <2>2, <2>3, <3>1 DEF UnderWay
    <2>5. Rcvd(f.id) = Chunks
        BY <2>1, <2>2, <2>4
    <2> QED BY <1>3, <2>5, SumFacts DEF Rcvd
<1>6. ASSUME reader[f.id].state = "open" PROVE ReaderOK(reader'[f.id])
    <2>1. ReaderOK(reader[f.id])
        BY <1>1, <1>6 DEF Inv, ReadersOK
    <2>2. ASSUME NEW i \in 1..Len(reader'[f.id].buf)
          PROVE  /\ reader'[f.id].buf[i].type \in {"chunk", "final", "failed"}
                 /\ reader'[f.id].buf[i].type = "chunk" =>
                       reader'[f.id].buf[i].n = Len(reader'[f.id].got) + i
                 /\ reader'[f.id].buf[i].type = "final" => Len(reader'[f.id].got) + i = Chunks + 1
        <3>1. CASE i = Len(reader[f.id].buf) + 1
            BY <1>2, <1>4, <1>5, <1>6, <3>1
        <3>2. CASE i # Len(reader[f.id].buf) + 1
            <4>1. i \in 1..Len(reader[f.id].buf)
                BY <1>3, <3>2
            <4> QED BY <1>2, <1>4, <2>1, <4>1 DEF ReaderOK
        <3> QED BY <3>1, <3>2
    <2>3. \A i \in 1..Len(reader'[f.id].got) : reader'[f.id].got[i] = i
        BY <1>2, <2>1 DEF ReaderOK
    <2> QED BY <2>2, <2>3 DEF ReaderOK
<1>7. ASSUME NEW id \in Id, id # f.id
      PROVE  call'[id].state = call[id].state /\ reader'[id] = reader[id]
    BY <1>7 DEF ClientHears
<1>8. reader'[f.id].state = "eof" => reader'[f.id].got = [i \in 1..Chunks |-> i]
    BY <1>1, <1>2 DEF Inv, ReadersOK
<1> QED BY <1>2, <1>6, <1>7, <1>8 DEF Inv, ReadersOK

\* The readers stay as they are.
LEMMA HearsQuiet ==
    ASSUME Inv, ClientStep, NEW f, ClientHears(f), reader' = reader,
           call'[f.id].state = "stream" => call[f.id].state = "stream"
    PROVE  ReadersOK'
<1>1. f.id \in Id
    BY HearsFacts DEF Inv
<1>2. ASSUME NEW id \in Id, id # f.id PROVE call'[id].state = call[id].state
    BY <1>2 DEF ClientHears
<1>3. call'[f.id].state \in {"stream", "over", "left"}
    BY DEF ClientHears
<1> QED BY <1>2, <1>3 DEF Inv, ReadersOK

\* The parts put together.
LEMMA HearsInv ==
    ASSUME Inv, end.client = "up", ClientStep, NEW f, ClientHears(f), toHost' = toHost,
           asked' = asked, deferred' = deferred, TypeOK', ChunksOK', ReadersOK'
    PROVE  Inv'
<1>1. nextId' + deferred' <= asked' + 1
    BY DEF ClientStep, Inv, ClientOK
<1>2. ClientOK' /\ ToClientOK' /\ LiveOK'
    BY <1>1, StepHears
<1>3. HostOK' /\ ToHostOK' /\ KnownOK'
    BY StepHost, StepSilent
<1>4. EndsOK'
    BY DEF Inv, EndsOK, HostUp, ClientStep
<1> QED BY <1>2, <1>3, <1>4 DEF Inv

\* One call changes its state, and takes a reply unless it had one.
LEMMA SetCallFacts ==
    ASSUME TypeOK, NEW id \in Id, NEW s \in {"free", "sending", "pending", "stream", "over", "left"},
           NEW r \in {"none", "ok", "error", "stream"}, SetCall(id, s, r)
    PROVE  /\ call' \in [Id -> Calls] /\ call'[id].state = s
           /\ \A i \in Id : i # id => call'[i] = call[i]
           /\ \A i \in Id : call'[i].kind = call[i].kind /\ call'[i].epoch = call[i].epoch
<1>1. call \in [Id -> Calls] /\ call[id] \in Calls
    BY DEF TypeOK
<1> DEFINE q == IF call[id].reply = "none" THEN r ELSE call[id].reply
           c == [call[id] EXCEPT !.state = s, !.reply = q]
<1>2. q \in {"none", "ok", "error", "stream"}
    BY <1>1 DEF Calls
<1>3. call' = [call EXCEPT ![id] = c]
    BY <1>1 DEF SetCall
<1> HIDE DEF q
<1>4. c \in Calls /\ c.state = s /\ c.kind = call[id].kind /\ c.epoch = call[id].epoch
    BY <1>1, <1>2 DEF Calls
<1> HIDE DEF c
<1> QED BY <1>1, <1>3, <1>4

\* The connection is given up: nothing is left but what the callers hold.
LEMMA LeaveInv ==
    ASSUME Inv, NEW why \in {"lock", "errorFrame", "streamTimeout", "link"}, NEW calls \in [Id -> Calls],
           \A id \in Id : Moves(call[id].state, calls[id].state),
           Leave(why, calls), UNCHANGED <<asked, nextId, cancelEpoch, reader, refused>>
    PROVE  Inv'
<1>1. /\ end' = [client |-> why, host |-> IF HostUp THEN "link" ELSE end.host]
      /\ upOrder' = <<>> /\ deferred' = 0 /\ drops' = <<>>
      /\ toHost' = <<>> /\ toClient' = <<>> /\ host' = NoHost
      /\ asked' = asked /\ nextId' = nextId /\ cancelEpoch' = cancelEpoch /\ reader' = reader
      /\ refused' = refused
    BY DEF Leave
<1> DEFINE c(id) == IF calls[id].state \in {"free", "over", "left"} THEN calls[id]
                    ELSE [calls[id] EXCEPT !.state = "over",
                                           !.reply = IF @ = "none" THEN "error" ELSE @]
<1>2. call' = [id \in Id |-> c(id)]
    BY DEF Leave
<1>20. ASSUME NEW id \in Id
       PROVE  /\ c(id) \in Calls /\ c(id).state \in {"free", "over", "left"}
              /\ (c(id).state = "free") <=> (calls[id].state = "free")
    <2>1. calls[id] \in Calls
        OBVIOUS
    <2>2. CASE calls[id].state \in {"free", "over", "left"}
        BY <2>1, <2>2
    <2>3. CASE calls[id].state \notin {"free", "over", "left"}
        BY <2>1, <2>3 DEF Calls
    <2> QED BY <2>2, <2>3
<1>21. ASSUME NEW id \in Id PROVE (calls[id].state = "free") <=> (call[id].state = "free")
    <2>1. Moves(call[id].state, calls[id].state)
        OBVIOUS
    <2> QED BY <2>1 DEF Moves
<1> HIDE DEF c
<1>22. call' \in [Id -> Calls]
    BY <1>2, <1>20
<1>23. \A id \in Id : call'[id].state \in {"free", "over", "left"}
    BY <1>2, <1>20
<1>24. \A id \in Id : (call'[id].state = "free") <=> (call[id].state = "free")
    BY <1>2, <1>20, <1>21
<1>3. ~HostUp' /\ end'.client # "up"
    BY <1>1 DEF HostUp
<1>4. \A S : <<>> \in Seq(S) /\ Len(<<>>) = 0 /\ ToSet(<<>>) = {} /\ IsInjective(<<>>)
    BY EmptyFacts
<1>5. Tables(NoHost) /\ NoHost.last = 0 /\ NoHost.contexts = {} /\ NoHost.jobs = {}
      /\ NoHost.streams = {} /\ NoHost.upload = NoId /\ NoHost.sent = [id \in Id |-> 0]
    BY NoHostFacts DEF NoHost
<1>6. TypeOK'
    <2>1. {id \in Id : call'[id].state = "sending"} = {}
        BY <1>23
    <2>2. end' \in [client : {"up", "lock", "errorFrame", "streamTimeout", "link"},
                    host : {"up", "lock", "errorFrame", "replay", "session", "link"}]
        BY <1>1 DEF Inv, TypeOK
    <2>3. 0 \in 0..MaxCalls
        BY BoundAssumption
    <2> QED BY <1>1, <1>4, <1>5, <1>22, <2>1, <2>2, <2>3 DEF Inv, TypeOK, Tables
<1>7. ClientOK'
    <2>1. nextId + 0 <= asked + 1
        BY BoundAssumption DEF Inv, ClientOK, TypeOK
    <2>2. ASSUME NEW id \in Id
          PROVE  /\ call'[id].state = "free" <=> id >= nextId
                 /\ call'[id].state = "free" => reader[id] = NoReader
        BY <1>24 DEF Inv, ClientOK
    <2> QED BY <1>1, <1>23, <2>1, <2>2 DEF ClientOK
<1>8. EndsOK'
    BY <1>1, <1>3 DEF EndsOK
<1>9. HostOK'
    <2>1. nextId \in Nat \ {0}
        BY FrameFields DEF Inv
    <2> QED BY <1>1, <1>5, <2>1 DEF HostOK
<1>10. ToHostOK' /\ KnownOK'
    <2>1. HostOrder(<<>>)
        BY <1>4 DEF HostOrder
    <2> QED BY <1>1, <1>3, <1>4, <1>5, <2>1 DEF ToHostOK, KnownOK
<1>11. ToClientOK'
    <2>1. ClientOrder(<<>>)
        BY <1>4 DEF ClientOrder
    <2> QED BY <1>1, <1>4, <2>1 DEF ToClientOK
<1>12. LiveOK'
    <2>1. \A id : ~Live(id)' /\ ~Heard(id)'
        BY <1>1, <1>3, <1>4 DEF Live, Heard
    <2> QED BY <1>1, <1>3, <1>5, <1>23, <2>1 DEF LiveOK
<1>13. ChunksOK'
    <2>1. \A id \in Id : ~Following(id)'
        BY <1>23 DEF Following
    <2> QED BY <1>1, <1>4, <2>1 DEF ChunksOK
<1>14. ReadersOK'
    <2>1. ASSUME NEW id \in Id, reader[id].state = "open" PROVE call'[id].state \in {"over", "left"}
        <3>1. call[id].state # "free"
            BY <2>1 DEF Inv, ReadersOK
        <3> QED BY <1>23, <1>24, <3>1
    <2> QED BY <1>1, <2>1 DEF Inv, ReadersOK
<1> QED BY <1>6, <1>7, <1>8, <1>9, <1>10, <1>11, <1>12, <1>13, <1>14 DEF Inv

(***************************************************************************)
(* The client receives a frame.                                             *)
(***************************************************************************)
\* The first frame, and what an open call means.
LEMMA HeadFacts ==
    ASSUME Inv, Drained, toClient # <<>>, NEW f, f = Head(toClient)
    PROVE  /\ f \in ClientFrames /\ f \in ToSet(toClient) /\ f.id \in Id /\ end.client = "up"
           /\ f.type \in {"ok", "error", "meta", "chunk", "final", "failed"}
           /\ call[f.id].state \in {"sending", "pending", "stream", "left"}
           /\ call[f.id].state = "stream" => f.type \in {"chunk", "final", "failed"}
           /\ call[f.id].state \in {"sending", "pending"} =>
                 /\ f.type \in {"ok", "error", "meta"}
                 /\ f.type = "meta" => call[f.id].state = "pending"
<1>1. toClient \in Seq(ClientFrames)
    BY DEF Inv, TypeOK
<1>2. f \in ClientFrames /\ ToSet(toClient) = {f} \cup ToSet(Tail(toClient))
    BY <1>1, TailFacts
<1>3. /\ f.id \in Id /\ f.type \in {"ok", "error", "meta", "chunk", "final", "failed"}
      /\ nextId \in Nat /\ f.id \in Nat
    BY <1>2, FrameFields DEF Inv, Id
<1>4. call[f.id].state \in {"free", "sending", "pending", "stream", "over", "left"}
    BY <1>3, CallFields DEF Inv
<1>5. /\ f.id < nextId /\ call[f.id].state # "over"
      /\ f.type = "meta" => call[f.id].kind \in {"range", "ensure"}
      /\ call[f.id].state = "stream" => f.type \notin {"ok", "error", "meta"}
      /\ f.type \in {"chunk", "final", "failed"} =>
            \/ call[f.id].state \in {"stream", "left"}
            \/ Msg("meta", f.id, 0) \in ToSet(toClient)
    BY <1>2 DEF Inv, ToClientOK
<1>6. call[f.id].state # "free" /\ (call[f.id].state = "sending" => call[f.id].kind = "upload")
    BY <1>3, <1>5 DEF Inv, ClientOK
<1>7. f.type \in {"chunk", "final", "failed"} => Msg("meta", f.id, 0) \notin ToSet(toClient)
    <2>1. \A g \in ToSet(Tail(toClient)) : g.id = f.id => Follows(f, g)
        BY <1>1, ClientOrderTail DEF Inv, ToClientOK
    <2> QED BY <1>2, <2>1, MsgFields DEF Follows
<1> QED BY <1>2, <1>3, <1>4, <1>5, <1>6, <1>7 DEF Drained

\* The types after a frame was taken and one call has moved.
LEMMA HearsType ==
    ASSUME Inv, toClient # <<>>, Received, UNCHANGED <<asked, nextId, cancelEpoch, refused>>,
           call' \in [Id -> Calls], reader' \in [Id -> Readings],
           \A id \in Id : Len(reader'[id].buf) <= RESPONSE_STREAM_CHANNEL_CAPACITY,
           upOrder' \in Seq(Id), IsInjective(upOrder'),
           ToSet(upOrder') = {id \in Id : call'[id].state = "sending"}
    PROVE  TypeOK'
<1>1. /\ toClient' = Tail(toClient) /\ UNCHANGED <<drops, toHost, end, deferred, host>>
    BY DEF Received, Stay
<1>2. toClient' \in Seq(ClientFrames)
    BY <1>1, TailFacts DEF Inv, TypeOK
<1> QED BY <1>1, <1>2 DEF Inv, TypeOK

\* A stream is over or given up: the loop goes on.
LEMMA StreamEnds ==
    ASSUME Inv, Drained, toClient # <<>>, NEW f, f = Head(toClient), call[f.id].state = "stream",
           NEW s \in {"over", "left"}, SetCall(f.id, s, "stream"), s = "over" => f.type \in {"final", "failed"},
           \/ UNCHANGED reader
           \/ s = "over" /\ Room(f.id) /\ Put(f),
           UNCHANGED upOrder, Received, UNCHANGED <<asked, nextId, cancelEpoch, refused>>
    PROVE  Inv'
<1>1. /\ f \in ClientFrames /\ f.id \in Id /\ end.client = "up"
    BY HeadFacts
<1>2. /\ call' \in [Id -> Calls] /\ call'[f.id].state = s
      /\ \A i \in Id : i # f.id => call'[i] = call[i]
      /\ \A i \in Id : call'[i].kind = call[i].kind
    BY <1>1, SetCallFacts DEF Inv
<1>3. toClient' = Tail(toClient) /\ UNCHANGED <<toHost, end, deferred, host>>
    BY DEF Received, Stay
<1>4. ClientStep
    BY <1>2, <1>3 DEF ClientStep, Moves
<1>5. \A id \in Id : id # f.id => reader'[id] = reader[id]
    BY <1>1, PutFacts DEF Inv
<1>6. ClientHears(f)
    BY <1>2, <1>3, <1>5 DEF ClientHears
<1>7. ChunksOK'
    <2>1. ~Following(f.id)'
        BY <1>2 DEF Following
    <2> QED BY <1>4, <1>6, <2>1, HearsEnd
<1>8. ReadersOK'
    <2>1. CASE UNCHANGED reader
        BY <1>2, <1>4, <1>6, <2>1, HearsQuiet
    <2>2. CASE s = "over" /\ Put(f)
        BY <1>2, <1>4, <1>6, <2>2, HearsLast
    <2> QED BY <2>1, <2>2
<1>9. TypeOK'
    <2>1. reader' \in [Id -> Readings]
        BY <1>1, PutFacts DEF Inv, TypeOK
    <2>2. \A id \in Id : Len(reader'[id].buf) <= RESPONSE_STREAM_CHANNEL_CAPACITY
        <3>1. CASE UNCHANGED reader
            BY <3>1 DEF Inv, TypeOK
        <3>2. CASE Room(f.id) /\ Put(f)
            <4>1. /\ Len(reader'[f.id].buf) = Len(reader[f.id].buf) + 1 /\ Len(reader[f.id].buf) \in Nat
                BY <1>1, <3>2, PutFacts DEF Inv
            <4>2. Len(reader'[f.id].buf) <= RESPONSE_STREAM_CHANNEL_CAPACITY
                BY <3>2, <4>1, BoundAssumption DEF Room
            <4> QED BY <1>5, <4>2 DEF Inv, TypeOK
        <3> QED BY <3>1, <3>2
    <2>3. {id \in Id : call'[id].state = "sending"} = {id \in Id : call[id].state = "sending"}
        BY <1>2
    <2>4. upOrder' \in Seq(Id) /\ IsInjective(upOrder') /\ ToSet(upOrder') = {id \in Id : call[id].state = "sending"}
        BY DEF Inv, TypeOK
    <2> QED BY <1>2, <2>1, <2>2, <2>3, <2>4, HearsType
<1> QED BY <1>1, <1>3, <1>4, <1>6, <1>7, <1>8, <1>9, HearsInv

\* A chunk is put into the buffer of its reader.
LEMMA ChunkArrives ==
    ASSUME Inv, Drained, toClient # <<>>, NEW f, f = Head(toClient), call[f.id].state = "stream",
           f.type = "chunk", Room(f.id), Put(f),
           UNCHANGED <<call, upOrder>>, Received, UNCHANGED <<asked, nextId, cancelEpoch, refused>>
    PROVE  Inv'
<1>1. /\ f \in ClientFrames /\ f.id \in Id /\ end.client = "up"
    BY HeadFacts
<1>2. toClient' = Tail(toClient) /\ UNCHANGED <<toHost, end, deferred, host>>
    BY DEF Received, Stay
<1>3. ClientStep
    BY <1>2 DEF ClientStep, Moves
<1>4. \A id \in Id : id # f.id => reader'[id] = reader[id]
    BY <1>1, PutFacts DEF Inv
<1>5. ClientHears(f)
    BY <1>2, <1>4 DEF ClientHears
<1>6. ChunksOK' /\ ReadersOK'
    BY <1>3, <1>5, HearsChunk
<1>7. TypeOK'
    <2>1. reader' \in [Id -> Readings]
        BY <1>1, PutFacts DEF Inv
    <2>2. \A id \in Id : Len(reader'[id].buf) <= RESPONSE_STREAM_CHANNEL_CAPACITY
        <3>1. /\ Len(reader'[f.id].buf) = Len(reader[f.id].buf) + 1 /\ Len(reader[f.id].buf) \in Nat
            BY <1>1, PutFacts DEF Inv
        <3>2. Len(reader'[f.id].buf) <= RESPONSE_STREAM_CHANNEL_CAPACITY
            BY <3>1, BoundAssumption DEF Room
        <3> QED BY <1>4, <3>2 DEF Inv, TypeOK
    <2>3. /\ upOrder' \in Seq(Id) /\ IsInjective(upOrder') /\ call' \in [Id -> Calls]
          /\ ToSet(upOrder') = {id \in Id : call'[id].state = "sending"}
        BY DEF Inv, TypeOK
    <2> QED BY <2>1, <2>2, <2>3, HearsType
<1> QED BY <1>1, <1>2, <1>3, <1>5, <1>6, <1>7, HearsInv

\* A stream is announced to its caller.
LEMMA StreamBegins ==
    ASSUME Inv, Drained, toClient # <<>>, NEW f, f = Head(toClient), call[f.id].state = "pending",
           f.type = "meta", SetCall(f.id, "stream", "stream"),
           reader' = [reader EXCEPT ![f.id].state = "open"],
           UNCHANGED upOrder, Received, UNCHANGED <<asked, nextId, cancelEpoch, refused>>
    PROVE  Inv'
<1>1. /\ f \in ClientFrames /\ f.id \in Id /\ end.client = "up"
    BY HeadFacts
<1>2. /\ call' \in [Id -> Calls] /\ call'[f.id].state = "stream"
      /\ \A i \in Id : i # f.id => call'[i] = call[i]
      /\ \A i \in Id : call'[i].kind = call[i].kind
    BY <1>1, SetCallFacts DEF Inv
<1>3. toClient' = Tail(toClient) /\ UNCHANGED <<toHost, end, deferred, host>>
    BY DEF Received, Stay
<1>4. ClientStep
    BY <1>2, <1>3 DEF ClientStep, Moves
<1>5. reader \in [Id -> Readings]
    BY DEF Inv, TypeOK
<1>6. ClientHears(f)
    BY <1>2, <1>3, <1>5 DEF ClientHears
<1>7. ChunksOK' /\ ReadersOK'
    BY <1>4, <1>6, HearsMeta
<1>8. TypeOK'
    <2>1. reader' \in [Id -> Readings] /\ \A id \in Id : reader'[id].buf = reader[id].buf
        BY <1>1, <1>5 DEF Readings
    <2>2. \A id \in Id : Len(reader'[id].buf) <= RESPONSE_STREAM_CHANNEL_CAPACITY
        BY <2>1 DEF Inv, TypeOK
    <2>3. {id \in Id : call'[id].state = "sending"} = {id \in Id : call[id].state = "sending"}
        BY <1>2
    <2>4. upOrder' \in Seq(Id) /\ IsInjective(upOrder') /\ ToSet(upOrder') = {id \in Id : call[id].state = "sending"}
        BY DEF Inv, TypeOK
    <2> QED BY <1>2, <2>1, <2>2, <2>3, <2>4, HearsType
<1> QED BY <1>1, <1>3, <1>4, <1>6, <1>7, <1>8, HearsInv

\* A request is answered.
LEMMA AnswerArrives ==
    ASSUME Inv, Drained, toClient # <<>>, NEW f, f = Head(toClient),
           call[f.id].state \in {"sending", "pending"}, f.type # "meta",
           call' = [call EXCEPT ![f.id].state = "over", ![f.id].reply = f.type],
           upOrder' = RemoveFirst(upOrder, f.id), UNCHANGED reader, Received,
           UNCHANGED <<asked, nextId, cancelEpoch, refused>>
    PROVE  Inv'
<1>1. /\ f \in ClientFrames /\ f.id \in Id /\ end.client = "up" /\ f.type \in {"ok", "error"}
    BY HeadFacts
<1>2. /\ call' \in [Id -> Calls] /\ call'[f.id].state = "over"
      /\ \A i \in Id : i # f.id => call'[i] = call[i]
      /\ \A i \in Id : call'[i].kind = call[i].kind
    <2> DEFINE c == [call[f.id] EXCEPT !.state = "over", !.reply = f.type]
    <2>1. call \in [Id -> Calls] /\ call[f.id] \in Calls
        BY <1>1 DEF Inv, TypeOK
    <2>2. call' = [call EXCEPT ![f.id] = c]
        BY <2>1
    <2>3. c \in Calls /\ c.state = "over" /\ c.kind = call[f.id].kind
        BY <1>1, <2>1 DEF Calls
    <2> HIDE DEF c
    <2> QED BY <1>1, <2>1, <2>2, <2>3
<1>3. toClient' = Tail(toClient) /\ UNCHANGED <<toHost, end, deferred, host>>
    BY DEF Received, Stay
<1>4. ClientStep
    BY <1>2, <1>3 DEF ClientStep, Moves
<1>5. ClientHears(f)
    BY <1>1, <1>2, <1>3 DEF ClientHears
<1>6. ChunksOK'
    <2>1. ~Following(f.id)'
        BY <1>2 DEF Following
    <2> QED BY <1>4, <1>5, <2>1, HearsEnd
<1>7. ReadersOK'
    BY <1>2, <1>4, <1>5, HearsQuiet
<1>8. TypeOK'
    <2>1. upOrder \in Seq(Id) /\ IsInjective(upOrder) /\ ToSet(upOrder) = {id \in Id : call[id].state = "sending"}
        BY DEF Inv, TypeOK
    <2>2. upOrder' \in Seq(Id) /\ IsInjective(upOrder') /\ ToSet(upOrder') = ToSet(upOrder) \ {f.id}
        BY <2>1, RemoveFirstFacts
    <2>3. ToSet(upOrder') = {id \in Id : call'[id].state = "sending"}
        BY <1>1, <1>2, <2>1, <2>2
    <2>4. reader' \in [Id -> Readings] /\ \A id \in Id : Len(reader'[id].buf) <= RESPONSE_STREAM_CHANNEL_CAPACITY
        BY DEF Inv, TypeOK
    <2> QED BY <1>2, <2>2, <2>3, <2>4, HearsType
<1> QED BY <1>1, <1>3, <1>4, <1>5, <1>6, <1>7, <1>8, HearsInv

\* A frame of a request that was given up is ignored.
LEMMA FrameIgnored ==
    ASSUME Inv, Drained, toClient # <<>>, NEW f, f = Head(toClient), call[f.id].state = "left",
           UNCHANGED <<call, reader, upOrder>>, Received, UNCHANGED <<asked, nextId, cancelEpoch, refused>>
    PROVE  Inv'
<1>1. /\ f \in ClientFrames /\ f.id \in Id /\ end.client = "up"
    BY HeadFacts
<1>2. toClient' = Tail(toClient) /\ UNCHANGED <<toHost, end, deferred, host>>
    BY DEF Received, Stay
<1>3. ClientStep
    BY <1>2 DEF ClientStep, Moves
<1>4. ClientHears(f)
    BY <1>2 DEF ClientHears
<1>5. ChunksOK'
    <2>1. ~Following(f.id)'
        BY DEF Following
    <2> QED BY <1>3, <1>4, <2>1, HearsEnd
<1>6. ReadersOK'
    BY <1>3, <1>4, HearsQuiet
<1>7. TypeOK'
    <2>1. /\ upOrder' \in Seq(Id) /\ IsInjective(upOrder') /\ call' \in [Id -> Calls]
          /\ ToSet(upOrder') = {id \in Id : call'[id].state = "sending"}
          /\ reader' \in [Id -> Readings]
          /\ \A id \in Id : Len(reader'[id].buf) <= RESPONSE_STREAM_CHANNEL_CAPACITY
        BY DEF Inv, TypeOK
    <2> QED BY <2>1, HearsType
<1> QED BY <1>1, <1>2, <1>3, <1>4, <1>5, <1>6, <1>7, HearsInv

\* Whatever the client receives.
LEMMA ReceiveInv ==
    ASSUME Inv, ClientReceive
    PROVE  Inv'
<1> DEFINE f == Head(toClient)
<1>1. /\ Drained /\ toClient # <<>> /\ UNCHANGED <<asked, nextId, cancelEpoch, refused>>
      /\ ErrorFrame(f) \/ forward_active_stream_frame(f) \/ deliver_rpc_response_frame(f) \/ Unmatched(f)
    BY DEF ClientReceive
<1> HIDE DEF f
<1>2. /\ f \in ClientFrames /\ f.id \in Id
      /\ f.type \in {"ok", "error", "meta", "chunk", "final", "failed"}
      /\ call[f.id].state \in {"sending", "pending", "stream", "left"}
      /\ call[f.id].state = "stream" => f.type \in {"chunk", "final", "failed"}
      /\ call[f.id].state \in {"sending", "pending"} =>
            /\ f.type \in {"ok", "error", "meta"}
            /\ f.type = "meta" => call[f.id].state = "pending"
    BY <1>1, HeadFacts DEF f
<1>3. call \in [Id -> Calls]
    BY DEF Inv, TypeOK
<1>4. CASE ErrorFrame(f)
    <2>1. CASE call[f.id].state = "stream"
        <3>1. /\ f.type = "failed" /\ SetCall(f.id, "over", "stream")
              /\ (Room(f.id) /\ Put(f)) \/ UNCHANGED reader
              /\ UNCHANGED upOrder /\ Received
            BY <1>4, <2>1 DEF ErrorFrame
        <3> QED BY <1>1, <2>1, <3>1, StreamEnds DEF f
    <2>2. CASE call[f.id].state # "stream"
        <3>1. Leave("errorFrame", call) /\ UNCHANGED reader
            BY <1>4, <2>2 DEF ErrorFrame
        <3>2. \A id \in Id : Moves(call[id].state, call[id].state)
            BY DEF Moves
        <3> QED BY <1>1, <1>3, <3>1, <3>2, LeaveInv
    <2> QED BY <2>1, <2>2
<1>5. CASE forward_active_stream_frame(f)
    <2>0. f.type \in {"chunk", "final"} /\ call[f.id].state = "stream" /\ UNCHANGED upOrder /\ Received
        BY <1>2, <1>5 DEF forward_active_stream_frame
    <2>1. CASE SetCall(f.id, "left", "stream") /\ UNCHANGED reader
        BY <1>1, <2>0, <2>1, StreamEnds DEF f
    <2>2. CASE /\ Room(f.id) /\ Put(f)
               /\ IF f.type = "final" THEN SetCall(f.id, "over", "stream") ELSE UNCHANGED call
        <3>1. CASE f.type = "final"
            <4>1. SetCall(f.id, "over", "stream")
                BY <2>2, <3>1
            <4> QED BY <1>1, <2>0, <2>2, <3>1, <4>1, StreamEnds DEF f
        <3>2. CASE f.type = "chunk"
            <4>1. UNCHANGED call
                BY <2>2, <3>2
            <4> QED BY <1>1, <2>0, <2>2, <3>2, <4>1, ChunkArrives DEF f
        <3> QED BY <2>0, <3>1, <3>2
    <2> QED BY <1>5, <2>1, <2>2 DEF forward_active_stream_frame, Overflow
<1>6. CASE deliver_rpc_response_frame(f)
    <2> DEFINE answered == [call EXCEPT ![f.id].state = "over", ![f.id].reply = f.type]
    <2>0. f.type # "failed" /\ call[f.id].state \in {"sending", "pending"}
        BY <1>6 DEF deliver_rpc_response_frame
    <2>1. CASE /\ f.type = "meta" /\ SetCall(f.id, "stream", "stream")
               /\ reader' = [reader EXCEPT ![f.id].state = "open"]
               /\ UNCHANGED upOrder /\ Received
        BY <1>1, <1>2, <2>0, <2>1, StreamBegins DEF f
    <2>2. CASE f.type = "ok" /\ Leave("lock", answered) /\ UNCHANGED reader
        <3>1. /\ answered \in [Id -> Calls]
              /\ \A id \in Id : Moves(call[id].state, answered[id].state)
            BY <1>2, <1>3, <2>0, <2>2 DEF Calls, Moves
        <3> QED BY <1>1, <2>2, <3>1, LeaveInv
    <2>3. CASE /\ f.type # "meta" /\ call' = answered /\ upOrder' = RemoveFirst(upOrder, f.id)
               /\ UNCHANGED reader /\ Received
        BY <1>1, <2>0, <2>3, AnswerArrives DEF f
    <2> QED BY <1>6, <2>1, <2>2, <2>3 DEF deliver_rpc_response_frame
<1>7. CASE Unmatched(f)
    <2>1. call[f.id].state = "left" /\ UNCHANGED <<call, reader, upOrder>> /\ Received
        BY <1>2, <1>7 DEF Unmatched
    <2> QED BY <1>1, <2>1, FrameIgnored DEF f
<1> QED BY <1>1, <1>4, <1>5, <1>6, <1>7

(***************************************************************************)
(* The client sends.                                                        *)
(***************************************************************************)
\* A request is sent, or lost when the host has gone.
LEMMA SendInv ==
    ASSUME Inv, end.client = "up", NEW kind \in AllKinds, NEW epoch \in 0..MaxEpoch, nextId \in Id,
           Send(kind, epoch), nextId' + deferred' <= asked' + 1, asked' \in 0..MaxCalls,
           deferred' \in 0..MaxCalls, cancelEpoch' \in 0..MaxEpoch,
           UNCHANGED <<reader, drops, toClient, host, refused, end>>
    PROVE  Inv'
<1> DEFINE st == IF kind = "upload" THEN "sending" ELSE "pending"
           c == [NoCall EXCEPT !.kind = kind, !.epoch = epoch, !.state = st]
           f == Msg("request", nextId, 0)
<1>0. /\ Chunks \in Nat /\ MaxCalls \in Nat /\ nextId \in Nat \ {0} /\ nextId <= MaxCalls
      /\ host.last \in Nat /\ host.last < nextId /\ nextId' = nextId + 1
    BY FrameFields, SMTT(30) DEF Inv, HostOK, Id, Send
<1>1. /\ call' = [call EXCEPT ![nextId] = c] /\ call \in [Id -> Calls]
      /\ upOrder' = IF kind = "upload" THEN Append(upOrder, nextId) ELSE upOrder
      /\ toHost' = IF HostUp THEN Append(toHost, f) ELSE toHost
    BY DEF Send, ToHost, Inv, TypeOK
<1>4. st \in {"sending", "pending"} /\ (st = "sending" <=> kind = "upload")
    OBVIOUS
<1> HIDE DEF st
<1>2. c \in Calls /\ c.kind = kind /\ c.state = st
    <2>1. NoCall \in Calls
        BY <1>0, BoundAssumption DEF NoCall, Calls, AllKinds
    <2> QED BY <1>4, <2>1 DEF Calls
<1> HIDE DEF c
<1>3. /\ call' \in [Id -> Calls] /\ call'[nextId].kind = kind /\ call'[nextId].state = st
      /\ \A i \in Id : i # nextId => call'[i] = call[i]
    BY <1>1, <1>2
<1>5. f \in HostFrames /\ f.id = nextId /\ f.type = "request" /\ f.n = 0
    BY <1>0 DEF HostFrames, Msg
<1>6. call[nextId].state = "free" /\ reader[nextId] = NoReader
    BY <1>0 DEF Inv, ClientOK
<1>7. /\ \A g \in ToSet(toClient) : g.id \in Id /\ g.id # nextId /\ g.id < nextId
      /\ \A g \in ToSet(toHost) : g.id \in Id /\ g.id # nextId /\ g.id < nextId
    <2>1. \A g \in ToSet(toClient) : g.id \in Id /\ g.id < nextId
        BY FrameFields DEF Inv, ToClientOK
    <2>2. \A g \in ToSet(toHost) : g.id \in Id /\ g.id < nextId
        BY FrameFields DEF Inv, ToHostOK
    <2> QED BY <1>0, <2>1, <2>2 DEF Id
<1>8. /\ host.contexts \cup host.jobs \cup host.streams \subseteq Id \ {nextId}
      /\ host.upload # nextId /\ (host.upload # NoId => host.upload \in Id)
    <2>1. host.contexts \cup host.jobs \subseteq 1..host.last /\ host.streams \subseteq host.contexts
        BY DEF Inv, HostOK, TypeOK
    <2>2. host.upload \in 0..MaxCalls /\ (host.upload # NoId => host.upload <= host.last)
        BY FrameFields DEF Inv, HostOK
    <2> QED BY <1>0, <2>1, <2>2 DEF Id, NoId
<1>9. \A i \in 1..host.last : i \in Id /\ i # nextId
    BY <1>0 DEF Id
<1>10. HostUp => toHost \in Seq(HostFrames) /\ toHost' \in Seq(HostFrames)
                 /\ ToSet(toHost') = ToSet(toHost) \cup {f} /\ toHost' = Append(toHost, f)
    BY <1>1, <1>5, AppendFacts, SMTT(30) DEF Inv, TypeOK
<1>11. ~HostUp => toHost = <<>> /\ toHost' = <<>> /\ ToSet(toHost') = {}
    BY <1>1, EmptyFacts DEF Inv, EndsOK
<1>12. HostUp' <=> HostUp
    BY DEF HostUp
<1> HIDE DEF f
<1>13. TypeOK'
    <2>1. upOrder \in Seq(Id) /\ IsInjective(upOrder) /\ ToSet(upOrder) = {id \in Id : call[id].state = "sending"}
        BY DEF Inv, TypeOK
    <2>2. nextId \notin ToSet(upOrder)
        BY <1>6, <2>1
    <2>3. kind = "upload" => /\ upOrder' \in Seq(Id) /\ IsInjective(upOrder')
                             /\ ToSet(upOrder') = ToSet(upOrder) \cup {nextId}
        BY <1>1, <2>1, <2>2, AppendFacts, TurnFacts
    <2>4. upOrder' \in Seq(Id) /\ IsInjective(upOrder')
        BY <1>1, <2>1, <2>3
    <2>5. ToSet(upOrder') = {id \in Id : call'[id].state = "sending"}
        BY <1>1, <1>3, <1>4, <1>6, <2>1, <2>3
    <2>6. nextId' \in 1..(MaxCalls + 1)
        BY <1>0
    <2>7. toHost' \in Seq(HostFrames)
        BY <1>10, <1>11, EmptyFacts
    <2> QED BY <1>3, <2>4, <2>5, <2>6, <2>7 DEF Inv, TypeOK
<1>14. ClientOK'
    <2>1. ASSUME NEW id \in Id
          PROVE  /\ (call'[id].state = "free") <=> (id >= nextId + 1)
                 /\ call'[id].state = "sending" => call'[id].kind = "upload"
                 /\ call'[id].state = "stream" => call'[id].kind \in {"range", "ensure"}
                 /\ call'[id].state \in {"free", "sending", "pending"} => reader[id] = NoReader
        <3>1. CASE id = nextId
            BY <1>0, <1>3, <1>4, <1>6, <3>1
        <3>2. CASE id # nextId
            <4>1. id \in Nat
                BY DEF Id
            <4> QED BY <1>0, <1>3, <3>2, <4>1 DEF Inv, ClientOK
        <3> QED BY <3>1, <3>2
    <2> QED BY <1>0, <2>1 DEF ClientOK
<1>15. EndsOK'
    BY <1>11, <1>12 DEF Inv, EndsOK
<1>16. HostOK'
    <2>1. host.last < nextId'
        BY <1>0
    <2>2. \A id \in host.contexts \cup host.jobs \cup host.streams : call'[id] = call[id]
        BY <1>3, <1>8
    <2>3. host.upload # NoId => call'[host.upload] = call[host.upload]
        BY <1>3, <1>8
    <2> QED BY <2>1, <2>2, <2>3 DEF Inv, HostOK
<1>17. ToHostOK'
    <2>1. CASE HostUp
        <3>1. HostOrder(toHost')
            BY <1>5, <1>7, <1>10, <2>1, HostOrderAppend DEF Inv, ToHostOK
        <3>2. ASSUME NEW id \in Id, host.last < id, id < nextId + 1
              PROVE  Msg("request", id, 0) \in ToSet(toHost')
            <4>1. CASE id = nextId
                BY <1>10, <2>1, <4>1 DEF f
            <4>2. CASE id # nextId
                <5>1. id < nextId
                    BY <1>0, <3>2, <4>2 DEF Id
                <5> QED BY <1>10, <2>1, <3>2, <5>1 DEF Inv, ToHostOK
            <4> QED BY <4>1, <4>2
        <3>3. ASSUME NEW g \in ToSet(toHost)
              PROVE  /\ g.id < nextId + 1
                     /\ g.type = "request" => g.id > host.last
                     /\ g.type \in {"chunk", "final", "failed"} => call'[g.id].kind = "upload"
                     /\ g.type \in {"final", "failed"} => call'[g.id].state # "sending"
                     /\ g.type = "cancelled" => /\ g.n = 0 /\ call'[g.id].kind \in {"range", "ensure"}
                                                /\ call'[g.id].state = "left"
            <4>1. g.id < nextId + 1
                BY <1>0, <1>7 DEF Id
            <4> QED BY <1>3, <1>7, <4>1 DEF Inv, ToHostOK
        <3>4. f.id < nextId + 1 /\ f.id > host.last
            BY <1>0, <1>5
        <3> QED BY <1>0, <1>5, <1>10, <1>12, <2>1, <3>1, <3>2, <3>3, <3>4 DEF ToHostOK
    <2>2. CASE ~HostUp
        <3>1. HostOrder(<<>>)
            BY EmptyFacts DEF HostOrder
        <3> QED BY <1>11, <1>12, <2>2, <3>1 DEF ToHostOK
    <2> QED BY <2>1, <2>2
<1>18. KnownOK'
    <2>1. \A id \in 1..host.last : Told(id)' => Told(id)
        BY <1>5, <1>9, <1>10, <1>11 DEF Told
    <2> QED BY <1>3, <1>9, <2>1 DEF Inv, KnownOK
<1>19. /\ \A id : Live(id)' <=> Live(id)
       /\ \A id : Heard(id)' <=> Heard(id)
       /\ \A id : Rcvd(id)' = Rcvd(id)
       /\ \A id, n : UnderWay(id, n)' <=> UnderWay(id, n)
    BY <1>12 DEF Live, Heard, Rcvd, UnderWay
<1>20. ToClientOK'
    <2>1. \A g \in ToSet(toClient) : g.id < nextId + 1
        BY <1>0, <1>7 DEF Id
    <2> QED BY <1>0, <1>3, <1>7, <1>12, <1>19, <2>1 DEF Inv, ToClientOK
<1>21. LiveOK'
    BY <1>3, <1>4, <1>8, <1>12, <1>19 DEF Inv, LiveOK
<1>22. ChunksOK'
    <2>1. Rcvd(nextId) = 0
        <3>1. reader[nextId].got = <<>> /\ reader[nextId].buf = <<>>
            BY <1>6 DEF NoReader
        <3> QED BY <3>1, EmptyFacts DEF Rcvd
    <2>2. \A id \in Id : id # nextId => (Following(id)' <=> Following(id))
        BY <1>3 DEF Following
    <2>3. ASSUME NEW g \in ToSet(toClient)
          PROVE  /\ g.type = "chunk" => g.n >= 1
                 /\ g.type = "chunk" /\ g.id \in host.streams => g.n <= host.sent[g.id]
                 /\ Following(g.id)' => /\ g.type = "chunk" => g.n > Rcvd(g.id) /\ UnderWay(g.id, g.n)
                                        /\ g.type = "final" => UnderWay(g.id, Chunks)
        BY <1>7, <2>2 DEF Inv, ChunksOK
    <2>4. ASSUME NEW id \in Id, Following(id)'
          PROVE  /\ Rcvd(id) <= Chunks
                 /\ id \in host.streams => Rcvd(id) <= host.sent[id] /\ UnderWay(id, host.sent[id])
        BY <1>0, <1>8, <2>1, <2>2, <2>4 DEF Inv, ChunksOK
    <2> QED BY <1>19, <2>3, <2>4 DEF ChunksOK
<1>23. ReadersOK'
    <2>1. reader[nextId].state = "none"
        BY <1>6 DEF NoReader
    <2> QED BY <1>3, <2>1 DEF Inv, ReadersOK
<1> QED BY <1>13, <1>14, <1>15, <1>16, <1>17, <1>18, <1>20, <1>21, <1>22, <1>23 DEF Inv

\* A caller's request is taken.
LEMMA TakeInv ==
    ASSUME Inv, NEW kind \in Kind, NEW epoch \in 0..MaxEpoch, Take(kind, epoch)
    PROVE  Inv'
<1>0. /\ kind \in AllKinds /\ asked \in 0..MaxCalls /\ deferred \in 0..MaxCalls /\ MaxCalls \in Nat
      /\ nextId \in 1..(MaxCalls + 1) /\ nextId + deferred <= asked + 1
    BY KindAssumption, BoundAssumption DEF Inv, TypeOK, ClientOK
<1>1. /\ end.client = "up" /\ asked < MaxCalls /\ asked' = asked + 1 /\ cancelEpoch' \in 0..MaxEpoch
      /\ UNCHANGED <<reader, drops, toClient, host, refused, end>>
    BY DEF Take, Drained, Inv, TypeOK
<1>2. CASE Send(kind, epoch) /\ UNCHANGED deferred
    <2>1. /\ nextId \in Id /\ nextId' + deferred' <= asked' + 1 /\ asked' \in 0..MaxCalls
          /\ deferred' \in 0..MaxCalls
        BY <1>0, <1>1, <1>2 DEF Id, Send
    <2> QED BY <1>0, <1>1, <1>2, <2>1, SendInv
<1>3. CASE /\ UNCHANGED <<call, upOrder, toHost, nextId>>
           /\ deferred' \in {deferred, deferred + 1}
    <2>1. ClientStep /\ toHost' = toHost
        BY <1>1, <1>3 DEF ClientStep, Moves
    <2>2. nextId' + deferred' <= asked' + 1 /\ asked' \in 0..MaxCalls /\ deferred' \in 0..MaxCalls
        <3>1. nextId' = nextId /\ asked' = asked + 1
            BY <1>1, <1>3
        <3>2. CASE deferred' = deferred
            BY <1>0, <1>1, <3>1, <3>2
        <3>3. CASE deferred' = deferred + 1
            BY <1>0, <1>1, <3>1, <3>3
        <3> QED BY <1>3, <3>2, <3>3
    <2>3. \A id \in Id : call'[id].state # call[id].state => call'[id].state \in {"pending", "left"}
        BY <1>3
    <2>4. ClientOK' /\ ToClientOK' /\ LiveOK' /\ ChunksOK' /\ ReadersOK'
        BY <1>1, <2>1, <2>2, <2>3, StepKeeps
    <2>5. HostOK' /\ ToHostOK' /\ KnownOK'
        BY <2>1, StepHost, StepSilent
    <2>6. EndsOK'
        BY <1>1, <2>1 DEF Inv, EndsOK, HostUp
    <2>7. TypeOK'
        BY <1>1, <1>3, <2>2 DEF Inv, TypeOK
    <2> QED BY <2>4, <2>5, <2>6, <2>7 DEF Inv
<1> QED BY <1>2, <1>3 DEF Take

\* A range request that was put off is sent.
LEMMA SendDeferredInv ==
    ASSUME Inv, SendDeferred
    PROVE  Inv'
<1>0. /\ asked \in 0..MaxCalls /\ deferred \in 0..MaxCalls /\ MaxCalls \in Nat /\ MaxEpoch \in Nat
      /\ nextId \in 1..(MaxCalls + 1) /\ nextId + deferred <= asked + 1
    BY BoundAssumption DEF Inv, TypeOK, ClientOK
<1>1. /\ end.client = "up" /\ deferred > 0 /\ deferred' = deferred - 1 /\ Send("range", 0)
      /\ UNCHANGED <<asked, cancelEpoch, reader, drops, toClient, host, refused, end>>
    BY DEF SendDeferred
<1>2. /\ nextId \in Id /\ nextId' + deferred' <= asked' + 1 /\ asked' \in 0..MaxCalls
      /\ deferred' \in 0..MaxCalls /\ cancelEpoch' \in 0..MaxEpoch
    <2>1. nextId' = nextId + 1 /\ cancelEpoch' \in 0..MaxEpoch
        BY <1>1 DEF Send, Inv, TypeOK
    <2> QED BY <1>0, <1>1, <2>1 DEF Id
<1>3. "range" \in AllKinds /\ 0 \in 0..MaxEpoch
    BY <1>0 DEF AllKinds
<1> QED BY <1>1, <1>2, <1>3, SendInv

\* The client stays in its loop and hears nothing.
LEMMA KeepsInv ==
    ASSUME Inv, end.client = "up", ClientStep, toClient' = toClient, reader' = reader,
           asked' = asked, deferred' = deferred, ~HostUp => toHost' = toHost,
           \A id \in Id : call'[id].state # call[id].state => call'[id].state \in {"pending", "left"},
           TypeOK', ToHostOK', KnownOK'
    PROVE  Inv'
<1>1. nextId' + deferred' <= asked' + 1
    BY DEF ClientStep, Inv, ClientOK
<1>2. ClientOK' /\ ToClientOK' /\ LiveOK' /\ ChunksOK' /\ ReadersOK'
    BY <1>1, StepKeeps
<1>3. HostOK'
    BY StepHost
<1>4. EndsOK'
    BY DEF Inv, EndsOK, HostUp, ClientStep
<1> QED BY <1>2, <1>3, <1>4 DEF Inv

\* A frame that is no request is sent, or lost when the host has gone.
LEMMA FrameSent ==
    ASSUME Inv, ClientStep, NEW type \in {"chunk", "final", "failed", "cancelled"}, NEW id \in Id,
           NEW n \in 0..Chunks, ToHost(type, id, n), call[id].state # "free",
           type \in {"chunk", "final", "failed"} => call[id].state = "sending",
           type \in {"final", "failed"} => call'[id].state # "sending",
           type = "cancelled" =>
              /\ n = 0 /\ call[id].kind \in {"range", "ensure"}
              /\ call[id].state \in {"pending", "stream"} /\ call'[id].state = "left"
    PROVE  ToHostOK' /\ KnownOK' /\ toHost' \in Seq(HostFrames) /\ (~HostUp => toHost' = toHost)
<1> DEFINE f == Msg(type, id, n)
<1>1. f \in HostFrames /\ f.type = type /\ f.id = id /\ f.n = n
    BY DEF Msg, HostFrames
<1>2. toHost' = IF HostUp THEN Append(toHost, f) ELSE toHost
    BY DEF ToHost
<1>3. toHost \in Seq(HostFrames)
    BY DEF Inv, TypeOK
<1> HIDE DEF f
<1>4. id < nextId /\ (call[id].state = "sending" => call[id].kind = "upload")
    <2>1. id \in Nat /\ nextId \in Nat
        BY FrameFields DEF Inv, Id
    <2> QED BY <2>1 DEF Inv, ClientOK
<1>5. CASE HostUp
    <2>1. toHost' = Append(toHost, f)
        BY <1>2, <1>5
    <2>2. toHost' \in Seq(HostFrames)
        BY <1>1, <1>3, <2>1, AppendFacts
    <2>3. ToHostOK' /\ KnownOK'
        BY <1>1, <1>4, <1>5, <2>1, StepSends
    <2> QED BY <1>5, <2>2, <2>3
<1>6. CASE ~HostUp
    <2>1. toHost' = toHost
        BY <1>2, <1>6
    <2> QED BY <1>3, <2>1, StepSilent
<1> QED BY <1>5, <1>6

\* The client hears that a reader was dropped.
LEMMA DroppedReaderInv ==
    ASSUME Inv, DroppedReader
    PROVE  Inv'
<1> DEFINE id == Head(drops)
<1>1. /\ end.client = "up" /\ drops # <<>> /\ drops' = Tail(drops)
      /\ UNCHANGED <<asked, nextId, cancelEpoch, upOrder, reader, toClient, refused, end, deferred, host>>
      /\ IF call[id].state = "stream"
         THEN SetCall(id, "left", "stream") /\ ToHost("cancelled", id, 0)
         ELSE UNCHANGED <<call, toHost>>
    BY DEF DroppedReader, Drained, Stay
<1>2. id \in Id /\ drops' \in Seq(Id)
    BY <1>1, TailFacts DEF Inv, TypeOK
<1> HIDE DEF id
<1>3. CASE call[id].state = "stream"
    <2>1. SetCall(id, "left", "stream") /\ ToHost("cancelled", id, 0)
        BY <1>1, <1>3
    <2>2. /\ call' \in [Id -> Calls] /\ call'[id].state = "left"
          /\ \A i \in Id : i # id => call'[i] = call[i]
          /\ \A i \in Id : call'[i].kind = call[i].kind
        BY <1>2, <2>1, SetCallFacts DEF Inv
    <2>3. ClientStep
        BY <1>1, <1>3, <2>2 DEF ClientStep, Moves
    <2>4. call[id].kind \in {"range", "ensure"} /\ 0 \in 0..Chunks
        BY <1>2, <1>3, BoundAssumption DEF Inv, ClientOK
    <2>5. ToHostOK' /\ KnownOK' /\ toHost' \in Seq(HostFrames) /\ (~HostUp => toHost' = toHost)
        BY <1>2, <1>3, <2>1, <2>2, <2>3, <2>4, FrameSent
    <2>6. {i \in Id : call'[i].state = "sending"} = {i \in Id : call[i].state = "sending"}
        BY <1>3, <2>2
    <2>7. TypeOK'
        BY <1>1, <1>2, <2>2, <2>5, <2>6 DEF Inv, TypeOK
    <2>8. \A i \in Id : call'[i].state # call[i].state => call'[i].state \in {"pending", "left"}
        BY <2>2
    <2> QED BY <1>1, <2>3, <2>5, <2>7, <2>8, KeepsInv
<1>4. CASE call[id].state # "stream"
    <2>1. call' = call /\ toHost' = toHost
        BY <1>1, <1>4
    <2>2. ClientStep
        BY <1>1, <2>1 DEF ClientStep, Moves
    <2>3. ToHostOK' /\ KnownOK'
        BY <2>1, <2>2, StepSilent
    <2>4. TypeOK'
        BY <1>1, <1>2, <2>1 DEF Inv, TypeOK
    <2> QED BY <1>1, <2>1, <2>2, <2>3, <2>4, KeepsInv
<1> QED BY <1>3, <1>4

\* A request runs into its deadline.
LEMMA TimeoutScanInv ==
    ASSUME Inv, NEW id \in Id, TimeoutScan(id)
    PROVE  Inv'
<1>1. /\ end.client = "up" /\ call[id].state = "pending" /\ SetCall(id, "left", "error")
      /\ UNCHANGED <<asked, nextId, cancelEpoch, upOrder, reader, drops, toClient, refused, end, deferred, host>>
      /\ IF call[id].kind = "ensure" THEN ToHost("cancelled", id, 0) ELSE UNCHANGED toHost
    BY DEF TimeoutScan, Drained, Stay
<1>2. /\ call' \in [Id -> Calls] /\ call'[id].state = "left"
      /\ \A i \in Id : i # id => call'[i] = call[i]
      /\ \A i \in Id : call'[i].kind = call[i].kind
    BY <1>1, SetCallFacts DEF Inv
<1>3. ClientStep
    BY <1>1, <1>2 DEF ClientStep, Moves
<1>4. ToHostOK' /\ KnownOK' /\ toHost' \in Seq(HostFrames) /\ (~HostUp => toHost' = toHost)
    <2>1. CASE call[id].kind = "ensure"
        <3>1. ToHost("cancelled", id, 0) /\ 0 \in 0..Chunks
            BY <1>1, <2>1, BoundAssumption
        <3> QED BY <1>1, <1>2, <1>3, <2>1, <3>1, FrameSent
    <2>2. CASE call[id].kind # "ensure"
        <3>1. toHost' = toHost
            BY <1>1, <2>2
        <3>2. toHost' \in Seq(HostFrames)
            BY <3>1 DEF Inv, TypeOK
        <3> QED BY <1>3, <3>1, <3>2, StepSilent
    <2> QED BY <2>1, <2>2
<1>5. {i \in Id : call'[i].state = "sending"} = {i \in Id : call[i].state = "sending"}
    BY <1>1, <1>2
<1>6. TypeOK'
    BY <1>1, <1>2, <1>4, <1>5 DEF Inv, TypeOK
<1>7. \A i \in Id : call'[i].state # call[i].state => call'[i].state \in {"pending", "left"}
    BY <1>2
<1> QED BY <1>1, <1>3, <1>4, <1>6, <1>7, KeepsInv

\* An upload has its turn.
LEMMA OutgoingInv ==
    ASSUME Inv, send_next_outgoing_stream_chunk
    PROVE  Inv'
<1> DEFINE id == Head(upOrder)
           sends == ToHost("chunk", id, call[id].sent + 1)
<1>1. /\ end.client = "up" /\ upOrder # <<>>
      /\ UNCHANGED <<asked, nextId, cancelEpoch, reader, refused>>
    BY DEF send_next_outgoing_stream_chunk, Drained
<1>2. /\ upOrder \in Seq(Id) /\ IsInjective(upOrder) /\ call \in [Id -> Calls]
      /\ ToSet(upOrder) = {i \in Id : call[i].state = "sending"}
    BY DEF Inv, TypeOK
<1>3. /\ id \in Id /\ id \in ToSet(upOrder) /\ Tail(upOrder) \in Seq(Id) /\ IsInjective(Tail(upOrder))
      /\ ToSet(Tail(upOrder)) = ToSet(upOrder) \ {id}
    BY <1>1, <1>2, TailFacts, TurnFacts
<1>4. /\ Append(Tail(upOrder), id) \in Seq(Id) /\ IsInjective(Append(Tail(upOrder), id))
      /\ ToSet(Append(Tail(upOrder), id)) = ToSet(upOrder)
    BY <1>1, <1>2, RotateFacts
<1>5. call[id] \in Calls /\ call[id].state = "sending" /\ call[id].sent \in 0..Chunks /\ Chunks \in Nat
    BY <1>2, <1>3, CallFields, BoundAssumption DEF Inv
<1>6. \/ /\ call[id].sent < Chunks /\ call' = [call EXCEPT ![id].sent = @ + 1]
         /\ sends /\ upOrder' = Append(Tail(upOrder), id) /\ Sent
      \/ /\ call' = [call EXCEPT ![id].state = "pending"] /\ ToHost("final", id, 0)
         /\ upOrder' = Tail(upOrder) /\ Sent
      \/ /\ SetCall(id, "left", "error") /\ ToHost("failed", id, 0)
         /\ upOrder' = Tail(upOrder) /\ Sent
      \/ Leave("streamTimeout", call)
    BY DEF send_next_outgoing_stream_chunk
<1> HIDE DEF id, sends
<1>7. ASSUME Sent PROVE UNCHANGED <<drops, toClient, end, deferred, host>>
    BY <1>7 DEF Sent, Stay
<1>8. CASE /\ call[id].sent < Chunks /\ call' = [call EXCEPT ![id].sent = @ + 1]
           /\ sends /\ upOrder' = Append(Tail(upOrder), id) /\ Sent
    <2>1. /\ call' \in [Id -> Calls]
          /\ \A i \in Id : call'[i].kind = call[i].kind /\ call'[i].state = call[i].state
        <3>1. call[id].sent + 1 \in 0..Chunks
            BY <1>5, <1>8
        <3> QED BY <1>2, <1>3, <1>8, <3>1, ZenonT(60) DEF Calls
    <2>2. ClientStep
        BY <1>1, <1>7, <1>8, <2>1 DEF ClientStep, Moves
    <2>3. ToHost("chunk", id, call[id].sent + 1) /\ call[id].sent + 1 \in 0..Chunks
        BY <1>5, <1>8 DEF sends
    <2>4. ToHostOK' /\ KnownOK' /\ toHost' \in Seq(HostFrames) /\ (~HostUp => toHost' = toHost)
        BY <1>3, <1>5, <2>2, <2>3, FrameSent
    <2>5. {i \in Id : call'[i].state = "sending"} = {i \in Id : call[i].state = "sending"}
        BY <2>1
    <2>6. upOrder' \in Seq(Id) /\ IsInjective(upOrder') /\ ToSet(upOrder') = {i \in Id : call'[i].state = "sending"}
        BY <1>2, <1>4, <1>8, <2>5
    <2>7. TypeOK'
        BY <1>1, <1>7, <1>8, <2>1, <2>4, <2>6 DEF Inv, TypeOK
    <2> QED BY <1>1, <1>7, <1>8, <2>1, <2>2, <2>4, <2>7, KeepsInv
<1>9. CASE /\ call' = [call EXCEPT ![id].state = "pending"] /\ ToHost("final", id, 0)
           /\ upOrder' = Tail(upOrder) /\ Sent
    <2>1. /\ call' \in [Id -> Calls] /\ call'[id].state = "pending"
          /\ \A i \in Id : i # id => call'[i] = call[i]
          /\ \A i \in Id : call'[i].kind = call[i].kind
        BY <1>2, <1>3, <1>9, ZenonT(60) DEF Calls
    <2>2. ClientStep
        BY <1>1, <1>5, <1>7, <1>9, <2>1 DEF ClientStep, Moves
    <2>3. ToHostOK' /\ KnownOK' /\ toHost' \in Seq(HostFrames) /\ (~HostUp => toHost' = toHost)
        <3>1. 0 \in 0..Chunks
            BY <1>5
        <3> QED BY <1>3, <1>5, <1>9, <2>1, <2>2, <3>1, FrameSent
    <2>4. upOrder' \in Seq(Id) /\ IsInjective(upOrder') /\ ToSet(upOrder') = {i \in Id : call'[i].state = "sending"}
        BY <1>2, <1>3, <1>9, <2>1
    <2>5. TypeOK'
        BY <1>1, <1>7, <1>9, <2>1, <2>3, <2>4 DEF Inv, TypeOK
    <2>6. \A i \in Id : call'[i].state # call[i].state => call'[i].state \in {"pending", "left"}
        BY <2>1
    <2> QED BY <1>1, <1>7, <1>9, <2>2, <2>3, <2>5, <2>6, KeepsInv
<1>10. CASE /\ SetCall(id, "left", "error") /\ ToHost("failed", id, 0)
            /\ upOrder' = Tail(upOrder) /\ Sent
    <2>1. /\ call' \in [Id -> Calls] /\ call'[id].state = "left"
          /\ \A i \in Id : i # id => call'[i] = call[i]
          /\ \A i \in Id : call'[i].kind = call[i].kind
        BY <1>3, <1>10, SetCallFacts DEF Inv
    <2>2. ClientStep
        BY <1>1, <1>5, <1>7, <1>10, <2>1 DEF ClientStep, Moves
    <2>3. ToHostOK' /\ KnownOK' /\ toHost' \in Seq(HostFrames) /\ (~HostUp => toHost' = toHost)
        <3>1. 0 \in 0..Chunks
            BY <1>5
        <3> QED BY <1>3, <1>5, <1>10, <2>1, <2>2, <3>1, FrameSent
    <2>4. upOrder' \in Seq(Id) /\ IsInjective(upOrder') /\ ToSet(upOrder') = {i \in Id : call'[i].state = "sending"}
        BY <1>2, <1>3, <1>10, <2>1
    <2>5. TypeOK'
        BY <1>1, <1>7, <1>10, <2>1, <2>3, <2>4 DEF Inv, TypeOK
    <2>6. \A i \in Id : call'[i].state # call[i].state => call'[i].state \in {"pending", "left"}
        BY <2>1
    <2> QED BY <1>1, <1>7, <1>10, <2>2, <2>3, <2>5, <2>6, KeepsInv
<1>11. CASE Leave("streamTimeout", call)
    <2>1. \A i \in Id : Moves(call[i].state, call[i].state)
        BY DEF Moves
    <2> QED BY <1>1, <1>2, <1>11, <2>1, LeaveInv
<1> QED BY <1>6, <1>8, <1>9, <1>10, <1>11

\* The client loses the connection.
LEMMA ClientLostInv ==
    ASSUME Inv, ClientLost
    PROVE  Inv'
<1>1. Leave("link", call) /\ UNCHANGED <<asked, nextId, cancelEpoch, reader, refused>>
    BY DEF ClientLost
<1>2. call \in [Id -> Calls] /\ \A i \in Id : Moves(call[i].state, call[i].state)
    BY DEF Inv, TypeOK, Moves
<1> QED BY <1>1, <1>2, LeaveInv

(***************************************************************************)
(* The callers' readers.                                                    *)
(***************************************************************************)
\* Nothing but one reader changes.
LEMMA ReaderStep ==
    ASSUME Inv, NEW id \in Id, reader[id].state # "none",
           UNCHANGED <<asked, deferred, nextId, cancelEpoch, call, upOrder, toHost, toClient, host, refused, end>>,
           \A i \in Id : i # id => reader'[i] = reader[i],
           Following(id)' => Following(id) /\ Rcvd(id)' = Rcvd(id),
           TypeOK', ReadersOK'
    PROVE  Inv'
<1>1. /\ HostUp' <=> HostUp
      /\ \A i : Live(i)' <=> Live(i)
      /\ \A i : Heard(i)' <=> Heard(i)
      /\ \A i : Told(i)' <=> Told(i)
    BY DEF HostUp, Live, Heard, Told
<1>2. EndsOK' /\ HostOK' /\ ToHostOK'
    BY <1>1 DEF Inv, EndsOK, HostOK, ToHostOK
<1>3. KnownOK' /\ ToClientOK' /\ LiveOK'
    BY <1>1 DEF Inv, KnownOK, ToClientOK, LiveOK
<1>4. ClientOK'
    <2>1. call[id].state \notin {"free", "sending", "pending"}
        BY DEF Inv, ClientOK, NoReader
    <2> QED BY <2>1 DEF Inv, ClientOK
<1>5. ChunksOK'
    <2>1. \A i \in Id : Following(i)' => Following(i) /\ Rcvd(i)' = Rcvd(i)
        BY DEF Following, Rcvd
    <2>2. ASSUME NEW i \in Id, Following(i)', NEW n, UnderWay(i, n) PROVE UnderWay(i, n)'
        BY <2>1, <2>2 DEF UnderWay
    <2>3. \A f \in ToSet(toClient) : f.id \in Id
        BY FrameFields DEF Inv
    <2>4. ASSUME NEW f \in ToSet(toClient)
          PROVE  /\ f.type = "chunk" => f.n >= 1
                 /\ f.type = "chunk" /\ f.id \in host.streams => f.n <= host.sent[f.id]
                 /\ Following(f.id)' => /\ f.type = "chunk" => f.n > Rcvd(f.id)' /\ UnderWay(f.id, f.n)'
                                        /\ f.type = "final" => UnderWay(f.id, Chunks)'
        BY <2>1, <2>2, <2>3 DEF Inv, ChunksOK
    <2>5. ASSUME NEW i \in Id, Following(i)'
          PROVE  /\ Rcvd(i)' <= Chunks
                 /\ i \in host.streams => Rcvd(i)' <= host.sent[i] /\ UnderWay(i, host.sent[i])'
        BY <2>1, <2>2, <2>5 DEF Inv, ChunksOK
    <2> QED BY <2>4, <2>5 DEF ChunksOK, UnderWay
<1> QED BY <1>2, <1>3, <1>4, <1>5 DEF Inv

\* A caller drops its reader.
LEMMA DropReaderInv ==
    ASSUME Inv, NEW id \in Id, DropReader(id)
    PROVE  Inv'
<1>1. /\ reader[id].state \in {"open", "eof", "failed"}
      /\ reader' = [reader EXCEPT ![id].state = "gone", ![id].buf = <<>>, ![id].got = <<>>]
      /\ drops' = IF end.client = "up" THEN Append(drops, id) ELSE drops
      /\ UNCHANGED <<asked, deferred, nextId, cancelEpoch, call, upOrder, toHost, toClient, host, refused, end>>
    BY DEF DropReader, DropMessage
<1>2. reader \in [Id -> Readings] /\ drops \in Seq(Id)
    BY DEF Inv, TypeOK
<1>3. \A S : <<>> \in Seq(S) /\ Len(<<>>) = 0
    BY EmptyFacts
<1> DEFINE r == [reader[id] EXCEPT !.state = "gone", !.buf = <<>>, !.got = <<>>]
<1>4. reader' = [reader EXCEPT ![id] = r]
    BY <1>1, <1>2
<1>5. r \in Readings /\ r.state = "gone" /\ r.buf = <<>>
    <2>1. reader[id] \in Readings /\ <<>> \in Seq(ClientFrames) /\ <<>> \in Seq(0..Chunks)
        BY <1>2, <1>3
    <2> QED BY <2>1 DEF Readings
<1> HIDE DEF r
<1>6. /\ reader' \in [Id -> Readings] /\ reader'[id].state = "gone" /\ reader'[id].buf = <<>>
      /\ \A i \in Id : i # id => reader'[i] = reader[i]
    BY <1>2, <1>4, <1>5
<1>7. TypeOK'
    <2>1. drops' \in Seq(Id)
        BY <1>1, <1>2, AppendFacts
    <2>2. \A i \in Id : Len(reader'[i].buf) <= RESPONSE_STREAM_CHANNEL_CAPACITY
        <3>1. Len(reader'[id].buf) <= RESPONSE_STREAM_CHANNEL_CAPACITY
            BY <1>3, <1>6, BoundAssumption
        <3> QED BY <1>6, <3>1 DEF Inv, TypeOK
    <2> QED BY <1>1, <1>6, <2>1, <2>2 DEF Inv, TypeOK
<1>8. ReadersOK'
    BY <1>1, <1>6 DEF Inv, ReadersOK
<1>9. ~Following(id)'
    BY <1>6 DEF Following
<1> QED BY <1>1, <1>6, <1>7, <1>8, <1>9, ReaderStep

\* Moving one from the second count to the first.
LEMMA ShiftFacts ==
    ASSUME NEW a \in Nat, NEW b \in Nat
    PROVE  /\ a + (b + 1) = (a + 1) + b
           /\ b # 0 => (a + 1) + (b - 1) = a + b
OBVIOUS

\* A caller reads.
LEMMA ReadInv ==
    ASSUME Inv, NEW id \in Id, Read(id)
    PROVE  Inv'
<1> DEFINE r == reader[id]
           item == Head(r.buf)
           rest == [r EXCEPT !.buf = Tail(@)]
<1>1. /\ r.state = "open"
      /\ UNCHANGED <<asked, deferred, nextId, cancelEpoch, call, upOrder, drops, toHost, toClient,
                     host, refused, end>>
      /\ \/ /\ r.buf # <<>>
            /\ reader' = [reader EXCEPT ![id] =
                             CASE item.type = "final" -> [rest EXCEPT !.state = "eof"]
                               [] item.type = "failed" -> [rest EXCEPT !.state = "failed"]
                               [] OTHER -> [rest EXCEPT !.got = Append(@, item.n)]]
         \/ r.buf = <<>> /\ reader' = [reader EXCEPT ![id].state = "failed"]
    BY DEF Read
<1>2. /\ reader \in [Id -> Readings] /\ r \in Readings /\ r.buf \in Seq(ClientFrames)
      /\ r.got \in Seq(0..Chunks) /\ ReaderOK(r) /\ Len(r.buf) <= RESPONSE_STREAM_CHANNEL_CAPACITY
    BY <1>1, CallFields DEF Inv, TypeOK, ReadersOK
<1>3. /\ Len(r.got) \in Nat /\ Len(r.buf) \in Nat /\ RESPONSE_STREAM_CHANNEL_CAPACITY \in Nat
      /\ Chunks \in Nat
    BY <1>2, SetFacts, BoundAssumption
<1>4. call[id].state \in {"stream", "over", "left"}
    BY <1>1 DEF Inv, ReadersOK
<1>5. ASSUME NEW q \in Readings, reader' = [reader EXCEPT ![id] = q],
             Len(q.buf) <= RESPONSE_STREAM_CHANNEL_CAPACITY,
             \/ q.state = "failed"
             \/ q.state = "eof" /\ q.got = [i \in 1..Chunks |-> i]
             \/ /\ q.state = "open" /\ ReaderOK(q) /\ Len(q.got) + Len(q.buf) = Len(r.got) + Len(r.buf)
                /\ call[id].state = "stream" => \A i \in 1..Len(q.buf) : q.buf[i].type = "chunk"
      PROVE  Inv'
    <2>1. /\ reader' \in [Id -> Readings] /\ reader'[id] = q
          /\ \A i \in Id : i # id => reader'[i] = reader[i]
        BY <1>2, <1>5
    <2>2. TypeOK'
        <3>1. \A i \in Id : Len(reader'[i].buf) <= RESPONSE_STREAM_CHANNEL_CAPACITY
            BY <1>5, <2>1 DEF Inv, TypeOK
        <3> QED BY <1>1, <2>1, <3>1 DEF Inv, TypeOK
    <2>3. ReadersOK'
        BY <1>1, <1>4, <1>5, <2>1 DEF Inv, ReadersOK
    <2>4. ASSUME Following(id)' PROVE Following(id) /\ Rcvd(id)' = Rcvd(id)
        <3>1. q.state \in {"none", "open"}
            BY <2>1, <2>4 DEF Following
        <3>2. q.state = "open" /\ Len(q.got) + Len(q.buf) = Len(r.got) + Len(r.buf)
            BY <1>5, <3>1
        <3> QED BY <1>1, <2>1, <2>4, <3>2 DEF Following, Rcvd
    <2> QED BY <1>1, <2>1, <2>2, <2>3, <2>4, ReaderStep
<1>6. CASE r.buf = <<>> /\ reader' = [reader EXCEPT ![id].state = "failed"]
    <2> DEFINE q == [r EXCEPT !.state = "failed"]
    <2>1. reader' = [reader EXCEPT ![id] = q]
        BY <1>2, <1>6
    <2>2. q \in Readings /\ q.state = "failed" /\ q.buf = r.buf
        BY <1>2 DEF Readings
    <2> HIDE DEF q
    <2> QED BY <1>2, <1>5, <2>1, <2>2
<1>7. CASE r.buf # <<>>
    <2> DEFINE b == Tail(r.buf)
    <2>1. /\ item \in ClientFrames /\ b \in Seq(ClientFrames) /\ Len(b) = Len(r.buf) - 1
          /\ r.buf[1] = item /\ Len(r.buf) \in Nat \ {0}
        BY <1>2, <1>7, TailFacts
    <2>2. \A i \in 1..Len(b) : b[i] = r.buf[i + 1] /\ i + 1 \in 1..Len(r.buf)
        BY <1>2, <1>7, <2>1, TailFacts
    <2>3. /\ item.type \in {"chunk", "final", "failed"} /\ item.n \in 0..Chunks
          /\ item.type = "chunk" => item.n = Len(r.got) + 1
          /\ item.type = "final" => Len(r.got) + 1 = Chunks + 1
        <3>1. 1 \in 1..Len(r.buf)
            BY <2>1
        <3>2. item.n \in 0..Chunks
            BY <2>1, FrameFields DEF Inv
        <3> QED BY <1>2, <2>1, <3>1, <3>2 DEF ReaderOK
    <2>4. rest \in Readings /\ rest.buf = b /\ rest.state = "open" /\ rest.got = r.got
        BY <1>1, <1>2, <2>1 DEF Readings
    <2>5. Len(b) <= RESPONSE_STREAM_CHANNEL_CAPACITY
        BY <1>2, <1>3, <2>1
    <2>6. reader' = [reader EXCEPT ![id] =
                             CASE item.type = "final" -> [rest EXCEPT !.state = "eof"]
                               [] item.type = "failed" -> [rest EXCEPT !.state = "failed"]
                               [] OTHER -> [rest EXCEPT !.got = Append(@, item.n)]]
        BY <1>1, <1>7
    <2> HIDE DEF rest, b, item
    <2>7. CASE item.type = "failed"
        <3> DEFINE q == [rest EXCEPT !.state = "failed"]
        <3>1. reader' = [reader EXCEPT ![id] = q]
            BY <2>6, <2>7
        <3>2. q \in Readings /\ q.state = "failed" /\ q.buf = b
            BY <2>4 DEF Readings
        <3> HIDE DEF q
        <3> QED BY <1>5, <2>5, <3>1, <3>2
    <2>8. CASE item.type = "final"
        <3> DEFINE q == [rest EXCEPT !.state = "eof"]
        <3>1. reader' = [reader EXCEPT ![id] = q]
            BY <2>6, <2>8
        <3>2. q \in Readings /\ q.state = "eof" /\ q.buf = b /\ q.got = r.got
            BY <2>4 DEF Readings
        <3>3. r.got = [i \in 1..Chunks |-> i]
            <4>1. Len(r.got) = Chunks
                BY <1>3, <2>3, <2>8
            <4>2. \A i \in 1..Chunks : r.got[i] = i
                BY <1>2, <4>1 DEF ReaderOK
            <4>3. r.got = [i \in 1..Len(r.got) |-> r.got[i]]
                BY <1>2, LenProperties
            <4> QED BY <4>1, <4>2, <4>3
        <3> HIDE DEF q
        <3> QED BY <1>5, <2>5, <3>1, <3>2, <3>3
    <2>9. CASE item.type = "chunk"
        <3> DEFINE g == Append(r.got, item.n)
                   q == [rest EXCEPT !.got = g]
        <3>1. reader' = [reader EXCEPT ![id] = q]
            BY <2>4, <2>6, <2>9
        <3>2. /\ g \in Seq(0..Chunks) /\ Len(g) = Len(r.got) + 1 /\ g[Len(r.got) + 1] = item.n
              /\ \A i \in 1..Len(r.got) : g[i] = r.got[i]
            BY <1>2, <2>3, AppendFacts
        <3> HIDE DEF g
        <3>3. q \in Readings /\ q.state = "open" /\ q.buf = b /\ q.got = g
            BY <2>4, <3>2 DEF Readings
        <3> HIDE DEF q
        <3>4. ReaderOK(q)
            <4>1. ASSUME NEW i \in 1..Len(g) PROVE g[i] = i
                <5>1. CASE i = Len(r.got) + 1
                    BY <2>3, <2>9, <3>2, <5>1
                <5>2. CASE i # Len(r.got) + 1
                    <6>1. i \in 1..Len(r.got)
                        BY <1>3, <3>2, <5>2
                    <6> QED BY <1>2, <3>2, <6>1 DEF ReaderOK
                <5> QED BY <5>1, <5>2
            <4>2. ASSUME NEW i \in 1..Len(b)
                  PROVE  /\ b[i].type \in {"chunk", "final", "failed"}
                         /\ b[i].type = "chunk" => b[i].n = Len(g) + i
                         /\ b[i].type = "final" => Len(g) + i = Chunks + 1
                <5>1. /\ r.buf[i + 1].type \in {"chunk", "final", "failed"}
                      /\ r.buf[i + 1].type = "chunk" => r.buf[i + 1].n = Len(r.got) + (i + 1)
                      /\ r.buf[i + 1].type = "final" => Len(r.got) + (i + 1) = Chunks + 1
                    BY <1>2, <2>2 DEF ReaderOK
                <5>2. Len(r.got) + (i + 1) = Len(g) + i
                    <6>1. i \in Nat
                        BY <2>1
                    <6>2. Len(r.got) + (i + 1) = (Len(r.got) + 1) + i
                        BY <1>3, <6>1, ShiftFacts
                    <6>3. Len(g) = Len(r.got) + 1
                        BY <3>2
                    <6> QED BY <6>2, <6>3, Zenon
                <5> QED BY <2>2, <5>1, <5>2
            <4> QED BY <3>3, <4>1, <4>2 DEF ReaderOK
        <3>5. Len(g) + Len(b) = Len(r.got) + Len(r.buf)
            <4>1. (Len(r.got) + 1) + (Len(r.buf) - 1) = Len(r.got) + Len(r.buf)
                BY <1>3, <2>1, ShiftFacts
            <4> QED BY <2>1, <3>2, <4>1
        <3>6. ASSUME call[id].state = "stream", NEW i \in 1..Len(b) PROVE b[i].type = "chunk"
            BY <1>1, <2>2, <3>6, ZenonT(60) DEF Inv, ReadersOK
        <3> QED BY <1>5, <2>5, <3>1, <3>3, <3>4, <3>5, <3>6
    <2> QED BY <2>3, <2>7, <2>8, <2>9
<1> QED BY <1>1, <1>6, <1>7

(***************************************************************************)
(* Steps of the host.                                                       *)
(***************************************************************************)
\* What the host sends is the set T of frames.
HostSends(T) ==
    /\ HostUp /\ end' = end /\ HostKeeps
    /\ toClient' \in Seq(ClientFrames) /\ T \subseteq ClientFrames
    /\ ToSet(toClient') = ToSet(toClient) \cup T

\* The frames on their way to the client, and who is waiting for what.
LEMMA HostSendsLive ==
    ASSUME Inv, NEW T, HostSends(T), ClientOrder(toClient'), host.last <= host'.last,
           \A id \in Id : Live(id)' => Live(id),
           \A id \in Id : id \in (host'.jobs \cap host'.contexts) \cup {host'.upload} =>
              /\ id \in (host.jobs \cap host.contexts) \cup {host.upload} \/ id > host.last
              /\ \A f \in T : f.id # id,
           \A id \in host'.streams : id \in host.streams \/ Msg("meta", id, 0) \in T,
           host'.last \in Nat, host'.streams \subseteq Id,
           \A f \in T : /\ f.id < nextId /\ f.id <= host'.last /\ Live(f.id)
                        /\ f.type = "meta" => f.n = 0 /\ call[f.id].kind \in {"range", "ensure"}
                        /\ f.type \in {"ok", "error", "final", "failed"} => ~Live(f.id)'
                        /\ f.type \in {"chunk", "final", "failed"} => f.id \in host.streams
                        /\ call[f.id].state = "stream" => f.type \notin {"ok", "error", "meta"}
    PROVE  ToClientOK' /\ LiveOK'
<1>1. /\ call' = call /\ nextId' = nextId /\ HostUp /\ HostUp'
      /\ ToSet(toClient') = ToSet(toClient) \cup T
    BY DEF HostSends, HostKeeps, HostUp
<1>2. \A f \in ToSet(toClient') : f.id \in Id
    BY FrameFields DEF HostSends, Inv
<1>3. host.last \in Nat /\ \A f \in ToSet(toClient) : f.id \in Nat /\ f.id <= host.last
    BY <1>1, FrameFields DEF Inv, ToClientOK, Id
<1>4. ToClientOK'
    <2>1. ASSUME NEW g \in ToSet(toClient)
          PROVE  /\ g.id < nextId /\ g.id <= host'.last
                 /\ call[g.id].state # "over"
                 /\ g.type = "meta" => g.n = 0 /\ call[g.id].kind \in {"range", "ensure"}
                 /\ g.type \in {"ok", "error", "final", "failed"} => ~Live(g.id)'
                 /\ g.type \in {"chunk", "final", "failed"} =>
                       \/ call[g.id].state \in {"stream", "left"}
                       \/ Msg("meta", g.id, 0) \in ToSet(toClient')
                 /\ call[g.id].state = "stream" => g.type \notin {"ok", "error", "meta"}
        <3>1. g.id \in Id /\ g.id <= host'.last
            BY <1>1, <1>2, <1>3
        <3> QED BY <1>1, <3>1 DEF Inv, ToClientOK
    <2>2. ASSUME NEW g \in T
          PROVE  /\ g.id < nextId /\ g.id <= host'.last
                 /\ call[g.id].state # "over"
                 /\ g.type = "meta" => g.n = 0 /\ call[g.id].kind \in {"range", "ensure"}
                 /\ g.type \in {"ok", "error", "final", "failed"} => ~Live(g.id)'
                 /\ g.type \in {"chunk", "final", "failed"} =>
                       \/ call[g.id].state \in {"stream", "left"}
                       \/ Msg("meta", g.id, 0) \in ToSet(toClient')
                 /\ call[g.id].state = "stream" => g.type \notin {"ok", "error", "meta"}
        <3>1. g.id \in Id
            BY <1>1, <1>2
        <3> QED BY <1>1, <3>1 DEF Inv, LiveOK
    <2> QED BY <1>1, <2>1, <2>2 DEF ToClientOK
<1>5. LiveOK'
    <2> SUFFICES ASSUME NEW id \in Id
                 PROVE  /\ call[id].state = "over" => ~Live(id)'
                        /\ id \in (host'.jobs \cap host'.contexts) \cup {host'.upload} =>
                              ~Heard(id)' /\ call[id].state # "stream"
                        /\ call[id].state = "stream" => id <= host'.last
                        /\ id \in host'.streams => \/ call[id].state \in {"stream", "left"}
                                                   \/ Msg("meta", id, 0) \in ToSet(toClient')
        BY <1>1 DEF LiveOK
    <2>0. id \in Nat
        BY DEF Id
    <2>1. call[id].state = "over" => ~Live(id)'
        BY DEF Inv, LiveOK
    <2>2. call[id].state = "stream" => id <= host.last
        BY <1>1 DEF Inv, LiveOK
    <2>3. ASSUME id \in (host'.jobs \cap host'.contexts) \cup {host'.upload}
          PROVE  ~Heard(id)' /\ call[id].state # "stream"
        <3>1. \A f \in T : f.id # id
            BY <2>3
        <3>2. CASE id \in (host.jobs \cap host.contexts) \cup {host.upload}
            <4>1. ~Heard(id) /\ call[id].state # "stream"
                BY <3>2 DEF Inv, LiveOK
            <4> QED BY <1>1, <3>1, <4>1 DEF Heard
        <3>3. CASE id > host.last
            <4>1. \A f \in ToSet(toClient) : f.id # id
                BY <1>3, <2>0, <3>3
            <4>2. call[id].state # "stream"
                BY <1>3, <2>0, <2>2, <3>3
            <4> QED BY <1>1, <3>1, <4>1, <4>2 DEF Heard
        <3> QED BY <2>3, <3>2, <3>3
    <2>4. id \in host'.streams => \/ call[id].state \in {"stream", "left"}
                                  \/ Msg("meta", id, 0) \in ToSet(toClient')
        BY <1>1 DEF Inv, LiveOK
    <2>5. call[id].state = "stream" => id <= host'.last
        BY <1>3, <2>0, <2>2
    <2> QED BY <2>1, <2>3, <2>4, <2>5
<1> QED BY <1>4, <1>5

\* The chunks of the streams.
LEMMA HostSendsChunks ==
    ASSUME Inv, NEW T, HostSends(T), host'.streams \subseteq Id,
           \A id \in host'.streams :
              \/ id \in host.streams /\ host'.sent[id] = host.sent[id]
              \/ /\ id \in host.streams /\ host'.sent[id] = host.sent[id] + 1
                 /\ Chunk(id, host.sent[id] + 1) \in T
              \/ host'.sent[id] = 0 /\ ~Heard(id) /\ (Following(id) => Rcvd(id) = 0)
                 /\ \A f \in T : f.id = id => f.type = "meta",
           \A f \in T : /\ f.type = "chunk" => /\ f.id \in host.streams /\ f.n = host.sent[f.id] + 1
                                               /\ Chunk(f.id, f.n) \in T
                                               /\ host'.sent[f.id] = host.sent[f.id] + 1
                        /\ f.type = "final" => f.id \in host.streams /\ host.sent[f.id] = Chunks
    PROVE  ChunksOK'
<1>1. call' = call /\ reader' = reader /\ ToSet(toClient') = ToSet(toClient) \cup T
    BY DEF HostSends, HostKeeps
<1>2. \A id : (Following(id)' <=> Following(id)) /\ Rcvd(id)' = Rcvd(id)
    BY <1>1 DEF Following, Rcvd
<1>3. \A id, n : UnderWay(id, n) => UnderWay(id, n)'
    BY <1>1, <1>2 DEF UnderWay
<1>4. \A f \in ToSet(toClient') : f.id \in Id
    BY FrameFields DEF HostSends, Inv
<1>5. Chunks \in Nat /\ host.sent \in [Id -> 0..Chunks] /\ \A id \in Id : Rcvd(id) \in Nat
    BY FrameFields, RcvdFacts DEF Inv
<1>6. ASSUME NEW id \in Id, NEW n \in Nat, UnderWay(id, n), Chunk(id, n + 1) \in T
      PROVE  UnderWay(id, n + 1)'
    <2> SUFFICES ASSUME NEW m \in (Rcvd(id) + 1)..(n + 1) PROVE Chunk(id, m) \in ToSet(toClient')
        BY <1>2 DEF UnderWay
    <2>1. CASE m = n + 1
        BY <1>1, <1>6, <2>1
    <2>2. CASE m # n + 1
        <3>1. m \in (Rcvd(id) + 1)..n
            BY <1>5, <2>2
        <3> QED BY <1>1, <1>6, <3>1 DEF UnderWay
    <2> QED BY <2>1, <2>2
<1>7. ASSUME NEW g \in ToSet(toClient')
      PROVE  /\ g.type = "chunk" => g.n >= 1
             /\ g.type = "chunk" /\ g.id \in host'.streams => g.n <= host'.sent[g.id]
             /\ Following(g.id) => /\ g.type = "chunk" => g.n > Rcvd(g.id) /\ UnderWay(g.id, g.n)'
                                   /\ g.type = "final" => UnderWay(g.id, Chunks)'
    <2>1. CASE g \in ToSet(toClient)
        <3>1. /\ g.type = "chunk" => g.n >= 1
              /\ g.type = "chunk" /\ g.id \in host.streams => g.n <= host.sent[g.id]
              /\ Following(g.id) => /\ g.type = "chunk" => g.n > Rcvd(g.id) /\ UnderWay(g.id, g.n)
                                    /\ g.type = "final" => UnderWay(g.id, Chunks)
            BY <2>1 DEF Inv, ChunksOK
        <3>2. Heard(g.id)
            BY <2>1 DEF Heard
        <3>3. g.type = "chunk" /\ g.id \in host'.streams => g.n <= host'.sent[g.id]
            <4>1. g.n \in Nat /\ g.id \in Id
                BY <1>4, <2>1, FrameFields DEF Inv
            <4> QED BY <1>5, <3>1, <3>2, <4>1
        <3> QED BY <1>3, <3>1, <3>3
    <2>2. CASE g \in T
        <3>1. g.id \in Id
            BY <1>4
        <3>2. CASE g.type = "chunk"
            <4>1. /\ g.id \in host.streams /\ g.n = host.sent[g.id] + 1 /\ host.sent[g.id] \in Nat
                  /\ Chunk(g.id, host.sent[g.id] + 1) \in T /\ host'.sent[g.id] = g.n
                BY <1>5, <2>2, <3>1, <3>2
            <4>2. Following(g.id) => Rcvd(g.id) <= host.sent[g.id] /\ UnderWay(g.id, host.sent[g.id])
                BY <3>1, <4>1 DEF Inv, ChunksOK
            <4>3. Following(g.id) => UnderWay(g.id, g.n)'
                BY <1>6, <3>1, <4>1, <4>2
            <4>4. g.n >= 1 /\ g.n <= host'.sent[g.id] /\ (Following(g.id) => g.n > Rcvd(g.id))
                BY <1>5, <3>1, <4>1, <4>2
            <4> QED BY <3>2, <4>3, <4>4
        <3>3. CASE g.type = "final"
            <4>1. g.id \in host.streams /\ host.sent[g.id] = Chunks
                BY <2>2, <3>3
            <4>2. Following(g.id) => UnderWay(g.id, Chunks)
                BY <3>1, <4>1 DEF Inv, ChunksOK
            <4> QED BY <1>3, <3>3, <4>2
        <3> QED BY <3>2, <3>3
    <2> QED BY <1>1, <2>1, <2>2
<1>8. ASSUME NEW id \in Id, Following(id)
      PROVE  /\ Rcvd(id) <= Chunks
             /\ id \in host'.streams =>
                   \A n : n = host'.sent[id] => Rcvd(id) <= n /\ UnderWay(id, n)'
    <2>0. Rcvd(id) <= Chunks /\ Rcvd(id) \in Nat
        BY <1>5, <1>8 DEF Inv, ChunksOK
    <2> SUFFICES ASSUME id \in host'.streams, NEW n, n = host'.sent[id]
                 PROVE  Rcvd(id) <= n /\ UnderWay(id, n)'
        BY <2>0
    <2>1. CASE id \in host.streams /\ n = host.sent[id]
        <3>1. Rcvd(id) <= n /\ UnderWay(id, n)
            BY <1>8, <2>1 DEF Inv, ChunksOK
        <3> QED BY <1>3, <3>1
    <2>2. CASE id \in host.streams /\ n = host.sent[id] + 1 /\ Chunk(id, host.sent[id] + 1) \in T
        <3> DEFINE m == host.sent[id]
        <3>1. Rcvd(id) <= m /\ UnderWay(id, m) /\ m \in Nat
            BY <1>5, <1>8, <2>2 DEF Inv, ChunksOK
        <3>2. PICK k \in Nat : k = m
            BY <3>1
        <3>3. UnderWay(id, k + 1)' /\ n = k + 1
            BY <1>6, <2>2, <3>1, <3>2
        <3>4. Rcvd(id) <= n
            BY <2>0, <3>1, <3>2, <3>3
        <3> QED BY <3>3, <3>4
    <2>3. CASE n = 0 /\ Rcvd(id) = 0
        <3>1. (Rcvd(id)' + 1)..n = {}
            BY <1>2, <2>3
        <3> QED BY <2>3, <3>1 DEF UnderWay
    <2> QED BY <1>8, <2>1, <2>2, <2>3
<1> QED BY <1>2, <1>7, <1>8 DEF ChunksOK, UnderWay

\* The parts put together.
LEMMA HostInv ==
    ASSUME Inv, NEW T, HostSends(T), Tables(host'), toHost' \in Seq(HostFrames), refused' \subseteq Id,
           HostOK', ToHostOK', KnownOK', ToClientOK', LiveOK', ChunksOK'
    PROVE  Inv'
<1>1. /\ HostUp /\ end' = end /\ toClient' \in Seq(ClientFrames)
      /\ UNCHANGED <<asked, deferred, nextId, cancelEpoch, call, upOrder, reader, drops>>
    BY DEF HostSends, HostKeeps
<1>2. TypeOK'
    BY <1>1 DEF Inv, TypeOK, Tables
<1>3. ClientOK' /\ ReadersOK'
    BY <1>1 DEF Inv, ClientOK, ReadersOK
<1>4. EndsOK'
    BY <1>1 DEF Inv, EndsOK, HostUp
<1> QED BY <1>2, <1>3, <1>4 DEF Inv

\* The host handles nothing: it forgets no upload and no derivative.
LEMMA HostSilent ==
    ASSUME Inv, HostUp, end' = end, HostKeeps, toHost' = toHost, refused' = refused,
           host'.last = host.last, host'.upload = host.upload,
           \A id \in Id : call[id].kind = "ensure" /\ id \in host.contexts \cup ToSet(host.recent) \cup host.forgotten =>
                            id \in host'.contexts \cup ToSet(host'.recent) \cup host'.forgotten
    PROVE  ToHostOK' /\ KnownOK'
<1>1. /\ call' = call /\ nextId' = nextId /\ (HostUp' <=> HostUp)
      /\ \A id : Told(id)' <=> Told(id)
    BY DEF HostKeeps, HostUp, Told
<1>2. 1..host.last \subseteq Id
    BY FrameFields DEF Inv, Id
<1>3. ToHostOK'
    BY <1>1 DEF Inv, ToHostOK
<1>4. KnownOK'
    BY <1>1, <1>2 DEF Inv, KnownOK
<1> QED BY <1>3, <1>4

\* The first frame for the host.
LEMMA HostHeadFacts ==
    ASSUME Inv, HostUp, toHost # <<>>, NEW f, f = Head(toHost)
    PROVE  /\ f \in HostFrames /\ f \in ToSet(toHost) /\ f.id \in Id /\ f.id < nextId
           /\ f.type \in {"request", "chunk", "final", "failed", "cancelled"}
           /\ Tail(toHost) \in Seq(HostFrames) /\ HostOrder(Tail(toHost))
           /\ ToSet(toHost) = {f} \cup ToSet(Tail(toHost))
           /\ \A g \in ToSet(Tail(toHost)) : /\ g.type = "request" => f.id < g.id
                                             /\ g.id = f.id => f.type \in {"request", "chunk"}
           /\ f.type # "request" => f.id <= host.last
           /\ f.type = "request" => f.id > host.last /\ \A id \in 1..f.id : id <= host.last \/ id = f.id
<1>1. toHost \in Seq(HostFrames) /\ HostOrder(toHost)
    BY DEF Inv, TypeOK, ToHostOK
<1>2. f \in HostFrames /\ Tail(toHost) \in Seq(HostFrames) /\ ToSet(toHost) = {f} \cup ToSet(Tail(toHost))
    BY <1>1, TailFacts
<1>3. /\ HostOrder(Tail(toHost))
      /\ \A g \in ToSet(Tail(toHost)) : /\ g.type = "request" => f.id < g.id
                                        /\ g.id = f.id => f.type \in {"request", "chunk"}
    BY <1>1, HostOrderTail
<1>4. /\ f.id \in Id /\ f.type \in {"request", "chunk", "final", "failed", "cancelled"}
      /\ host.last \in Nat /\ nextId \in Nat /\ f.id \in Nat /\ nextId <= MaxCalls + 1 /\ MaxCalls \in Nat
    BY <1>2, FrameFields DEF Inv, Id
<1>5. f.id < nextId /\ (f.type = "request" => f.id > host.last)
    BY <1>2 DEF Inv, ToHostOK
<1>6. ASSUME NEW id \in Id, host.last < id, id < nextId, id <= f.id PROVE f.type = "request" /\ id = f.id
    <2>1. Msg("request", id, 0) \in ToSet(toHost)
        BY <1>6 DEF Inv, ToHostOK
    <2>2. CASE Msg("request", id, 0) = f
        BY <2>2, MsgFields
    <2>3. CASE Msg("request", id, 0) \in ToSet(Tail(toHost))
        <3>1. f.id < id
            BY <1>3, <2>3, MsgFields
        <3> QED BY <1>4, <1>6, <3>1 DEF Id
    <2> QED BY <1>2, <2>1, <2>2, <2>3
<1>7. f.type # "request" => f.id <= host.last
    BY <1>4, <1>5, <1>6
<1>8. ASSUME f.type = "request", NEW id \in 1..f.id PROVE id <= host.last \/ id = f.id
    <2>1. id \in Id /\ id \in Nat /\ id <= f.id /\ id < nextId
        BY <1>4, <1>5 DEF Id
    <2> QED BY <1>4, <1>6, <2>1
<1> QED BY <1>2, <1>3, <1>4, <1>5, <1>7, <1>8

\* The host handles a frame: what it must still know of.
LEMMA HostHandles ==
    ASSUME Inv, HostUp, end' = end, HostKeeps, toHost # <<>>, NEW f, f = Head(toHost),
           toHost' = Tail(toHost), refused \subseteq refused',
           host'.last = IF f.type = "request" THEN f.id ELSE host.last,
           \A id \in Id \ {f.id} :
              /\ id = host.upload => id = host'.upload
              /\ call[id].kind = "ensure" /\ id \in host.contexts \cup ToSet(host.recent) \cup host.forgotten =>
                    id \in host'.contexts \cup ToSet(host'.recent) \cup host'.forgotten,
           call[f.id].kind = "upload" /\ (call[f.id].state = "sending" \/ f.type \in {"request", "chunk"}) =>
              f.id = host'.upload \/ f.id \in refused',
           call[f.id].kind = "ensure" /\ (call[f.id].state \in {"pending", "stream"} \/ f.type = "request") =>
              f.id \in host'.contexts \cup ToSet(host'.recent) \cup host'.forgotten \cup refused'
    PROVE  ToHostOK' /\ KnownOK'
<1>1. call' = call /\ nextId' = nextId /\ HostUp'
    BY DEF HostKeeps, HostUp
<1>2. /\ f \in HostFrames /\ f \in ToSet(toHost) /\ f.id \in Id /\ f.id < nextId
      /\ toHost' \in Seq(HostFrames) /\ HostOrder(toHost')
      /\ ToSet(toHost) = {f} \cup ToSet(toHost')
    BY HostHeadFacts
<1>3. \A g \in ToSet(toHost') : /\ g.type = "request" => f.id < g.id
                                /\ g.id = f.id => f.type \in {"request", "chunk"}
    BY HostHeadFacts
<1>4. /\ f.type # "request" => f.id <= host.last
      /\ f.type = "request" => f.id > host.last /\ \A id \in 1..f.id : id <= host.last \/ id = f.id
    BY HostHeadFacts
<1>5. host.last \in Nat /\ f.id \in Nat /\ host'.last \in Nat /\ 1..host'.last \subseteq Id
      /\ host.last <= host'.last
    BY <1>2, <1>4, FrameFields DEF Inv, Id
<1>6. ToHostOK'
    <2>1. ASSUME NEW id \in Id, host'.last < id, id < nextId
          PROVE  Msg("request", id, 0) \in ToSet(toHost')
        <3>1. host.last < id /\ (f.type = "request" => id # f.id)
            BY <1>5, <2>1 DEF Id
        <3>2. Msg("request", id, 0) \in ToSet(toHost)
            BY <2>1, <3>1 DEF Inv, ToHostOK
        <3>3. Msg("request", id, 0) # f
            BY <3>1, MsgFields
        <3> QED BY <1>2, <3>2, <3>3
    <2>2. ASSUME NEW g \in ToSet(toHost'), g.type = "request" PROVE g.id > host'.last
        <3>1. g.id > host.last /\ f.id < g.id
            BY <1>2, <1>3, <2>2 DEF Inv, ToHostOK
        <3> QED BY <3>1
    <2>3. ASSUME NEW g \in ToSet(toHost')
          PROVE  /\ g.id < nextId
                 /\ g.type \in {"chunk", "final", "failed"} => call[g.id].kind = "upload"
                 /\ g.type \in {"final", "failed"} => call[g.id].state # "sending"
                 /\ g.type = "cancelled" => /\ g.n = 0 /\ call[g.id].kind \in {"range", "ensure"}
                                            /\ call[g.id].state = "left"
        BY <1>2 DEF Inv, ToHostOK
    <2> QED BY <1>1, <1>2, <2>1, <2>2, <2>3 DEF ToHostOK
<1>7. KnownOK'
    <2> SUFFICES ASSUME NEW id \in 1..host'.last
                 PROVE  /\ call[id].kind = "upload" /\ (call[id].state = "sending" \/ Told(id)') =>
                              id = host'.upload \/ id \in refused'
                        /\ call[id].kind = "ensure" /\ (call[id].state \in {"pending", "stream"} \/ Told(id)') =>
                              id \in host'.contexts \cup ToSet(host'.recent) \cup host'.forgotten \cup refused'
        BY <1>1 DEF KnownOK
    <2>1. CASE id = f.id
        <3>1. Told(id)' => f.type \in {"request", "chunk"}
            BY <1>3, <2>1 DEF Told
        <3>2. f.type = "chunk" => call[f.id].kind = "upload"
            BY <1>2 DEF Inv, ToHostOK
        <3> QED BY <2>1, <3>1, <3>2
    <2>2. CASE id # f.id
        <3>1. id \in Id /\ id \in 1..host.last
            <4>1. id \in Nat /\ id <= host'.last /\ 1 <= id /\ id \in Id
                BY <1>5
            <4>2. f.type = "request" => id \in 1..f.id
                BY <1>5, <4>1
            <4>3. id <= host.last
                BY <1>4, <2>2, <4>1, <4>2
            <4> QED BY <1>5, <4>1, <4>3
        <3>2. Told(id)' => Told(id)
            BY <1>2 DEF Told
        <3>3. /\ call[id].kind = "upload" /\ (call[id].state = "sending" \/ Told(id)) =>
                    id = host.upload \/ id \in refused
              /\ call[id].kind = "ensure" /\ (call[id].state \in {"pending", "stream"} \/ Told(id)) =>
                    id \in host.contexts \cup ToSet(host.recent) \cup host.forgotten \cup refused
            BY <3>1 DEF Inv, KnownOK
        <3> QED BY <2>2, <3>1, <3>2, <3>3
    <2> QED BY <2>1, <2>2
<1> QED BY <1>6, <1>7

\* The host gives up the connection, after a last answer or without one.
LEMMA HostLeavesInv ==
    ASSUME Inv, HostUp, NEW why \in {"lock", "errorFrame", "replay", "session", "link"},
           HostLeaves(why), HostKeeps, refused' = refused,
           \/ toClient' = toClient
           \/ \E id \in Id : /\ host.last < id /\ id < nextId
                             /\ toClient' = Append(toClient, Msg("ok", id, 0))
    PROVE  Inv'
<1>1. /\ end' = [end EXCEPT !.host = why] /\ host' = NoHost /\ toHost' = <<>>
      /\ UNCHANGED <<asked, deferred, nextId, cancelEpoch, call, upOrder, reader, drops>>
    BY DEF HostLeaves, HostKeeps
<1>2. ~HostUp' /\ end.client = "up"
    BY <1>1 DEF HostUp, Inv, EndsOK, TypeOK
<1>3. \A S : <<>> \in Seq(S) /\ Len(<<>>) = 0 /\ ToSet(<<>>) = {}
    BY EmptyFacts
<1>4. Tables(NoHost) /\ NoHost.last = 0 /\ NoHost.contexts = {} /\ NoHost.jobs = {}
      /\ NoHost.streams = {} /\ NoHost.upload = NoId /\ NoHost.sent = [id \in Id |-> 0]
    BY NoHostFacts DEF NoHost
<1>5. /\ toClient \in Seq(ClientFrames) /\ ClientOrder(toClient)
      /\ \A f \in ToSet(toClient) : f.id \in Id /\ f.id <= host.last
      /\ host.last \in Nat /\ nextId \in Nat \ {0} /\ Chunks \in Nat
    BY FrameFields DEF Inv, TypeOK, ToClientOK
<1> DEFINE T == ToSet(toClient') \ ToSet(toClient)
<1>6. /\ T \subseteq ClientFrames /\ ToSet(toClient') = ToSet(toClient) \cup T
      /\ toClient' \in Seq(ClientFrames) /\ ClientOrder(toClient')
      /\ \A g \in T : g.type = "ok" /\ g.id \in Id /\ host.last < g.id /\ g.id < nextId
    <2>1. CASE toClient' = toClient
        BY <1>5, <2>1
    <2>2. CASE toClient' # toClient
        <3>1. PICK id \in Id : /\ host.last < id /\ id < nextId
                               /\ toClient' = Append(toClient, Msg("ok", id, 0))
            BY <2>2
        <3> DEFINE f == Msg("ok", id, 0)
        <3>2. f \in ClientFrames /\ f.id = id /\ f.type = "ok"
            BY <1>5 DEF Msg, ClientFrames
        <3> HIDE DEF f
        <3>3. toClient' = Append(toClient, f)
            BY <3>1 DEF f
        <3>4. toClient' \in Seq(ClientFrames) /\ ToSet(toClient') = ToSet(toClient) \cup {f}
            BY <1>5, <3>2, <3>3, AppendFacts
        <3>5. \A g \in ToSet(toClient) : g.id # f.id
            BY <1>5, <3>1, <3>2 DEF Id
        <3>6. ClientOrder(toClient')
            BY <1>5, <3>2, <3>3, <3>5, ClientOrderAppend
        <3> QED BY <3>1, <3>2, <3>4, <3>6
    <2> QED BY <2>1, <2>2
<1> HIDE DEF T
<1>7. TypeOK'
    <2>1. end' \in [client : {"up", "lock", "errorFrame", "streamTimeout", "link"},
                    host : {"up", "lock", "errorFrame", "replay", "session", "link"}]
        BY <1>1 DEF Inv, TypeOK
    <2> QED BY <1>1, <1>3, <1>4, <1>6, <2>1 DEF Inv, TypeOK, Tables
<1>8. ClientOK' /\ ReadersOK'
    BY <1>1 DEF Inv, ClientOK, ReadersOK
<1>9. EndsOK'
    BY <1>1, <1>2 DEF EndsOK, Inv, TypeOK
<1>10. HostOK'
    BY <1>1, <1>4, <1>5 DEF HostOK
<1>11. ToHostOK' /\ KnownOK'
    <2>1. HostOrder(<<>>)
        BY <1>3 DEF HostOrder
    <2> QED BY <1>1, <1>2, <1>3, <1>4, <2>1 DEF ToHostOK, KnownOK
<1>12. \A id : ~Live(id)'
    BY <1>2 DEF Live
<1>13. ToClientOK'
    <2>1. ASSUME NEW f \in T
          PROVE  call[f.id].state # "over" /\ call[f.id].state # "stream"
        <3>1. f.id \in Id /\ host.last < f.id /\ f.id \in Nat
            BY <1>6 DEF Id
        <3>2. Live(f.id)
            BY <3>1 DEF Live
        <3>3. call[f.id].state = "stream" => f.id <= host.last
            BY <3>1 DEF Inv, LiveOK
        <3> QED BY <1>5, <3>1, <3>2, <3>3 DEF Inv, LiveOK
    <2> QED BY <1>1, <1>2, <1>6, <1>12, <2>1 DEF Inv, ToClientOK
<1>14. LiveOK'
    <2>1. \A id \in Id : id # NoId
        BY DEF Id, NoId
    <2> QED BY <1>1, <1>2, <1>4, <1>12, <2>1 DEF LiveOK
<1>15. ChunksOK'
    <2>1. \A id : (Following(id)' <=> Following(id)) /\ Rcvd(id)' = Rcvd(id)
        BY <1>1 DEF Following, Rcvd
    <2>2. \A id, n : UnderWay(id, n) => UnderWay(id, n)'
        BY <1>6, <2>1 DEF UnderWay
    <2>3. ASSUME NEW f \in ToSet(toClient')
          PROVE  /\ f.type = "chunk" => f.n >= 1
                 /\ Following(f.id)' => /\ f.type = "chunk" => f.n > Rcvd(f.id)' /\ UnderWay(f.id, f.n)'
                                        /\ f.type = "final" => UnderWay(f.id, Chunks)'
        BY <1>6, <2>1, <2>2 DEF Inv, ChunksOK
    <2>4. \A id \in Id : Following(id)' => Rcvd(id)' <= Chunks
        BY <2>1 DEF Inv, ChunksOK
    <2> QED BY <1>1, <1>4, <2>3, <2>4 DEF ChunksOK
<1> QED BY <1>7, <1>8, <1>9, <1>10, <1>11, <1>13, <1>14, <1>15 DEF Inv

\* The host sends one frame.
LEMMA SendsOne ==
    ASSUME Inv, HostUp, end' = end, HostKeeps, NEW f \in ClientFrames, toClient' = Append(toClient, f),
           \A g \in ToSet(toClient) : g.id = f.id => Follows(g, f)
    PROVE  HostSends({f}) /\ ClientOrder(toClient')
<1>1. toClient \in Seq(ClientFrames) /\ ClientOrder(toClient)
    BY DEF Inv, TypeOK, ToClientOK
<1>2. toClient' \in Seq(ClientFrames) /\ ToSet(toClient') = ToSet(toClient) \cup {f}
    BY <1>1, AppendFacts
<1>3. ClientOrder(toClient')
    BY <1>1, ClientOrderAppend
<1> QED BY <1>2, <1>3 DEF HostSends

\* The host sends nothing.
LEMMA SendsNone ==
    ASSUME Inv, HostUp, end' = end, HostKeeps, toClient' = toClient
    PROVE  HostSends({}) /\ ClientOrder(toClient')
BY DEF Inv, TypeOK, ToClientOK, HostSends

\* Frames to the client.
LEMMA ClientMsg ==
    ASSUME NEW t \in {"ok", "error", "meta", "chunk", "final", "failed"}, NEW id \in Id, NEW n \in 0..Chunks
    PROVE  /\ Msg(t, id, n) \in ClientFrames /\ Msg(t, id, n).type = t
           /\ Msg(t, id, n).id = id /\ Msg(t, id, n).n = n
BY DEF Msg, ClientFrames

\* What the host knows of a request that runs, and of a stream.
LEMMA WantedFacts ==
    ASSUME Inv, HostUp, NEW id \in host.contexts
    PROVE  /\ id \in Id /\ id \in Nat /\ id <= host.last /\ id < nextId /\ id # host.upload /\ Live(id)
           /\ host.last \in Nat /\ nextId \in Nat /\ Chunks \in Nat /\ 0 \in 0..Chunks
           /\ id \in host.jobs \cup host.streams
           /\ id \in host.jobs => /\ id \notin host.streams /\ ~Heard(id) /\ call[id].state # "stream"
                                  /\ \A g \in ToSet(toClient) : g.id # id
           /\ id \in host.streams =>
                 /\ call[id].kind \in {"range", "ensure"}
                 /\ \A g \in ToSet(toClient) : g.id = id => g.type \in {"meta", "chunk"}
<1>1. /\ host.contexts \subseteq 1..host.last /\ host.last < nextId
      /\ host.contexts \subseteq host.jobs \cup host.streams /\ host.streams \cap host.jobs = {}
      /\ call[id].kind \in {"json", "range", "ensure", "inspect"}
      /\ host.upload # NoId => call[host.upload].kind = "upload"
      /\ id \in host.streams => call[id].kind \in {"range", "ensure"}
    BY DEF Inv, HostOK
<1>2. /\ host.last \in 0..MaxCalls /\ nextId \in 1..(MaxCalls + 1) /\ host.contexts \subseteq Id
      /\ MaxCalls \in Nat /\ Chunks \in Nat
    BY FrameFields DEF Inv
<1>3. id \in Id /\ id \in Nat /\ id <= host.last /\ id < nextId /\ host.last \in Nat /\ nextId \in Nat
      /\ 0 \in 0..Chunks
    BY <1>1, <1>2
<1>4. id # host.upload
    BY <1>1, <1>3 DEF Id, NoId
<1>5. Live(id)
    BY DEF Live
<1>6. id \in host.jobs => ~Heard(id) /\ call[id].state # "stream"
    BY <1>3 DEF Inv, LiveOK
<1>7. ASSUME NEW g \in ToSet(toClient), g.id = id PROVE g.type \in {"meta", "chunk"} /\ Heard(id)
    <2>1. g.type \in {"ok", "error", "meta", "chunk", "final", "failed"}
        BY FrameFields DEF Inv
    <2> QED BY <1>5, <1>7, <2>1 DEF Inv, ToClientOK, Heard
<1> QED BY <1>1, <1>2, <1>3, <1>4, <1>5, <1>6, <1>7

\* A job has ended.
LEMMA CompletedInv ==
    ASSUME Inv, NEW id \in Id, Completed(id)
    PROVE  Inv'
<1> DEFINE h == [host EXCEPT !.jobs = @ \ {id}]
<1>1. HostUp /\ id \in host.jobs /\ HostKeeps /\ refused' = refused
    BY DEF Completed
<1>2. /\ host \in Hosts /\ Tables(host) /\ toHost \in Seq(HostFrames) /\ refused \subseteq Id
      /\ toClient \in Seq(ClientFrames)
    BY FrameFields DEF Inv, TypeOK
<1>3. /\ Tables(h) /\ h.jobs = host.jobs \ {id} /\ h.last = host.last /\ h.contexts = host.contexts
      /\ h.streams = host.streams /\ h.upload = host.upload /\ h.sent = host.sent
      /\ h.recent = host.recent /\ h.forgotten = host.forgotten /\ h.order = host.order
      /\ h.mediaEpoch = host.mediaEpoch /\ h.active = host.active
    <2>1. h \in Hosts
        BY <1>2 DEF Hosts
    <2>2. /\ h.jobs = host.jobs \ {id} /\ h.last = host.last /\ h.contexts = host.contexts
          /\ h.streams = host.streams /\ h.upload = host.upload /\ h.sent = host.sent
          /\ h.recent = host.recent /\ h.forgotten = host.forgotten /\ h.order = host.order
          /\ h.mediaEpoch = host.mediaEpoch /\ h.active = host.active
        BY <1>2 DEF Hosts
    <2> HIDE DEF h
    <2> QED BY <1>2, <2>1, <2>2 DEF Tables
<1>4. call' = call /\ nextId' = nextId
    BY <1>1 DEF HostKeeps
<1>5. /\ host.last \in Nat /\ nextId \in Nat /\ host.streams \subseteq Id
      /\ host.streams \subseteq host.contexts /\ host.last < nextId
    BY <1>2, FrameFields, HostFields DEF Inv, HostOK, Tables
<1>6. \/ ~Wanted(id) /\ host' = h /\ UNCHANGED <<toHost, toClient, end>>
      \/ /\ Wanted(id) /\ host' = Settled(h, id) /\ UNCHANGED <<toHost, end>>
         /\ \E answer \in {"ok", "error"} : toClient' = Append(toClient, Msg(answer, id, 0))
      \/ /\ Wanted(id) /\ call[id].kind \in {"range", "ensure"} /\ UNCHANGED <<toHost, end>>
         /\ host' = [h EXCEPT !.streams = @ \cup {id}, !.order = Append(@, id)]
         /\ toClient' = Append(toClient, Msg("meta", id, 0))
      \/ Wanted(id) /\ HostLeaves("session") /\ UNCHANGED toClient
    BY DEF Completed
<1> HIDE DEF h
<1>7. CASE ~Wanted(id) /\ host' = h /\ UNCHANGED <<toHost, toClient, end>>
    <2>1. HostSends({}) /\ ClientOrder(toClient')
        BY <1>1, <1>7, SendsNone
    <2>2. id \notin host.contexts
        BY <1>7 DEF Wanted
    <2>3. \A i : Live(i)' <=> Live(i)
        BY <1>3, <1>7 DEF Live, HostUp
    <2>4. ToClientOK' /\ LiveOK'
        BY <1>3, <1>5, <1>7, <2>1, <2>3, HostSendsLive
    <2>5. ChunksOK'
        BY <1>3, <1>5, <1>7, <2>1, HostSendsChunks
    <2>6. ToHostOK' /\ KnownOK'
        <3>1. \A i \in Id :
                 call[i].kind = "ensure" /\ i \in host.contexts \cup ToSet(host.recent) \cup host.forgotten =>
                    i \in host'.contexts \cup ToSet(host'.recent) \cup host'.forgotten
            BY <1>3, <1>7
        <3>2. end' = end /\ toHost' = toHost /\ refused' = refused /\ host'.last = host.last
              /\ host'.upload = host.upload
            BY <1>1, <1>3, <1>7
        <3> QED BY <1>1, <3>1, <3>2, HostSilent
    <2>7. HostOK'
        BY <1>3, <1>4, <1>7, <2>2 DEF Inv, HostOK
    <2> QED BY <1>1, <1>2, <1>3, <1>7, <2>1, <2>4, <2>5, <2>6, <2>7, HostInv
<1>8. CASE /\ Wanted(id) /\ host' = Settled(h, id) /\ UNCHANGED <<toHost, end>>
           /\ \E answer \in {"ok", "error"} : toClient' = Append(toClient, Msg(answer, id, 0))
    <2>1. PICK answer \in {"ok", "error"} : toClient' = Append(toClient, Msg(answer, id, 0))
        BY <1>8
    <2> DEFINE f == Msg(answer, id, 0)
    <2>2. id \in host.contexts
        BY <1>8 DEF Wanted
    <2>3. /\ id <= host.last /\ id < nextId /\ id # host.upload /\ Live(id) /\ 0 \in 0..Chunks
          /\ id \notin host.streams /\ call[id].state # "stream"
          /\ \A g \in ToSet(toClient) : g.id # id
        BY <1>1, <2>2, WantedFacts
    <2>4. f \in ClientFrames /\ f.type = answer /\ f.id = id
        BY <2>3, ClientMsg
    <2> HIDE DEF f
    <2>5. HostSends({f}) /\ ClientOrder(toClient')
        BY <1>1, <1>8, <2>1, <2>3, <2>4, SendsOne DEF f
    <2>6. /\ Tables(host') /\ host'.last = host.last /\ host'.upload = host.upload
          /\ host'.jobs = host.jobs \ {id} /\ host'.contexts = host.contexts \ {id}
          /\ host'.streams = host.streams \ {id}
          /\ \A i \in Id : host'.sent[i] = IF i = id THEN 0 ELSE host.sent[i]
          /\ ToSet(host.recent) \cup host.forgotten \subseteq ToSet(host'.recent) \cup host'.forgotten
          /\ call[id].kind = "ensure" => id \in ToSet(host'.recent)
        BY <1>3, <1>8, SettledFacts
    <2>7. /\ \A i : Live(i)' => Live(i)
          /\ ~Live(id)'
        <3>1. \A i : Live(i)' => Live(i)
            BY <1>8, <2>6 DEF Live, HostUp
        <3>2. id \notin host'.contexts \cup {host'.upload} /\ ~(id > host'.last)
            BY <1>5, <2>3, <2>6 DEF Id
        <3> QED BY <3>1, <3>2 DEF Live
    <2>8. ToClientOK' /\ LiveOK'
        BY <1>5, <2>3, <2>4, <2>5, <2>6, <2>7, HostSendsLive
    <2>9. ChunksOK'
        BY <1>5, <2>4, <2>5, <2>6, HostSendsChunks
    <2>10. ToHostOK' /\ KnownOK'
        <3>1. \A i \in Id :
                 call[i].kind = "ensure" /\ i \in host.contexts \cup ToSet(host.recent) \cup host.forgotten =>
                    i \in host'.contexts \cup ToSet(host'.recent) \cup host'.forgotten
            BY <2>6
        <3>2. end' = end /\ toHost' = toHost /\ refused' = refused /\ host'.last = host.last
              /\ host'.upload = host.upload
            BY <1>1, <1>8, <2>6
        <3> QED BY <1>1, <3>1, <3>2, HostSilent
    <2>11. HostOK'
        BY <1>4, <1>5, <2>3, <2>6 DEF Inv, HostOK
    <2> QED BY <1>1, <1>2, <1>8, <2>5, <2>6, <2>8, <2>9, <2>10, <2>11, HostInv
<1>9. CASE /\ Wanted(id) /\ call[id].kind \in {"range", "ensure"} /\ UNCHANGED <<toHost, end>>
           /\ host' = [h EXCEPT !.streams = @ \cup {id}, !.order = Append(@, id)]
           /\ toClient' = Append(toClient, Msg("meta", id, 0))
    <2> DEFINE f == Msg("meta", id, 0)
    <2>2. id \in host.contexts
        BY <1>9 DEF Wanted
    <2>3. /\ id <= host.last /\ id < nextId /\ id # host.upload /\ Live(id) /\ 0 \in 0..Chunks
          /\ id \notin host.streams /\ call[id].state # "stream" /\ ~Heard(id)
          /\ \A g \in ToSet(toClient) : g.id # id
        BY <1>1, <2>2, WantedFacts
    <2>4. f \in ClientFrames /\ f.type = "meta" /\ f.id = id /\ f.n = 0
        BY <2>3, ClientMsg
    <2>5. HostSends({f}) /\ ClientOrder(toClient')
        BY <1>1, <1>9, <2>3, <2>4, SendsOne
    <2>6. /\ Tables(host') /\ host'.last = host.last /\ host'.upload = host.upload
          /\ host'.jobs = host.jobs \ {id} /\ host'.contexts = host.contexts
          /\ host'.streams = host.streams \cup {id} /\ host'.sent = host.sent
          /\ host'.recent = host.recent /\ host'.forgotten = host.forgotten
        <3> DEFINE o == Append(host.order, id)
        <3>1. host.order \in Seq(Id) /\ IsInjective(host.order) /\ ToSet(host.order) = host.streams
            BY <1>2, HostFields DEF Tables
        <3>2. o \in Seq(Id) /\ ToSet(o) = host.streams \cup {id}
            BY <3>1, AppendFacts
        <3>3. IsInjective(o)
            BY <2>3, <3>1, TurnFacts
        <3>4. host' = [h EXCEPT !.streams = @ \cup {id}, !.order = o] /\ h \in Hosts
            BY <1>3, <1>9 DEF Tables
        <3> HIDE DEF o
        <3>5. host' \in Hosts
            BY <3>2, <3>4 DEF Hosts
        <3>6. /\ host'.last = h.last /\ host'.upload = h.upload /\ host'.active = h.active
              /\ host'.jobs = h.jobs /\ host'.contexts = h.contexts
              /\ host'.streams = h.streams \cup {id} /\ host'.sent = h.sent
              /\ host'.recent = h.recent /\ host'.forgotten = h.forgotten /\ host'.order = o
            BY <3>4 DEF Hosts
        <3> QED BY <1>3, <2>2, <3>2, <3>3, <3>5, <3>6 DEF Tables
    <2> HIDE DEF f
    <2>7. \A i : Live(i)' <=> Live(i)
        BY <1>9, <2>6 DEF Live, HostUp
    <2>8. ToClientOK' /\ LiveOK'
        <3>1. \A i \in host'.streams : i \in host.streams \/ Msg("meta", i, 0) \in {f}
            BY <2>6 DEF f
        <3>2. host'.streams \subseteq Id
            BY <1>5, <2>6
        <3>3. \A i \in Id : i \in (host'.jobs \cap host'.contexts) \cup {host'.upload} =>
                 /\ i \in (host.jobs \cap host.contexts) \cup {host.upload} \/ i > host.last
                 /\ \A g \in {f} : g.id # i
            BY <2>3, <2>4, <2>6
        <3> QED BY <1>5, <1>9, <2>3, <2>4, <2>5, <2>6, <2>7, <3>1, <3>2, <3>3, HostSendsLive
    <2>9. ChunksOK'
        <3>1. Following(id) => Rcvd(id) = 0
            <4>1. Following(id) => call[id].state = "pending"
                BY <2>3 DEF Following
            <4>2. Following(id) => reader[id] = NoReader
                BY <4>1 DEF Inv, ClientOK
            <4>3. Following(id) => reader[id].got = <<>> /\ reader[id].buf = <<>>
                BY <4>2 DEF NoReader
            <4>4. Len(<<>>) = 0
                BY EmptyFacts
            <4>5. Following(id) => Rcvd(id) = 0 + 0
                BY <4>3, <4>4, Zenon DEF Rcvd
            <4> QED BY <4>5
        <3>2. host.sent[id] = 0
            BY <2>3 DEF Inv, HostOK
        <3>3. host'.streams \subseteq Id
            BY <1>5, <2>6
        <3> QED BY <2>3, <2>4, <2>5, <2>6, <3>1, <3>2, <3>3, HostSendsChunks
    <2>10. ToHostOK' /\ KnownOK'
        <3>1. \A i \in Id :
                 call[i].kind = "ensure" /\ i \in host.contexts \cup ToSet(host.recent) \cup host.forgotten =>
                    i \in host'.contexts \cup ToSet(host'.recent) \cup host'.forgotten
            BY <2>6
        <3>2. end' = end /\ toHost' = toHost /\ refused' = refused /\ host'.last = host.last
              /\ host'.upload = host.upload
            BY <1>1, <1>9, <2>6
        <3> QED BY <1>1, <3>1, <3>2, HostSilent
    <2>11. HostOK'
        BY <1>4, <1>5, <1>9, <2>3, <2>6 DEF Inv, HostOK
    <2> QED BY <1>1, <1>2, <1>9, <2>5, <2>6, <2>8, <2>9, <2>10, <2>11, HostInv
<1>10. CASE Wanted(id) /\ HostLeaves("session") /\ UNCHANGED toClient
    BY <1>1, <1>10, HostLeavesInv
<1> QED BY <1>6, <1>7, <1>8, <1>9, <1>10

\* The stream whose turn it is.
LEMMA TurnOfStream ==
    ASSUME Inv, HostUp, host.streams # {}, NEW id, id = Head(host.order)
    PROVE  /\ id \in host.streams /\ id \in Id /\ id \in host.contexts /\ id \notin host.jobs
           /\ id <= host.last /\ id < nextId /\ id # host.upload /\ Live(id) /\ 0 \in 0..Chunks
           /\ call[id].kind \in {"range", "ensure"}
           /\ host.sent[id] \in 0..Chunks /\ Chunks \in Nat
           /\ \A g \in ToSet(toClient) : g.id = id =>
                 g.type \in {"meta", "chunk"} /\ (g.type = "chunk" => g.n <= host.sent[id])
           /\ host.order # <<>> /\ host.order \in Seq(Id) /\ IsInjective(host.order)
<1>1. /\ host \in Hosts /\ Tables(host) /\ host.order \in Seq(Id) /\ IsInjective(host.order)
      /\ ToSet(host.order) = host.streams /\ host.streams \subseteq host.contexts
    BY FrameFields, HostFields DEF Inv, Tables
<1>2. host.order # <<>>
    BY <1>1, EmptyFacts
<1>3. id \in Id /\ id \in host.streams /\ id \in host.contexts
    BY <1>1, <1>2, TailFacts
<1>4. /\ id <= host.last /\ id < nextId /\ id # host.upload /\ Live(id) /\ 0 \in 0..Chunks
      /\ Chunks \in Nat /\ call[id].kind \in {"range", "ensure"}
      /\ \A g \in ToSet(toClient) : g.id = id => g.type \in {"meta", "chunk"}
    BY <1>3, WantedFacts
<1>5. id \notin host.jobs
    BY <1>3 DEF Inv, HostOK
<1>6. host.sent[id] \in 0..Chunks
    BY <1>1, <1>3, HostFields
<1>7. \A g \in ToSet(toClient) : g.id = id /\ g.type = "chunk" => g.n <= host.sent[id]
    BY <1>3 DEF Inv, ChunksOK
<1> QED BY <1>1, <1>2, <1>3, <1>4, <1>5, <1>6, <1>7

\* A stream has its turn: a chunk, its end or its failure.
LEMMA HostChunkInv ==
    ASSUME Inv, send_next_host_outgoing_stream_chunk
    PROVE  Inv'
<1>0. PICK id : id = Head(host.order)
    OBVIOUS
<1>1. /\ HostUp /\ host.streams # {} /\ HostKeeps /\ toHost' = toHost /\ refused' = refused
      /\ end' = end
    BY DEF send_next_host_outgoing_stream_chunk
<1>2. \/ /\ host.sent[id] < Chunks
         /\ toClient' = Append(toClient, Msg("chunk", id, host.sent[id] + 1))
         /\ host' = [host EXCEPT !.sent[id] = @ + 1, !.order = Append(Tail(@), id)]
      \/ /\ \/ host.sent[id] = Chunks /\ toClient' = Append(toClient, Msg("final", id, 0))
            \/ toClient' = Append(toClient, Msg("failed", id, 0))
         /\ host' = Settled(host, id)
    BY <1>0 DEF send_next_host_outgoing_stream_chunk
<1>3. /\ id \in host.streams /\ id \in Id /\ id \in host.contexts /\ id \notin host.jobs
      /\ id <= host.last /\ id < nextId /\ id # host.upload /\ Live(id) /\ 0 \in 0..Chunks
      /\ call[id].kind \in {"range", "ensure"}
      /\ host.sent[id] \in 0..Chunks /\ Chunks \in Nat
      /\ \A g \in ToSet(toClient) : g.id = id =>
            g.type \in {"meta", "chunk"} /\ (g.type = "chunk" => g.n <= host.sent[id])
      /\ host.order # <<>> /\ host.order \in Seq(Id) /\ IsInjective(host.order)
    BY <1>0, <1>1, TurnOfStream
<1>4. LET r == Append(Tail(host.order), id)
      IN r \in Seq(Id) /\ IsInjective(r) /\ ToSet(r) = ToSet(host.order)
    BY <1>0, <1>3, RotateFacts
<1>5. /\ host \in Hosts /\ Tables(host) /\ toHost \in Seq(HostFrames) /\ refused \subseteq Id
      /\ toClient \in Seq(ClientFrames) /\ \A g \in ToSet(toClient) : g.n \in Nat
    BY FrameFields DEF Inv, TypeOK
<1>6. /\ host.last \in Nat /\ nextId \in Nat /\ host.streams \subseteq Id
      /\ host.streams \subseteq host.contexts /\ host.last < nextId
    BY <1>5, FrameFields, HostFields DEF Inv, HostOK, Tables
<1>7. call' = call /\ nextId' = nextId
    BY <1>1 DEF HostKeeps
<1>8. CASE /\ host.sent[id] < Chunks
           /\ toClient' = Append(toClient, Msg("chunk", id, host.sent[id] + 1))
           /\ host' = [host EXCEPT !.sent[id] = @ + 1, !.order = Append(Tail(@), id)]
    <2> DEFINE n == host.sent[id] + 1
               f == Msg("chunk", id, n)
               o == Append(Tail(host.order), id)
               s == [host.sent EXCEPT ![id] = n]
    <2>1. n \in 0..Chunks
        BY <1>3, <1>8
    <2>2. f \in ClientFrames /\ f.type = "chunk" /\ f.id = id /\ f.n = n
        BY <1>3, <2>1, ClientMsg
    <2>3. toClient' = Append(toClient, f) /\ f = Chunk(id, n)
        BY <1>8 DEF Chunk
    <2>4. /\ Tables(host') /\ host'.last = host.last /\ host'.upload = host.upload
          /\ host'.jobs = host.jobs /\ host'.contexts = host.contexts
          /\ host'.streams = host.streams
          /\ \A i \in Id : host'.sent[i] = IF i = id THEN n ELSE host.sent[i]
          /\ host'.recent = host.recent /\ host'.forgotten = host.forgotten
        <3>1. o \in Seq(Id) /\ IsInjective(o) /\ ToSet(o) = ToSet(host.order)
            BY <1>4
        <3>2. host.sent \in [Id -> 0..Chunks]
            BY <1>5, HostFields
        <3>3. s \in [Id -> 0..Chunks] /\ \A i \in Id : s[i] = IF i = id THEN n ELSE host.sent[i]
            BY <1>3, <2>1, <3>2
        <3>4. host' = [host EXCEPT !.sent = s, !.order = o]
            BY <1>5, <1>8 DEF Hosts
        <3> HIDE DEF o, s
        <3>5. host' \in Hosts
            BY <1>5, <3>1, <3>3, <3>4 DEF Hosts
        <3>6. /\ host'.last = host.last /\ host'.upload = host.upload /\ host'.active = host.active
              /\ host'.jobs = host.jobs /\ host'.contexts = host.contexts
              /\ host'.streams = host.streams /\ host'.sent = s
              /\ host'.recent = host.recent /\ host'.forgotten = host.forgotten /\ host'.order = o
            BY <1>5, <3>4 DEF Hosts
        <3> QED BY <1>5, <3>1, <3>3, <3>5, <3>6 DEF Tables
    <2>5. HostSends({f}) /\ ClientOrder(toClient')
        <3>1. ASSUME NEW g \in ToSet(toClient), g.id = f.id PROVE Follows(g, f)
            <4>1. g.type \in {"meta", "chunk"} /\ (g.type = "chunk" => g.n <= host.sent[id])
                BY <1>3, <2>2, <3>1
            <4>2. g.type = "chunk" => g.n < f.n
                BY <1>3, <1>5, <2>2, <4>1
            <4> QED BY <2>2, <4>1, <4>2 DEF Follows
        <3> QED BY <1>1, <2>2, <2>3, <3>1, SendsOne
    <2> HIDE DEF f
    <2>6. \A i : Live(i)' <=> Live(i)
        BY <1>1, <2>4 DEF Live, HostUp
    <2>7. ToClientOK' /\ LiveOK'
        <3>1. \A i \in Id : i \in (host'.jobs \cap host'.contexts) \cup {host'.upload} =>
                 /\ i \in (host.jobs \cap host.contexts) \cup {host.upload} \/ i > host.last
                 /\ \A g \in {f} : g.id # i
            BY <1>3, <2>2, <2>4
        <3> QED BY <1>3, <1>6, <2>2, <2>4, <2>5, <2>6, <3>1, HostSendsLive
    <2>8. ChunksOK'
        <3>1. \A i \in host'.streams :
                 \/ i \in host.streams /\ host'.sent[i] = host.sent[i]
                 \/ /\ i \in host.streams /\ host'.sent[i] = host.sent[i] + 1
                    /\ Chunk(i, host.sent[i] + 1) \in {f}
            BY <1>6, <2>3, <2>4
        <3>2. f.n = host.sent[f.id] + 1 /\ Chunk(f.id, f.n) \in {f} /\ host'.sent[f.id] = host.sent[f.id] + 1
            BY <1>3, <2>2, <2>3, <2>4
        <3> QED BY <1>3, <1>6, <2>2, <2>4, <2>5, <3>1, <3>2, HostSendsChunks
    <2>9. ToHostOK' /\ KnownOK'
        BY <1>1, <2>4, HostSilent
    <2>10. HostOK'
        BY <1>3, <1>6, <1>7, <2>4 DEF Inv, HostOK
    <2> QED BY <1>1, <1>5, <2>4, <2>5, <2>7, <2>8, <2>9, <2>10, HostInv
<1>9. CASE /\ \/ host.sent[id] = Chunks /\ toClient' = Append(toClient, Msg("final", id, 0))
              \/ toClient' = Append(toClient, Msg("failed", id, 0))
           /\ host' = Settled(host, id)
    <2>1. PICK t \in {"final", "failed"} : /\ toClient' = Append(toClient, Msg(t, id, 0))
                                           /\ t = "final" => host.sent[id] = Chunks
        BY <1>9
    <2> DEFINE f == Msg(t, id, 0)
    <2>2. f \in ClientFrames /\ f.type = t /\ f.id = id
        BY <1>3, ClientMsg
    <2> HIDE DEF f
    <2>3. HostSends({f}) /\ ClientOrder(toClient')
        <3>1. ASSUME NEW g \in ToSet(toClient), g.id = f.id PROVE Follows(g, f)
            BY <1>3, <2>2, <3>1 DEF Follows
        <3> QED BY <1>1, <2>1, <2>2, <3>1, SendsOne DEF f
    <2>4. /\ Tables(host') /\ host'.last = host.last /\ host'.upload = host.upload
          /\ host'.jobs = host.jobs /\ host'.contexts = host.contexts \ {id}
          /\ host'.streams = host.streams \ {id}
          /\ \A i \in Id : host'.sent[i] = IF i = id THEN 0 ELSE host.sent[i]
          /\ ToSet(host.recent) \cup host.forgotten \subseteq ToSet(host'.recent) \cup host'.forgotten
          /\ call[id].kind = "ensure" => id \in ToSet(host'.recent)
        <3> DEFINE g == Settled(host, id)
        <3>1. /\ Tables(g) /\ g.last = host.last /\ g.upload = host.upload
              /\ g.jobs = host.jobs /\ g.contexts = host.contexts \ {id}
              /\ g.streams = host.streams \ {id}
              /\ \A i \in Id : g.sent[i] = IF i = id THEN 0 ELSE host.sent[i]
              /\ ToSet(host.recent) \cup host.forgotten \subseteq ToSet(g.recent) \cup g.forgotten
              /\ call[id].kind = "ensure" => id \in ToSet(g.recent)
            BY <1>3, <1>5, SettledFacts, SMTT(30)
        <3>2. host' = g
            BY <1>9
        <3> HIDE DEF g
        <3> QED BY <3>1, <3>2
    <2>5. /\ \A i : Live(i)' => Live(i)
          /\ ~Live(id)'
        <3>1. \A i : Live(i)' => Live(i)
            BY <1>1, <2>4 DEF Live, HostUp
        <3>2. id \notin host'.contexts \cup {host'.upload} /\ ~(id > host'.last)
            BY <1>3, <1>6, <2>4 DEF Id
        <3> QED BY <3>1, <3>2 DEF Live
    <2>6. ToClientOK' /\ LiveOK'
        <3>1. \A i \in Id : i \in (host'.jobs \cap host'.contexts) \cup {host'.upload} =>
                 /\ i \in (host.jobs \cap host.contexts) \cup {host.upload} \/ i > host.last
                 /\ \A g \in {f} : g.id # i
            BY <1>3, <2>2, <2>4
        <3> QED BY <1>3, <1>6, <2>2, <2>3, <2>4, <2>5, <3>1, HostSendsLive
    <2>7. ChunksOK'
        BY <1>3, <1>6, <2>1, <2>2, <2>3, <2>4, HostSendsChunks
    <2>8. ToHostOK' /\ KnownOK'
        <3>1. \A i \in Id :
                 call[i].kind = "ensure" /\ i \in host.contexts \cup ToSet(host.recent) \cup host.forgotten =>
                    i \in host'.contexts \cup ToSet(host'.recent) \cup host'.forgotten
            BY <2>4
        <3> QED BY <1>1, <2>4, <3>1, HostSilent
    <2>9. HostOK'
        BY <1>3, <1>6, <1>7, <2>4 DEF Inv, HostOK
    <2> QED BY <1>1, <1>5, <2>3, <2>4, <2>6, <2>7, <2>8, <2>9, HostInv
<1> QED BY <1>2, <1>8, <1>9

\* The host has handled a frame, and answers the requests in T.
LEMMA HandledInv ==
    ASSUME Inv, toHost # <<>>, NEW f, f = Head(toHost), toHost' = Tail(toHost),
           refused \subseteq refused', refused' \subseteq Id,
           NEW T, HostSends(T), ClientOrder(toClient'), Tables(host'), HostOK',
           host'.last = IF f.type = "request" THEN f.id ELSE host.last,
           \A id \in Id : Live(id)' => Live(id),
           host'.streams \subseteq host.streams, \A id \in host'.streams : host'.sent[id] = host.sent[id],
           \A id \in Id : id \in (host'.jobs \cap host'.contexts) \cup {host'.upload} =>
              /\ id \in (host.jobs \cap host.contexts) \cup {host.upload} \/ id > host.last
              /\ \A g \in T : g.id # id,
           \A g \in T : /\ g.type \in {"ok", "error"} /\ Live(g.id) /\ ~Live(g.id)'
                        /\ g.id <= host'.last /\ call[g.id].state # "stream",
           \A id \in Id \ {f.id} :
              /\ id = host.upload => id = host'.upload
              /\ call[id].kind = "ensure" /\ id \in host.contexts \cup ToSet(host.recent) \cup host.forgotten =>
                    id \in host'.contexts \cup ToSet(host'.recent) \cup host'.forgotten,
           call[f.id].kind = "upload" /\ (call[f.id].state = "sending" \/ f.type \in {"request", "chunk"}) =>
              f.id = host'.upload \/ f.id \in refused',
           call[f.id].kind = "ensure" /\ (call[f.id].state \in {"pending", "stream"} \/ f.type = "request") =>
              f.id \in host'.contexts \cup ToSet(host'.recent) \cup host'.forgotten \cup refused'
    PROVE  Inv'
<1>1. HostUp /\ end' = end /\ HostKeeps
    BY DEF HostSends
<1>2. /\ f.id \in Id /\ toHost' \in Seq(HostFrames) /\ f.type = "request" => f.id > host.last
    BY <1>1, HostHeadFacts
<1>3. host.last \in Nat /\ nextId \in Nat /\ host'.last \in Nat /\ host.last <= host'.last
      /\ host.streams \subseteq Id
    <2>1. host.last \in Nat /\ nextId \in Nat /\ host.streams \subseteq Id
        BY FrameFields, HostFields DEF Inv, Tables
    <2> QED BY <1>1, <2>1, HostHeadFacts DEF Id
<1>4. host'.last < nextId
    <2>1. nextId' = nextId
        BY <1>1 DEF HostKeeps
    <2> QED BY <2>1 DEF HostOK
<1>5. \A g \in T : g.id \in Id /\ g.id < nextId
    <2>1. \A g \in T : g.id \in Id
        BY FrameFields DEF HostSends, Inv
    <2> QED BY <1>3, <1>4, <2>1 DEF Id
<1>6. ToClientOK' /\ LiveOK'
    BY <1>3, <1>5, HostSendsLive
<1>7. ChunksOK'
    <2>1. \A id \in host'.streams : id \in host.streams /\ host'.sent[id] = host.sent[id]
        OBVIOUS
    <2>2. \A g \in T : g.type # "chunk" /\ g.type # "final"
        OBVIOUS
    <2> QED BY <1>3, <2>1, <2>2, HostSendsChunks
<1>8. ToHostOK' /\ KnownOK'
    BY <1>1, HostHandles
<1>9. toHost' \in Seq(HostFrames)
    BY <1>1, HostHeadFacts
<1> QED BY <1>6, <1>7, <1>8, <1>9, HostInv

\* What the host sends in answer to a frame: nothing, or one frame.
LEMMA HandledSends ==
    ASSUME Inv, HostUp, HostKeeps, NEW h
    PROVE  /\ Handled(h, <<>>) => HostSends({}) /\ ClientOrder(toClient')
           /\ \A m \in ClientFrames :
                 Handled(h, <<m>>) /\ (\A g \in ToSet(toClient) : g.id # m.id) =>
                    HostSends({m}) /\ ClientOrder(toClient')
<1>1. toClient \in Seq(ClientFrames)
    BY DEF Inv, TypeOK
<1>2. ASSUME Handled(h, <<>>) PROVE HostSends({}) /\ ClientOrder(toClient')
    <2>1. toClient' = toClient /\ end' = end
        BY <1>1, <1>2, ConcatEmptySeq DEF Handled
    <2> QED BY <2>1, SendsNone
<1>3. ASSUME NEW m \in ClientFrames, Handled(h, <<m>>), \A g \in ToSet(toClient) : g.id # m.id
      PROVE  HostSends({m}) /\ ClientOrder(toClient')
    <2>1. toClient' = Append(toClient, m) /\ end' = end
        BY <1>1, <1>3, AppendIsConcat DEF Handled
    <2> QED BY <1>3, <2>1, SendsOne
<1> QED BY <1>2, <1>3

\* The upload is over.
LEMMA UploadOverFacts ==
    ASSUME Inv
    PROVE  LET g == UploadOver(host)
           IN /\ Tables(g) /\ g.last = host.last /\ g.upload = NoId /\ g.jobs = host.jobs
              /\ g.contexts = host.contexts /\ g.streams = host.streams /\ g.sent = host.sent
              /\ g.recent = host.recent /\ g.forgotten = host.forgotten
              /\ g.mediaEpoch = host.mediaEpoch
<1> DEFINE g == UploadOver(host)
<1>1. host \in Hosts /\ Tables(host) /\ MaxCalls \in Nat
    BY FrameFields DEF Inv, TypeOK
<1>2. g = [host EXCEPT !.upload = NoId, !.active = NoId] /\ NoId \in 0..MaxCalls
    BY <1>1 DEF UploadOver, NoId
<1>3. g \in Hosts
    BY <1>1, <1>2 DEF Hosts
<1>4. /\ g.last = host.last /\ g.upload = NoId /\ g.active = NoId /\ g.jobs = host.jobs
      /\ g.contexts = host.contexts /\ g.streams = host.streams /\ g.sent = host.sent
      /\ g.recent = host.recent /\ g.forgotten = host.forgotten /\ g.order = host.order
      /\ g.mediaEpoch = host.mediaEpoch
    BY <1>1, <1>2 DEF Hosts
<1> HIDE DEF g
<1>5. Tables(g)
    BY <1>1, <1>3, <1>4 DEF Tables
<1> QED BY <1>4, <1>5 DEF g

\* The active upload.
LEMMA ActiveUpload ==
    ASSUME Inv, HostUp, NEW id \in Id, id = host.upload
    PROVE  /\ id <= host.last /\ id < nextId /\ call[id].kind = "upload" /\ Live(id)
           /\ call[id].state # "stream" /\ id \notin host.contexts /\ id \notin host.jobs
           /\ \A g \in ToSet(toClient) : g.id # id
<1>1. id # NoId
    BY DEF Id, NoId
<1>2. id <= host.last /\ call[id].kind = "upload" /\ host.last < nextId
    BY <1>1 DEF Inv, HostOK
<1>3. id < nextId
    BY <1>2, FrameFields DEF Inv, Id
<1>4. id \notin host.contexts /\ id \notin host.jobs
    BY <1>2 DEF Inv, HostOK
<1>5. ~Heard(id) /\ call[id].state # "stream"
    BY DEF Inv, LiveOK
<1> QED BY <1>2, <1>3, <1>4, <1>5 DEF Live, Heard

\* The upload ends: given up by the client, complete, or refused.
LEMMA UploadEnds ==
    ASSUME Inv, HostUp, HostKeeps, toHost # <<>>, NEW f, f = Head(toHost), f.id = host.upload,
           f.type # "request",
           \/ Handled(UploadOver(host), <<>>) /\ f.type = "failed" /\ refused' = refused
           \/ /\ Handled(UploadOver(host), <<Msg("ok", f.id, 0)>>)
              /\ f.type = "final" /\ refused' = refused
           \/ Handled(UploadOver(host), <<Msg("error", f.id, 0)>>) /\ refused' = refused \cup {f.id}
    PROVE  Inv'
<1>1. /\ f \in ToSet(toHost) /\ f.id \in Id
    BY HostHeadFacts
<1>2. /\ f.id <= host.last /\ f.id < nextId /\ call[f.id].kind = "upload" /\ Live(f.id)
      /\ call[f.id].state # "stream" /\ f.id \notin host.contexts /\ f.id \notin host.jobs
      /\ \A g \in ToSet(toClient) : g.id # f.id
    BY <1>1, ActiveUpload
<1>3. /\ Tables(UploadOver(host)) /\ host' = UploadOver(host) /\ end' = end /\ toHost' = Tail(toHost)
    BY UploadOverFacts DEF Handled
<1>4. /\ Tables(host') /\ host'.last = host.last /\ host'.upload = NoId
      /\ host'.jobs = host.jobs /\ host'.contexts = host.contexts /\ host'.streams = host.streams
      /\ host'.sent = host.sent /\ host'.recent = host.recent /\ host'.forgotten = host.forgotten
    BY <1>3, UploadOverFacts
<1>5. call' = call /\ nextId' = nextId /\ host.last \in Nat /\ Chunks \in Nat /\ refused \subseteq Id
    BY FrameFields, SMTT(30) DEF HostKeeps, Inv, TypeOK
<1>6. HostOK'
    BY <1>4, <1>5 DEF Inv, HostOK
<1>7. (\A i \in Id : Live(i)' => Live(i)) /\ ~Live(f.id)'
    <2>1. \A i \in Id : Live(i)' => Live(i)
        BY <1>3, <1>4 DEF Live, HostUp, NoId, Id
    <2>2. f.id \notin host'.contexts \cup {host'.upload} /\ ~(f.id > host'.last)
        BY <1>1, <1>2, <1>4, <1>5 DEF Id, NoId
    <2>3. PICK i : i = f.id
        OBVIOUS
    <2> QED BY <2>1, <2>2, <2>3 DEF Live
<1>8. PICK T : /\ HostSends(T) /\ ClientOrder(toClient')
               /\ \A g \in T : g.type \in {"ok", "error"} /\ g.id = f.id
    <2>1. CASE Handled(UploadOver(host), <<>>)
        BY <2>1, HandledSends
    <2>2. ASSUME NEW t \in {"ok", "error"}, Handled(UploadOver(host), <<Msg(t, f.id, 0)>>)
          PROVE  \E T : /\ HostSends(T) /\ ClientOrder(toClient')
                        /\ \A g \in T : g.type \in {"ok", "error"} /\ g.id = f.id
        <3> DEFINE m == Msg(t, f.id, 0)
        <3>1. m \in ClientFrames /\ m.type = t /\ m.id = f.id
            BY <1>1, <1>5, ClientMsg
        <3>2. Handled(UploadOver(host), <<m>>)
            BY <2>2
        <3> HIDE DEF m
        <3>3. HostSends({m}) /\ ClientOrder(toClient')
            BY <1>2, <3>1, <3>2, HandledSends
        <3> QED BY <2>2, <3>1, <3>3
    <2> QED BY <2>1, <2>2
<1>9. /\ refused \subseteq refused' /\ refused' \subseteq Id
      /\ call[f.id].state = "sending" \/ f.type = "chunk" => f.id \in refused'
    <2>1. f.type \in {"final", "failed"} => call[f.id].state # "sending"
        BY <1>1 DEF Inv, ToHostOK
    <2> QED BY <1>1, <1>5, <2>1
<1>10. \A i \in Id : i # NoId
    BY DEF Id, NoId
<1>11. /\ host'.streams \subseteq host.streams /\ \A i \in host'.streams : host'.sent[i] = host.sent[i]
       /\ \A i \in Id : i \in (host'.jobs \cap host'.contexts) \cup {host'.upload} =>
             /\ i \in (host.jobs \cap host.contexts) \cup {host.upload} \/ i > host.last
             /\ \A g \in T : g.id # i
       /\ host'.last = IF f.type = "request" THEN f.id ELSE host.last
    BY <1>2, <1>4, <1>8, <1>10
<1>12. \A g \in T : /\ g.type \in {"ok", "error"} /\ Live(g.id) /\ ~Live(g.id)'
                    /\ g.id <= host'.last /\ call[g.id].state # "stream"
    BY <1>2, <1>4, <1>7, <1>8
<1>13. \A i \in Id \ {f.id} :
         /\ i = host.upload => i = host'.upload
         /\ call[i].kind = "ensure" /\ i \in host.contexts \cup ToSet(host.recent) \cup host.forgotten =>
               i \in host'.contexts \cup ToSet(host'.recent) \cup host'.forgotten
    BY <1>4
<1> QED BY <1>2, <1>3, <1>4, <1>6, <1>7, <1>8, <1>9, <1>11, <1>12, <1>13, HandledInv

\* The client gave up a stream, a derivative or an upload.
LEMMA StreamControlInv ==
    ASSUME Inv, HostUp, HostKeeps, toHost # <<>>, NEW f, f = Head(toHost), StreamControl(f)
    PROVE  Inv'
<1>1. /\ f \in ToSet(toHost) /\ f.id \in Id /\ f.type \in {"cancelled", "failed"} /\ refused' = refused
      /\ f.id <= host.last
    BY HostHeadFacts DEF StreamControl
<1>2. /\ f.type = "cancelled" => call[f.id].kind \in {"range", "ensure"} /\ call[f.id].state = "left"
      /\ f.type = "failed" => call[f.id].kind = "upload" /\ call[f.id].state # "sending"
    BY <1>1 DEF Inv, ToHostOK
<1>3. CASE f.id = host.upload /\ Handled(UploadOver(host), <<>>)
    <2>1. call[f.id].kind = "upload"
        BY <1>1, <1>3, ActiveUpload
    <2>2. f.type = "failed"
        BY <1>1, <1>2, <2>1
    <2> QED BY <1>1, <1>3, <2>2, UploadEnds
<1>4. CASE f.id # host.upload /\ HostLeaves("errorFrame") /\ UNCHANGED toClient
    BY <1>1, <1>4, HostLeavesInv
<1>5. ASSUME f.id # host.upload, f.type = "cancelled", NEW h, Handled(h, <<>>), Tables(h),
             h.last = host.last, h.upload = host.upload, h.jobs = host.jobs,
             h.contexts \subseteq host.contexts, h.streams \subseteq host.streams,
             host.contexts \ {f.id} \subseteq h.contexts, host.streams \ {f.id} \subseteq h.streams,
             f.id \notin h.contexts, \A i \in Id : h.sent[i] = IF i = f.id THEN 0 ELSE host.sent[i],
             ToSet(host.recent) \cup host.forgotten \subseteq ToSet(h.recent) \cup h.forgotten \cup {f.id}
      PROVE  Inv'
    <2>1. host' = h /\ end' = end /\ toHost' = Tail(toHost)
        BY <1>5 DEF Handled
    <2>2. HostSends({}) /\ ClientOrder(toClient')
        BY <1>5, HandledSends
    <2>3. call' = call /\ nextId' = nextId /\ refused \subseteq Id /\ host.streams \subseteq Id
          /\ host.contexts \subseteq Id /\ h.streams \subseteq h.contexts
        BY <1>5, FrameFields, HostFields DEF HostKeeps, Inv, TypeOK, Tables
    <2>4. HostOK'
        BY <1>5, <2>1, <2>3 DEF Inv, HostOK
    <2>5. \A i \in Id : Live(i)' => Live(i)
        BY <1>5, <2>1 DEF Live, HostUp
    <2>6. /\ host'.streams \subseteq host.streams /\ \A i \in host'.streams : host'.sent[i] = host.sent[i]
          /\ \A i \in Id : i \in (host'.jobs \cap host'.contexts) \cup {host'.upload} =>
                i \in (host.jobs \cap host.contexts) \cup {host.upload}
          /\ host'.last = IF f.type = "request" THEN f.id ELSE host.last
        BY <1>5, <2>1, <2>3
    <2>7. /\ \A i \in Id \ {f.id} :
               /\ i = host.upload => i = host'.upload
               /\ call[i].kind = "ensure" /\ i \in host.contexts \cup ToSet(host.recent) \cup host.forgotten =>
                     i \in host'.contexts \cup ToSet(host'.recent) \cup host'.forgotten
        BY <1>5, <2>1
    <2> QED BY <1>1, <1>2, <1>5, <2>1, <2>2, <2>3, <2>4, <2>5, <2>6, <2>7, HandledInv
<1>6. CASE /\ f.id # host.upload /\ f.type = "cancelled" /\ f.id \in host.contexts
           /\ Handled(Cancelled(f.id), <<>>)
    <2> DEFINE h == Settled(host, f.id)
    <2>1. Tables(host)
        BY FrameFields DEF Inv
    <2>2. /\ Tables(h) /\ h.last = host.last /\ h.upload = host.upload
          /\ h.jobs = host.jobs /\ h.contexts = host.contexts \ {f.id}
          /\ h.streams = host.streams \ {f.id}
          /\ \A i \in Id : h.sent[i] = IF i = f.id THEN 0 ELSE host.sent[i]
          /\ ToSet(host.recent) \cup host.forgotten \subseteq ToSet(h.recent) \cup h.forgotten
        BY <1>1, <2>1, SettledFacts
    <2>3. Handled(h, <<>>)
        BY <1>6 DEF Cancelled
    <2> HIDE DEF h
    <2> QED BY <1>5, <1>6, <2>2, <2>3
<1>7. CASE /\ f.id # host.upload /\ f.type = "cancelled" /\ f.id \notin host.contexts
           /\ Handled([host EXCEPT !.recent = RemoveFirst(@, f.id)], <<>>)
    <2> DEFINE r == RemoveFirst(host.recent, f.id)
               h == [host EXCEPT !.recent = r]
    <2>1. /\ host \in Hosts /\ Tables(host) /\ host.recent \in Seq(Id) /\ host.sent \in [Id -> 0..Chunks]
          /\ Len(host.recent) \in Nat /\ Len(host.recent) <= RECENT_DERIVATIVES
        BY FrameFields, HostFields, SetFacts DEF Inv, Tables
    <2>2. /\ r \in Seq(Id) /\ Len(r) <= Len(host.recent) /\ ToSet(host.recent) \subseteq ToSet(r) \cup {f.id}
        BY <2>1, RemoveFirstFacts
    <2>3. Len(r) <= RECENT_DERIVATIVES
        BY <2>1, <2>2, SetFacts, BoundAssumption
    <2>4. Handled(h, <<>>)
        BY <1>7
    <2> HIDE DEF r
    <2>5. h \in Hosts
        BY <2>1, <2>2 DEF Hosts
    <2>6. /\ h.last = host.last /\ h.upload = host.upload /\ h.active = host.active /\ h.jobs = host.jobs
          /\ h.contexts = host.contexts /\ h.streams = host.streams /\ h.sent = host.sent
          /\ h.recent = r /\ h.forgotten = host.forgotten /\ h.order = host.order
        BY <2>1 DEF Hosts
    <2> HIDE DEF h
    <2>7. Tables(h)
        BY <2>1, <2>2, <2>3, <2>5, <2>6 DEF Tables
    <2>8. host.sent[f.id] = 0
        BY <1>1, <1>7, <2>1 DEF Inv, HostOK, Tables
    <2> QED BY <1>5, <1>7, <2>2, <2>4, <2>6, <2>7, <2>8
<1> QED BY <1>3, <1>4, <1>6, <1>7 DEF StreamControl

\* The next frame of the upload.
LEMMA UploadFrameInv ==
    ASSUME Inv, HostUp, HostKeeps, toHost # <<>>, NEW f, f = Head(toHost), UploadFrame(f)
    PROVE  Inv'
<1>1. /\ f \in ToSet(toHost) /\ f.id \in Id /\ f.type \in {"chunk", "final"} /\ f.id = host.upload
    BY HostHeadFacts DEF UploadFrame
<1>2. CASE f.type = "chunk" /\ Handled(host, <<>>) /\ UNCHANGED refused
    <2>1. host' = host /\ end' = end /\ toHost' = Tail(toHost)
        BY <1>2 DEF Handled
    <2>2. HostSends({}) /\ ClientOrder(toClient')
        BY <1>2, HandledSends
    <2>3. call' = call /\ nextId' = nextId /\ refused \subseteq Id /\ Tables(host)
        BY FrameFields DEF HostKeeps, Inv, TypeOK
    <2>4. HostOK'
        BY <2>1, <2>3 DEF Inv, HostOK
    <2>5. \A i \in Id : Live(i)' => Live(i)
        BY <2>1 DEF Live, HostUp
    <2>6. call[f.id].kind = "upload"
        BY <1>1, ActiveUpload
    <2> QED BY <1>1, <1>2, <2>1, <2>2, <2>3, <2>4, <2>5, <2>6, HandledInv
<1>3. CASE f.type = "final" /\ Handled(UploadOver(host), <<Msg("ok", f.id, 0)>>) /\ UNCHANGED refused
    BY <1>1, <1>3, UploadEnds
<1>4. CASE Handled(UploadOver(host), <<Msg("error", f.id, 0)>>) /\ refused' = refused \cup {f.id}
    BY <1>1, <1>4, UploadEnds
<1>5. CASE HostLeaves("session") /\ UNCHANGED <<toClient, refused>>
    BY <1>1, <1>5, HostLeavesInv
<1> QED BY <1>2, <1>3, <1>4, <1>5 DEF UploadFrame

\* A request that the host gets is new to it.
LEMMA NewRequest ==
    ASSUME Inv, HostUp, toHost # <<>>, NEW f, f = Head(toHost), f.type = "request"
    PROVE  /\ f \in ToSet(toHost) /\ f.id \in Id /\ f.id \in Nat /\ f.id < nextId /\ f.id > host.last
           /\ host.last \in Nat /\ nextId \in Nat /\ Chunks \in Nat /\ refused \subseteq Id
           /\ f.id \notin host.contexts \cup host.jobs \cup host.streams \cup {host.upload}
           /\ Live(f.id) /\ call[f.id].state # "stream" /\ \A g \in ToSet(toClient) : g.id # f.id
<1>1. f \in ToSet(toHost) /\ f.id \in Id /\ f.id < nextId /\ f.id > host.last
    BY HostHeadFacts
<1>2. f.id \in Nat /\ host.last \in Nat /\ nextId \in Nat /\ Chunks \in Nat /\ refused \subseteq Id
    <2>1. refused \subseteq Id
        BY DEF Inv, TypeOK
    <2> QED BY <1>1, <2>1, FrameFields DEF Inv, Id
<1>3. /\ host.contexts \cup host.jobs \subseteq 1..host.last /\ host.streams \subseteq host.contexts
      /\ host.upload # NoId => host.upload <= host.last
    BY DEF Inv, HostOK, TypeOK
<1>4. f.id \notin host.contexts \cup host.jobs \cup host.streams \cup {host.upload}
    BY <1>1, <1>2, <1>3 DEF Id, NoId
<1>5. Live(f.id)
    BY <1>1 DEF Live
<1>6. call[f.id].state = "stream" => f.id <= host.last
    BY <1>1 DEF Inv, LiveOK
<1>7. \A g \in ToSet(toClient) : g.id \in Nat /\ g.id <= host.last
    BY FrameFields DEF Inv, ToClientOK, Id
<1> QED BY <1>1, <1>2, <1>4, <1>5, <1>6, <1>7

\* The host takes note of a request's id.
LEMMA LastFacts ==
    ASSUME Inv, NEW n \in Id
    PROVE  LET h == [host EXCEPT !.last = n]
           IN /\ Tables(h) /\ h.last = n /\ h.upload = host.upload /\ h.jobs = host.jobs
              /\ h.contexts = host.contexts /\ h.streams = host.streams /\ h.sent = host.sent
              /\ h.recent = host.recent /\ h.forgotten = host.forgotten /\ h.order = host.order
              /\ h.mediaEpoch = host.mediaEpoch /\ h.active = host.active
<1> DEFINE h == [host EXCEPT !.last = n]
<1>1. host \in Hosts /\ Tables(host) /\ n \in 0..MaxCalls
    BY FrameFields DEF Inv, Tables, Id
<1>2. h \in Hosts
    BY <1>1 DEF Hosts
<1>3. /\ h.last = n /\ h.upload = host.upload /\ h.active = host.active /\ h.jobs = host.jobs
      /\ h.contexts = host.contexts /\ h.streams = host.streams /\ h.sent = host.sent
      /\ h.recent = host.recent /\ h.forgotten = host.forgotten /\ h.order = host.order
      /\ h.mediaEpoch = host.mediaEpoch
    BY <1>1 DEF Hosts
<1> HIDE DEF h
<1>4. Tables(h)
    BY <1>1, <1>2, <1>3 DEF Tables
<1> QED BY <1>3, <1>4 DEF h

\* A request is admitted, as the upload or as a job, or refused, or answered with
\* those it ends.
LEMMA RequestHandled ==
    ASSUME Inv, HostUp, HostKeeps, toHost # <<>>, NEW f, f = Head(toHost), f.type = "request",
           end' = end, toHost' = Tail(toHost), refused \subseteq refused', refused' \subseteq Id,
           NEW T, HostSends(T), ClientOrder(toClient'), Tables(host'), host'.last = f.id,
           host'.streams = host.streams, host'.sent = host.sent,
           host'.recent = host.recent, host'.forgotten = host.forgotten,
           \/ host'.upload = host.upload
           \/ host.upload = NoId /\ host'.upload = f.id /\ call[f.id].kind = "upload",
           \/ host'.contexts = host.contexts /\ host'.jobs = host.jobs
           \/ /\ host'.contexts = host.contexts \cup {f.id} /\ host'.jobs = host.jobs \cup {f.id}
              /\ call[f.id].kind \in {"json", "range", "ensure", "inspect"}
           \/ /\ host'.contexts \subseteq host.contexts /\ host'.jobs = host.jobs
              /\ \A i \in host.contexts \ host'.contexts : call[i].kind = "inspect",
           call[f.id].kind = "upload" => f.id = host'.upload \/ f.id \in refused',
           call[f.id].kind = "ensure" => f.id \in host'.contexts \cup refused',
           \A g \in T : /\ g.type \in {"ok", "error"}
                        /\ g.id = f.id \/ g.id \in host.contexts \cap host.jobs
                        /\ g.id \notin host'.contexts \cup {host'.upload}
    PROVE  Inv'
<1>1. /\ f \in ToSet(toHost) /\ f.id \in Id /\ f.id \in Nat /\ f.id < nextId /\ f.id > host.last
      /\ host.last \in Nat /\ nextId \in Nat /\ Chunks \in Nat /\ refused \subseteq Id
      /\ f.id \notin host.contexts \cup host.jobs \cup host.streams \cup {host.upload}
      /\ Live(f.id) /\ call[f.id].state # "stream" /\ \A g \in ToSet(toClient) : g.id # f.id
    BY NewRequest
<1>2. call' = call /\ nextId' = nextId /\ HostUp'
    BY DEF HostKeeps, HostUp
<1>3. /\ host.contexts \subseteq Id /\ host.jobs \subseteq Id /\ host.streams \subseteq host.contexts
      /\ host'.streams \subseteq host'.contexts /\ host'.contexts \subseteq Id
    BY FrameFields, HostFields DEF Inv, Tables
<1>4. HostOK'
    <2>1. /\ host.last < nextId /\ host.contexts \cup host.jobs \subseteq 1..host.last
          /\ host.contexts \subseteq host.jobs \cup host.streams /\ host.streams \cap host.jobs = {}
          /\ \A id \in host.contexts \cup host.jobs :
                call[id].kind \in {"json", "range", "ensure", "inspect"}
          /\ \A id \in host.streams : call[id].kind \in {"range", "ensure"}
          /\ \A id \in Id : id \notin host.streams => host.sent[id] = 0
          /\ host.upload # NoId => host.upload <= host.last /\ call[host.upload].kind = "upload"
        BY DEF Inv, HostOK
    <2>2. host'.contexts \cup host'.jobs \subseteq 1..f.id
        <3>1. 1..host.last \subseteq 1..f.id /\ f.id \in 1..f.id
            BY <1>1 DEF Id
        <3> QED BY <2>1, <3>1
    <2>3. /\ host'.contexts \subseteq host'.jobs \cup host'.streams /\ host'.streams \cap host'.jobs = {}
          /\ \A id \in host'.contexts \cup host'.jobs :
                call[id].kind \in {"json", "range", "ensure", "inspect"}
        BY <1>1, <2>1
    <2>4. host'.upload # NoId => host'.upload <= f.id /\ call[host'.upload].kind = "upload"
        <3>1. host.upload \in Nat
            BY FrameFields DEF Inv
        <3> QED BY <1>1, <2>1, <3>1
    <2> QED BY <1>1, <1>2, <2>1, <2>2, <2>3, <2>4 DEF HostOK
<1>5. \A i \in Id : Live(i)' => Live(i)
    <2> SUFFICES ASSUME NEW i \in Id, Live(i)' PROVE Live(i)
        OBVIOUS
    <2>1. i \in Nat /\ (i > f.id \/ i \in host'.contexts \cup {host'.upload})
        BY DEF Live, Id
    <2>2. i > host.last \/ i \in host.contexts \cup {host.upload}
        BY <1>1, <2>1
    <2> QED BY <2>2 DEF Live
<1>6. ASSUME NEW g \in T
      PROVE  /\ g.type \in {"ok", "error"} /\ Live(g.id) /\ ~Live(g.id)'
             /\ g.id <= host'.last /\ call[g.id].state # "stream"
    <2>1. CASE g.id = f.id
        <3>1. ~(g.id > f.id) /\ g.id <= f.id
            BY <1>1, <2>1
        <3> QED BY <1>1, <2>1, <3>1 DEF Live
    <2>2. CASE g.id \in host.contexts \cap host.jobs
        <3>1. g.id <= host.last /\ Live(g.id) /\ call[g.id].state # "stream" /\ g.id \in Nat
            BY <2>2, WantedFacts
        <3>2. ~(g.id > f.id) /\ g.id <= f.id
            BY <1>1, <3>1
        <3> QED BY <3>1, <3>2 DEF Live
    <2> QED BY <2>1, <2>2
<1>7. \A i \in Id : i \in (host'.jobs \cap host'.contexts) \cup {host'.upload} =>
         /\ i \in (host.jobs \cap host.contexts) \cup {host.upload} \/ i > host.last
         /\ \A g \in T : g.id # i
    BY <1>1
<1>8. /\ \A i \in Id \ {f.id} :
           /\ i = host.upload => i = host'.upload
           /\ call[i].kind = "ensure" /\ i \in host.contexts \cup ToSet(host.recent) \cup host.forgotten =>
                 i \in host'.contexts \cup ToSet(host'.recent) \cup host'.forgotten
    <2>1. \A i \in Id : i # NoId
        BY DEF Id, NoId
    <2> QED BY <2>1
<1>9. /\ host'.streams \subseteq host.streams /\ \A i \in host'.streams : host'.sent[i] = host.sent[i]
      /\ host'.last = IF f.type = "request" THEN f.id ELSE host.last
    OBVIOUS
<1> QED BY <1>4, <1>5, <1>6, <1>7, <1>8, <1>9, HandledInv

\* A request is refused.
LEMMA RefusedInv ==
    ASSUME Inv, HostUp, HostKeeps, toHost # <<>>, NEW f, f = Head(toHost), f.type = "request",
           Handled([host EXCEPT !.last = f.id], <<Msg("error", f.id, 0)>>), refused' = refused \cup {f.id}
    PROVE  Inv'
<1> DEFINE h == [host EXCEPT !.last = f.id]
           m == Msg("error", f.id, 0)
<1>1. /\ f.id \in Id /\ Chunks \in Nat /\ refused \subseteq Id
      /\ f.id \notin host.contexts \cup host.jobs \cup host.streams \cup {host.upload}
      /\ \A g \in ToSet(toClient) : g.id # f.id
    BY NewRequest
<1>2. /\ Tables(h) /\ h.last = f.id /\ h.upload = host.upload /\ h.jobs = host.jobs
      /\ h.contexts = host.contexts /\ h.streams = host.streams /\ h.sent = host.sent
      /\ h.recent = host.recent /\ h.forgotten = host.forgotten
    BY <1>1, LastFacts
<1>3. m \in ClientFrames /\ m.type = "error" /\ m.id = f.id
    BY <1>1, ClientMsg
<1>4. Handled(h, <<m>>)
    OBVIOUS
<1> HIDE DEF h, m
<1>5. HostSends({m}) /\ ClientOrder(toClient')
    BY <1>1, <1>3, <1>4, HandledSends
<1>6. host' = h /\ end' = end /\ toHost' = Tail(toHost)
    BY <1>4 DEF Handled
<1>7. \A g \in {m} : /\ g.type \in {"ok", "error"}
                     /\ g.id = f.id \/ g.id \in host.contexts \cap host.jobs
                     /\ g.id \notin host'.contexts \cup {host'.upload}
    BY <1>1, <1>2, <1>3, <1>6
<1>8. refused \subseteq refused' /\ refused' \subseteq Id /\ f.id \in refused'
    BY <1>1
<1> QED BY <1>2, <1>5, <1>6, <1>7, <1>8, RequestHandled

\* A request is admitted, as the upload or as a job.
LEMMA AdmittedInv ==
    ASSUME Inv, HostUp, HostKeeps, toHost # <<>>, NEW f, f = Head(toHost), f.type = "request",
           NEW h, h = [host EXCEPT !.last = f.id], refused' = refused,
           \/ /\ call[f.id].kind = "upload" /\ host.upload = NoId
              /\ Handled([h EXCEPT !.upload = f.id, !.active = f.id], <<>>)
           \/ /\ call[f.id].kind \in {"json", "range", "ensure", "inspect"}
              /\ Handled([h EXCEPT !.contexts = @ \cup {f.id}, !.jobs = @ \cup {f.id}], <<>>)
    PROVE  Inv'
<1>1. f.id \in Id /\ f.id \in 0..MaxCalls /\ refused \subseteq Id
    BY NewRequest DEF Id
<1>2. /\ Tables(h) /\ h.last = f.id /\ h.upload = host.upload /\ h.jobs = host.jobs
      /\ h.contexts = host.contexts /\ h.streams = host.streams /\ h.sent = host.sent
      /\ h.recent = host.recent /\ h.forgotten = host.forgotten
    BY <1>1, LastFacts
<1>3. h \in Hosts
    BY <1>2 DEF Tables
<1>4. CASE /\ call[f.id].kind = "upload" /\ host.upload = NoId
           /\ Handled([h EXCEPT !.upload = f.id, !.active = f.id], <<>>)
    <2> DEFINE g == [h EXCEPT !.upload = f.id, !.active = f.id]
    <2>1. g \in Hosts
        BY <1>1, <1>3 DEF Hosts
    <2>2. /\ g.last = h.last /\ g.upload = f.id /\ g.active = f.id /\ g.jobs = h.jobs
          /\ g.contexts = h.contexts /\ g.streams = h.streams /\ g.sent = h.sent
          /\ g.recent = h.recent /\ g.forgotten = h.forgotten /\ g.order = h.order
        BY <1>3 DEF Hosts
    <2>3. Handled(g, <<>>)
        BY <1>4
    <2> HIDE DEF g
    <2>4. Tables(g)
        BY <1>2, <2>1, <2>2 DEF Tables
    <2>5. HostSends({}) /\ ClientOrder(toClient')
        BY <2>3, HandledSends
    <2>6. host' = g /\ end' = end /\ toHost' = Tail(toHost)
        BY <2>3 DEF Handled
    <2> QED BY <1>1, <1>2, <1>4, <2>2, <2>4, <2>5, <2>6, RequestHandled
<1>5. CASE /\ call[f.id].kind \in {"json", "range", "ensure", "inspect"}
           /\ Handled([h EXCEPT !.contexts = @ \cup {f.id}, !.jobs = @ \cup {f.id}], <<>>)
    <2> DEFINE g == [h EXCEPT !.contexts = @ \cup {f.id}, !.jobs = @ \cup {f.id}]
    <2>1. g \in Hosts
        BY <1>1, <1>3, ZenonT(60) DEF Hosts
    <2>2. /\ g.last = h.last /\ g.upload = h.upload /\ g.active = h.active
          /\ g.jobs = h.jobs \cup {f.id} /\ g.contexts = h.contexts \cup {f.id}
          /\ g.streams = h.streams /\ g.sent = h.sent
          /\ g.recent = h.recent /\ g.forgotten = h.forgotten /\ g.order = h.order
        BY <1>3 DEF Hosts
    <2>3. Handled(g, <<>>)
        BY <1>5
    <2> HIDE DEF g
    <2>4. Tables(g)
        BY <1>2, <2>1, <2>2 DEF Tables
    <2>5. HostSends({}) /\ ClientOrder(toClient')
        BY <2>3, HandledSends
    <2>6. host' = g /\ end' = end /\ toHost' = Tail(toHost)
        BY <2>3 DEF Handled
    <2> QED BY <1>1, <1>2, <1>5, <2>2, <2>4, <2>5, <2>6, RequestHandled
<1> QED BY <1>4, <1>5

\* The answers to the inspections of a set E that a request n ends, and to n.
LEMMA AnswersFacts ==
    ASSUME NEW E, E \subseteq Id, NEW q \in SetToSeqs(E), NEW n \in Id, n \notin E
    PROVE  LET t == [i \in DOMAIN q |-> Msg("error", q[i], 0)] \o <<Msg("ok", n, 0)>>
           IN /\ t \in Seq(ClientFrames) /\ ClientOrder(t)
              /\ \A g \in ToSet(t) : g.type \in {"ok", "error"} /\ (g.id = n \/ g.id \in E)
<1> DEFINE a == [i \in DOMAIN q |-> Msg("error", q[i], 0)]
           m == Msg("ok", n, 0)
           t == a \o <<m>>
           k == Cardinality(E)
<1>1. k \in Nat
    <2>1. IsFiniteSet(Id)
        BY BoundAssumption, FS_Interval DEF Id
    <2> QED BY <2>1, FS_Subset, FS_CardinalityType
<1>2. q \in [1..k -> E] /\ \A i, j \in 1..k : i # j => q[i] # q[j]
    BY DEF SetToSeqs
<1> HIDE DEF k
<1>3. DOMAIN q = 1..k /\ \A i \in 1..k : q[i] \in E /\ q[i] \in Id
    BY <1>2
<1>4. 0 \in 0..Chunks
    BY BoundAssumption
<1>5. \A i \in 1..k : Msg("error", q[i], 0) \in ClientFrames
    BY <1>3, <1>4, ClientMsg
<1>6. a \in [1..k -> ClientFrames] /\ \A i \in 1..k : a[i] = Msg("error", q[i], 0)
    BY <1>3, <1>5
<1>7. \A i \in 1..k : a[i].type = "error" /\ a[i].id = q[i]
    BY <1>6, MsgFields
<1>8. m \in ClientFrames /\ m.type = "ok" /\ m.id = n
    BY <1>4, ClientMsg
<1> HIDE DEF a, m
<1>9. a \in Seq(ClientFrames) /\ Len(a) = k
    BY <1>1, <1>6, SeqDef, LenProperties
<1>10. t = Append(a, m)
    BY <1>8, <1>9, AppendIsConcat
<1> HIDE DEF t
<1>11. t \in Seq(ClientFrames) /\ ToSet(t) = ToSet(a) \cup {m}
    BY <1>8, <1>9, <1>10, AppendFacts
<1>12. ASSUME NEW g \in ToSet(a) PROVE g.type = "error" /\ g.id \in E
    <2>1. PICK i \in 1..k : a[i] = g
        BY <1>9, SetFacts
    <2> QED BY <1>3, <1>7, <2>1
<1>13. ClientOrder(a)
    <2>1. \A i, j \in 1..k : i < j => a[i].id # a[j].id
        BY <1>1, <1>2, <1>7
    <2> QED BY <1>9, <2>1 DEF ClientOrder
<1>14. ClientOrder(t)
    BY <1>8, <1>9, <1>10, <1>12, <1>13, ClientOrderAppend
<1> QED BY <1>8, <1>11, <1>12, <1>14 DEF t, a, m

\* The cancellation of an epoch ends every inspection that runs.
LEMMA InspectCancelInv ==
    ASSUME Inv, HostUp, HostKeeps, toHost # <<>>, NEW f, f = Head(toHost), f.type = "request",
           NEW h, h = [host EXCEPT !.last = f.id], InspectCancel(f, h)
    PROVE  Inv'
<1> DEFINE epoch == call[f.id].epoch
           E == IF epoch > h.mediaEpoch
                THEN {id \in h.contexts : call[id].kind = "inspect"} ELSE {}
           e == IF epoch > h.mediaEpoch THEN epoch ELSE h.mediaEpoch
           g == [h EXCEPT !.contexts = @ \ E, !.mediaEpoch = e]
<1>1. /\ f.id \in Id /\ Chunks \in Nat /\ refused \subseteq Id
      /\ f.id \notin host.contexts \cup host.jobs \cup host.streams \cup {host.upload}
      /\ \A m \in ToSet(toClient) : m.id # f.id
    BY NewRequest
<1>2. /\ Tables(h) /\ h.last = f.id /\ h.upload = host.upload /\ h.jobs = host.jobs
      /\ h.contexts = host.contexts /\ h.streams = host.streams /\ h.sent = host.sent
      /\ h.recent = host.recent /\ h.forgotten = host.forgotten /\ h.mediaEpoch = host.mediaEpoch
    BY <1>1, LastFacts
<1>3. h \in Hosts /\ h.mediaEpoch \in 0..MaxEpoch /\ epoch \in 0..MaxEpoch
    BY <1>1, <1>2, HostFields, CallFields DEF Tables, Inv
<1>4. e \in 0..MaxEpoch
    BY <1>3
<1>5. /\ E \subseteq host.contexts /\ \A i \in E : call[i].kind = "inspect"
    BY <1>2
<1>6. \A i \in E : i \in Id /\ i \in host.jobs /\ i \notin host.streams /\ i # host.upload
                   /\ \A m \in ToSet(toClient) : m.id # i
    <2> HIDE DEF E
    <2> SUFFICES ASSUME NEW i \in E
                 PROVE  i \in Id /\ i \in host.jobs /\ i \notin host.streams /\ i # host.upload
                        /\ \A m \in ToSet(toClient) : m.id # i
        OBVIOUS
    <2>1. i \in host.contexts /\ call[i].kind = "inspect"
        BY <1>5
    <2>2. i \notin host.streams
        BY <2>1 DEF Inv, HostOK
    <2> QED BY <2>1, <2>2, WantedFacts
<1>7. PICK q \in SetToSeqs(E) :
         Handled([h EXCEPT !.contexts = @ \ E, !.mediaEpoch = IF epoch > @ THEN epoch ELSE @],
                 [i \in DOMAIN q |-> Msg("error", q[i], 0)] \o <<Msg("ok", f.id, 0)>>)
    BY DEF InspectCancel
<1> DEFINE t == [i \in DOMAIN q |-> Msg("error", q[i], 0)] \o <<Msg("ok", f.id, 0)>>
<1>8. /\ host' = [h EXCEPT !.contexts = @ \ E, !.mediaEpoch = IF epoch > @ THEN epoch ELSE @]
      /\ toClient' = toClient \o t /\ toHost' = Tail(toHost) /\ end' = end /\ refused' = refused
    BY <1>7 DEF Handled, InspectCancel
<1>9. host' = g
    BY <1>3, <1>8 DEF Hosts
<1> HIDE DEF E, e
<1>10. /\ t \in Seq(ClientFrames) /\ ClientOrder(t)
       /\ \A m \in ToSet(t) : m.type \in {"ok", "error"} /\ (m.id = f.id \/ m.id \in E)
    <2>1. E \subseteq Id /\ f.id \notin E
        BY <1>1, <1>5, <1>6
    <2> QED BY <1>1, <1>7, <2>1, AnswersFacts
<1> HIDE DEF t
<1>11. g \in Hosts
    BY <1>3, <1>4 DEF Hosts
<1>12. /\ g.last = h.last /\ g.upload = h.upload /\ g.active = h.active
       /\ g.jobs = h.jobs /\ g.contexts = h.contexts \ E
       /\ g.streams = h.streams /\ g.sent = h.sent
       /\ g.recent = h.recent /\ g.forgotten = h.forgotten /\ g.order = h.order
    BY <1>3 DEF Hosts
<1> HIDE DEF g
<1>13. Tables(g)
    <2>1. h.streams \subseteq h.contexts \ E
        BY <1>2, <1>6 DEF Tables
    <2> QED BY <1>2, <1>11, <1>12, <2>1 DEF Tables
<1>14. HostSends(ToSet(t)) /\ ClientOrder(toClient')
    <2>1. toClient \in Seq(ClientFrames) /\ ClientOrder(toClient)
        BY DEF Inv, TypeOK, ToClientOK
    <2>2. toClient' \in Seq(ClientFrames) /\ ToSet(toClient') = ToSet(toClient) \cup ToSet(t)
        BY <1>8, <1>10, <2>1, ConcatFacts
    <2>3. \A m \in ToSet(toClient), r \in ToSet(t) : m.id # r.id
        BY <1>1, <1>6, <1>10
    <2>4. ClientOrder(toClient')
        BY <1>8, <1>10, <2>1, <2>3, ClientOrderConcat
    <2>5. ToSet(t) \subseteq ClientFrames
        BY <1>10, SetFacts
    <2> QED BY <1>8, <2>2, <2>4, <2>5 DEF HostSends
<1>15. \A m \in ToSet(t) : /\ m.type \in {"ok", "error"}
                           /\ m.id = f.id \/ m.id \in host.contexts \cap host.jobs
                           /\ m.id \notin host'.contexts \cup {host'.upload}
    BY <1>1, <1>2, <1>5, <1>6, <1>9, <1>10, <1>12
<1>16. /\ host'.contexts \subseteq host.contexts /\ host'.jobs = host.jobs
       /\ \A i \in host.contexts \ host'.contexts : call[i].kind = "inspect"
    BY <1>2, <1>5, <1>9, <1>12
<1>17. call[f.id].kind = "inspectCancel"
    BY DEF InspectCancel
<1> QED BY <1>1, <1>2, <1>8, <1>9, <1>12, <1>13, <1>14, <1>15, <1>16, <1>17, RequestHandled

\* The host handles the next frame.
LEMMA HostReceiveInv ==
    ASSUME Inv, HostReceive
    PROVE  Inv'
<1>0. PICK f : f = Head(toHost)
    OBVIOUS
<1>1. HostUp /\ toHost # <<>> /\ HostKeeps
    BY DEF HostReceive
<1>2. StreamControl(f) \/ ReplayDetected(f) \/ UploadFrame(f) \/ Request(f)
    BY <1>0 DEF HostReceive
<1>3. CASE StreamControl(f)
    BY <1>0, <1>1, <1>3, StreamControlInv
<1>4. CASE ReplayDetected(f)
    <2>1. HostLeaves("replay") /\ UNCHANGED <<toClient, refused>>
        BY <1>4 DEF ReplayDetected
    <2> QED BY <1>1, <2>1, HostLeavesInv
<1>5. CASE UploadFrame(f)
    BY <1>0, <1>1, <1>5, UploadFrameInv
<1>6. CASE Request(f)
    <2>0. PICK h : h = [host EXCEPT !.last = f.id]
        OBVIOUS
    <2>1. /\ f.type = "request"
          /\ UploadRequest(f, h) \/ InspectCancel(f, h) \/ LockRequest(f) \/ DownloadRequest(f, h)
        BY <1>6, <2>0 DEF Request
    <2>2. CASE UploadRequest(f, h)
        <3>1. CASE Handled(h, <<Msg("error", f.id, 0)>>) /\ refused' = refused \cup {f.id}
            BY <1>0, <1>1, <2>0, <2>1, <3>1, RefusedInv
        <3>2. CASE /\ host.upload = NoId /\ refused' = refused
                   /\ Handled([h EXCEPT !.upload = f.id, !.active = f.id], <<>>)
            <4>1. call[f.id].kind = "upload"
                BY <2>2 DEF UploadRequest
            <4> QED BY <1>0, <1>1, <2>0, <2>1, <3>2, <4>1, AdmittedInv, ZenonT(60)
        <3> QED BY <2>2, <3>1, <3>2 DEF UploadRequest
    <2>3. CASE InspectCancel(f, h)
        BY <1>0, <1>1, <2>0, <2>1, <2>3, InspectCancelInv
    <2>4. CASE LockRequest(f)
        <3>1. /\ HostLeaves("lock") /\ toClient' = Append(toClient, Msg("ok", f.id, 0))
              /\ refused' = refused
            BY <2>4 DEF LockRequest
        <3>2. f.id \in Id /\ host.last < f.id /\ f.id < nextId
            BY <1>0, <1>1, <2>1, NewRequest
        <3> QED BY <1>1, <3>1, <3>2, HostLeavesInv
    <2>5. CASE DownloadRequest(f, h)
        <3>1. CASE Handled(h, <<Msg("error", f.id, 0)>>) /\ refused' = refused \cup {f.id}
            BY <1>0, <1>1, <2>0, <2>1, <3>1, RefusedInv
        <3>2. CASE /\ Handled([h EXCEPT !.contexts = @ \cup {f.id}, !.jobs = @ \cup {f.id}], <<>>)
                   /\ refused' = refused
            <4>1. call[f.id].kind \in {"json", "range", "ensure", "inspect"}
                BY <2>5 DEF DownloadRequest
            <4> QED BY <1>0, <1>1, <2>0, <2>1, <3>2, <4>1, AdmittedInv, ZenonT(60)
        <3> QED BY <2>5, <3>1, <3>2, SMTT(30) DEF DownloadRequest
    <2> QED BY <2>1, <2>2, <2>3, <2>4, <2>5
<1> QED BY <1>2, <1>3, <1>4, <1>5, <1>6

\* The host's end of the link is lost.
LEMMA HostLostInv ==
    ASSUME Inv, HostLost
    PROVE  Inv'
BY HostLeavesInv DEF HostLost

(***************************************************************************)
(* The theorems.                                                            *)
(***************************************************************************)
\* The invariant holds when both ends have connected.
LEMMA InitInv == Init => Inv
<1> SUFFICES ASSUME Init PROVE Inv
    OBVIOUS
<1>1. /\ asked = 0 /\ deferred = 0 /\ nextId = 1 /\ cancelEpoch = 0
      /\ call = [id \in Id |-> NoCall] /\ upOrder = <<>>
      /\ reader = [id \in Id |-> NoReader] /\ drops = <<>>
      /\ toHost = <<>> /\ toClient = <<>> /\ host = NoHost /\ refused = {}
      /\ end = [client |-> "up", host |-> "up"]
    BY DEF Init
<1>2. \A S : <<>> \in Seq(S) /\ Len(<<>>) = 0 /\ ToSet(<<>>) = {} /\ IsInjective(<<>>)
    BY EmptyFacts
<1>3. /\ MaxCalls \in Nat /\ MaxEpoch \in Nat /\ Chunks \in Nat
      /\ RESPONSE_STREAM_CHANNEL_CAPACITY \in Nat
    BY BoundAssumption
<1>4. NoCall \in Calls /\ NoCall.state = "free"
    BY <1>3 DEF NoCall, Calls, AllKinds
<1>5. /\ NoReader \in Readings /\ NoReader.buf = <<>> /\ NoReader.got = <<>> /\ NoReader.state = "none"
    BY <1>2 DEF NoReader, Readings
<1>6. /\ Tables(host) /\ host.last = 0 /\ host.contexts = {} /\ host.jobs = {}
      /\ host.streams = {} /\ host.upload = NoId /\ host.sent = [id \in Id |-> 0]
    BY <1>1, NoHostFacts DEF NoHost
<1>7. \A id \in Id : call[id] = NoCall /\ reader[id] = NoReader
    BY <1>1
<1>8. TypeOK
    <2>1. call \in [Id -> Calls] /\ reader \in [Id -> Readings]
        BY <1>1, <1>4, <1>5
    <2>2. \A id \in Id : Len(reader[id].buf) <= RESPONSE_STREAM_CHANNEL_CAPACITY
        BY <1>2, <1>3, <1>5, <1>7
    <2>3. ToSet(upOrder) = {id \in Id : call[id].state = "sending"}
        BY <1>1, <1>2, <1>4, <1>7
    <2>4. end \in [client : {"up", "lock", "errorFrame", "streamTimeout", "link"},
                   host : {"up", "lock", "errorFrame", "replay", "session", "link"}]
        BY <1>1
    <2>5. /\ asked \in 0..MaxCalls /\ deferred \in 0..MaxCalls /\ nextId \in 1..(MaxCalls + 1)
          /\ cancelEpoch \in 0..MaxEpoch /\ refused \subseteq Id
        BY <1>1, <1>3
    <2> QED BY <1>1, <1>2, <1>6, <2>1, <2>2, <2>3, <2>4, <2>5 DEF TypeOK, Tables
<1>9. ClientOK
    BY <1>1, <1>4, <1>7 DEF ClientOK, Id
<1>10. EndsOK
    BY <1>1 DEF EndsOK, HostUp
<1>11. HostOK
    BY <1>1, <1>6 DEF HostOK, NoId
<1>12. ToHostOK
    <2>1. \A id \in Id : ~(id < nextId)
        BY <1>1 DEF Id
    <2> QED BY <1>1, <1>2, <2>1 DEF ToHostOK, HostOrder
<1>13. KnownOK
    BY <1>6 DEF KnownOK
<1>14. ToClientOK
    BY <1>1, <1>2 DEF ToClientOK, ClientOrder
<1>15. LiveOK
    <2>1. \A id \in Id : id # NoId
        BY DEF Id, NoId
    <2> QED BY <1>4, <1>6, <1>7, <2>1 DEF LiveOK
<1>16. ChunksOK
    <2>1. \A id \in Id : ~Following(id)
        BY <1>4, <1>7 DEF Following
    <2> QED BY <1>1, <1>2, <2>1 DEF ChunksOK
<1>17. ReadersOK
    BY <1>5, <1>7 DEF ReadersOK
<1> QED BY <1>8, <1>9, <1>10, <1>11, <1>12, <1>13, <1>14, <1>15, <1>16, <1>17 DEF Inv

\* Every step of either loop and of the readers keeps the invariant.
LEMMA NextInv == Inv /\ [Next]_vars => Inv'
<1> SUFFICES ASSUME Inv, [Next]_vars PROVE Inv'
    OBVIOUS
<1>1. CASE ClientLoop
    BY <1>1, TakeInv, SendDeferredInv, DroppedReaderInv, ReceiveInv, OutgoingInv, TimeoutScanInv,
       ClientLostInv DEF ClientLoop
<1>2. CASE HostLoop
    BY <1>2, CompletedInv, HostChunkInv, HostReceiveInv, HostLostInv DEF HostLoop
<1>3. CASE Readers
    BY <1>3, ReadInv, DropReaderInv DEF Readers
<1>4. CASE Over \/ UNCHANGED vars
    <2>1. UNCHANGED vars
        BY <1>4 DEF Over
    <2>2. /\ asked' = asked /\ deferred' = deferred /\ nextId' = nextId /\ cancelEpoch' = cancelEpoch
          /\ call' = call /\ upOrder' = upOrder /\ reader' = reader /\ drops' = drops
          /\ toHost' = toHost /\ toClient' = toClient /\ host' = host /\ refused' = refused
          /\ end' = end
        BY <2>1 DEF vars
    <2>3. TypeOK' /\ ClientOK' /\ EndsOK' /\ HostOK'
        BY <2>2 DEF Inv, TypeOK, ClientOK, EndsOK, HostOK, HostUp
    <2>4. ToHostOK' /\ KnownOK'
        BY <2>2 DEF Inv, ToHostOK, KnownOK, HostUp, Told
    <2>5. \A id : /\ (Live(id)' <=> Live(id)) /\ (Heard(id)' <=> Heard(id))
                  /\ (Following(id)' <=> Following(id)) /\ Rcvd(id)' = Rcvd(id)
        BY <2>2 DEF Live, Heard, Following, Rcvd, HostUp
    <2>6. ToClientOK' /\ LiveOK'
        BY <2>2, <2>5 DEF Inv, ToClientOK, LiveOK, HostUp
    <2>7. ChunksOK'
        BY <2>2, <2>5 DEF Inv, ChunksOK, UnderWay
    <2>8. ReadersOK'
        BY <2>2 DEF Inv, ReadersOK
    <2> QED BY <2>3, <2>4, <2>6, <2>7, <2>8 DEF Inv
<1> QED BY <1>1, <1>2, <1>3, <1>4 DEF Next

\* The invariant holds throughout.
LEMMA AlwaysInv == Spec => []Inv
<1>1. Init => Inv
    BY InitInv
<1>2. Inv /\ [Next]_vars => Inv'
    BY NextInv
<1> QED BY <1>1, <1>2, PTL DEF Spec

\* The types of the two ends, and the two queues of turns: neither the client's
\* send_next_outgoing_stream_chunk nor the host's ever meets a stream that has a
\* turn and no entry, or an entry and no turn, whatever order calls end in.
THEOREM PeerTypeCorrect == Spec => []TypeOK
<1>1. Inv => TypeOK
    BY DEF Inv
<1> QED BY <1>1, AlwaysInv, PTL

\* A reader that meets the end of its stream has read all of it, in order, for
\* any size of the stream and of the reader's buffer.
THEOREM StreamsAreComplete == Spec => []CleanEofIsComplete
<1>1. Inv => CleanEofIsComplete
    BY DEF Inv, ReadersOK, CleanEofIsComplete
<1> QED BY <1>1, AlwaysInv, PTL

\* The connection breaks over a frame only in the known crossings: what the host
\* meets first was announced, unless it refused it or RECENT_DERIVATIVES others
\* have ended since, and no failure reaches the client for a call that is not a
\* stream.
THEOREM LinkBreaksOnlyByCrossing == Spec => []BreaksOnlyByCrossing
<1>1. ASSUME Inv PROVE BreaksOnlyByCrossing
    <2>1. ASSUME HostUp, toHost # <<>>, NEW f, f = Head(toHost)
          PROVE  /\ f.type \in {"request", "chunk", "final"} /\ Replayed(f.id) => f.id \in refused
                 /\ f.type = "failed" /\ f.id # host.upload => f.id \in refused
                 /\ f.type = "cancelled" /\ f.id \notin host.contexts \cup ToSet(host.recent) =>
                       call[f.id].kind = "range" \/ f.id \in refused \cup host.forgotten
        <3>1. /\ f \in ToSet(toHost) /\ f.id \in Id /\ f.id \in Nat /\ host.last \in Nat
              /\ f.type # "request" => f.id <= host.last
              /\ f.type = "request" => f.id > host.last
            BY <1>1, <2>1, HostHeadFacts, FrameFields DEF Inv, Id
        <3>2. Told(f.id) /\ (f.type # "request" => f.id \in 1..host.last)
            BY <3>1 DEF Told, Id
        <3>3. host.active = host.upload
            BY <1>1 DEF Inv, TypeOK
        <3>4. CASE f.type = "request"
            BY <3>1, <3>4 DEF Replayed
        <3>5. CASE f.type \in {"chunk", "final", "failed"}
            <4>1. call[f.id].kind = "upload"
                BY <1>1, <3>1, <3>5 DEF Inv, ToHostOK
            <4>2. f.id = host.upload \/ f.id \in refused
                BY <1>1, <3>2, <3>5, <4>1 DEF Inv, KnownOK
            <4> QED BY <3>3, <3>5, <4>2 DEF Replayed
        <3>6. CASE f.type = "cancelled"
            <4>1. call[f.id].kind \in {"range", "ensure"}
                BY <1>1, <3>1, <3>6 DEF Inv, ToHostOK
            <4>2. call[f.id].kind = "ensure" =>
                     f.id \in host.contexts \cup ToSet(host.recent) \cup host.forgotten \cup refused
                BY <1>1, <3>2, <3>6 DEF Inv, KnownOK
            <4> QED BY <3>6, <4>1, <4>2
        <3>7. f.type \in {"request", "chunk", "final", "failed", "cancelled"}
            BY <1>1, <2>1, HostHeadFacts
        <3> QED BY <3>4, <3>5, <3>6, <3>7
    <2>2. ASSUME toClient # <<>>, NEW f, f = Head(toClient), f.type = "failed"
          PROVE  call[f.id].state \in {"stream", "left"}
        <3>1. toClient \in Seq(ClientFrames) /\ ClientOrder(toClient)
            BY <1>1 DEF Inv, TypeOK, ToClientOK
        <3>2. /\ ToSet(toClient) = {f} \cup ToSet(Tail(toClient))
              /\ \A g \in ToSet(Tail(toClient)) : g.id = f.id => Follows(f, g)
            BY <2>2, <3>1, TailFacts, ClientOrderTail
        <3>3. Msg("meta", f.id, 0) \notin ToSet(toClient)
            BY <2>2, <3>2, MsgFields DEF Follows
        <3> QED BY <1>1, <2>2, <3>2, <3>3 DEF Inv, ToClientOK
    <2> QED BY <2>1, <2>2 DEF BreaksOnlyByCrossing
<1> QED BY <1>1, AlwaysInv, PTL

\* What a step adds to the frames for the client: nothing, or frames of requests
\* that are live.
NewFrames(t) ==
    t \in Seq(ClientFrames) /\ \A g \in ToSet(t) : Live(g.id)

\* A step of the client takes frames or leaves them.
LEMMA ClientAddsNothing ==
    ASSUME Inv, ClientLoop \/ Readers \/ Over \/ UNCHANGED vars
    PROVE  Len(toClient') \in Nat /\ Len(toClient') <= Len(toClient)
<1>1. toClient \in Seq(ClientFrames) /\ Len(toClient) \in Nat
    BY SetFacts DEF Inv, TypeOK
<1>2. Len(<<>>) = 0
    BY EmptyFacts
<1>3. CASE toClient' = toClient
    BY <1>1, <1>3
<1>4. CASE toClient' = <<>>
    BY <1>1, <1>2, <1>4
<1>5. CASE toClient # <<>> /\ toClient' = Tail(toClient)
    <2>1. Tail(toClient) \in Seq(ClientFrames) /\ Len(Tail(toClient)) = Len(toClient) - 1
          /\ Len(toClient) \in Nat \ {0}
        BY <1>1, <1>5, TailFacts
    <2> QED BY <1>5, <2>1
<1>6. ASSUME NEW why, NEW calls, Leave(why, calls) PROVE toClient' = <<>>
    BY <1>6 DEF Leave
<1>7. CASE ClientLoop
    <2>1. CASE ClientReceive
        <3>1. toClient' = Tail(toClient) \/ toClient' = <<>>
            <4>1. PICK f : ErrorFrame(f) \/ forward_active_stream_frame(f)
                           \/ deliver_rpc_response_frame(f) \/ Unmatched(f)
                BY <2>1 DEF ClientReceive
            <4>2. Received => toClient' = Tail(toClient)
                BY DEF Received
            <4>3. CASE ErrorFrame(f)
                BY <1>6, <4>2, <4>3 DEF ErrorFrame
            <4>4. CASE forward_active_stream_frame(f)
                BY <4>2, <4>4 DEF forward_active_stream_frame
            <4>5. CASE deliver_rpc_response_frame(f)
                BY <1>6, <4>2, <4>5 DEF deliver_rpc_response_frame
            <4>6. CASE Unmatched(f)
                BY <4>2, <4>6 DEF Unmatched
            <4> QED BY <4>1, <4>3, <4>4, <4>5, <4>6
        <3>2. toClient # <<>>
            BY <2>1 DEF ClientReceive
        <3> QED BY <1>4, <1>5, <3>1, <3>2
    <2>2. CASE send_next_outgoing_stream_chunk
        <3>1. Sent => toClient' = toClient
            BY DEF Sent
        <3>2. toClient' = toClient \/ toClient' = <<>>
            BY <1>6, <2>2, <3>1 DEF send_next_outgoing_stream_chunk
        <3> QED BY <1>3, <1>4, <3>2
    <2>3. CASE ClientLost
        <3>1. toClient' = <<>>
            BY <1>6, <2>3 DEF ClientLost
        <3> QED BY <1>4, <3>1
    <2>4. CASE \/ \E kind \in Kind, epoch \in 0..MaxEpoch : Take(kind, epoch)
               \/ SendDeferred \/ DroppedReader \/ \E id \in Id : TimeoutScan(id)
        <3>1. toClient' = toClient
            BY <2>4, SMTT(30) DEF Take, SendDeferred, DroppedReader, TimeoutScan
        <3> QED BY <1>3, <3>1
    <2> QED BY <1>7, <2>1, <2>2, <2>3, <2>4 DEF ClientLoop
<1>8. CASE Readers \/ Over \/ UNCHANGED vars
    <2>1. toClient' = toClient
        BY <1>8, ZenonT(60) DEF Readers, Read, DropReader, Over, vars
    <2> QED BY <1>3, <2>1
<1> QED BY <1>7, <1>8

\* A step of the host adds frames of live requests.
LEMMA HostAdds ==
    ASSUME Inv, HostLoop
    PROVE  HostUp /\ (toClient' = toClient \/ \E t : toClient' = toClient \o t /\ NewFrames(t))
<1>0. toClient \in Seq(ClientFrames) /\ Chunks \in Nat
    BY FrameFields DEF Inv, TypeOK
<1>1. ASSUME NEW f \in ClientFrames, Live(f.id), toClient' = Append(toClient, f)
      PROVE  \E t : toClient' = toClient \o t /\ NewFrames(t)
    <2> DEFINE t == <<f>>
    <2>1. toClient' = toClient \o t
        BY <1>0, <1>1, AppendIsConcat
    <2>2. t \in Seq(ClientFrames) /\ ToSet(t) = {f}
        <3>1. t \in Seq(ClientFrames) /\ Len(t) = 1 /\ t[1] = f
            OBVIOUS
        <3> HIDE DEF t
        <3> QED BY <3>1, SetFacts
    <2> HIDE DEF t
    <2> QED BY <1>1, <2>1, <2>2 DEF NewFrames
<1>2. ASSUME NEW s \in {"ok", "error", "meta", "chunk", "final", "failed"}, NEW id \in Id,
             NEW n \in 0..Chunks, Live(id), toClient' = Append(toClient, Msg(s, id, n))
      PROVE  \E t : toClient' = toClient \o t /\ NewFrames(t)
    <2> DEFINE f == Msg(s, id, n)
    <2>1. f \in ClientFrames /\ f.id = id /\ toClient' = Append(toClient, f)
        BY <1>2, ClientMsg
    <2> HIDE DEF f
    <2> QED BY <1>1, <1>2, <2>1
<1>3. 0 \in 0..Chunks
    BY <1>0
<1>4. ASSUME NEW id \in Id, Completed(id)
      PROVE  HostUp /\ (toClient' = toClient \/ \E t : toClient' = toClient \o t /\ NewFrames(t))
    <2>1. HostUp /\ (Wanted(id) => id \in host.contexts)
        BY <1>4 DEF Completed, Wanted
    <2>2. Wanted(id) => Live(id)
        BY <2>1 DEF Live
    <2>3. \/ toClient' = toClient
          \/ Wanted(id) /\ \E s \in {"ok", "error", "meta"} : toClient' = Append(toClient, Msg(s, id, 0))
        BY <1>4 DEF Completed
    <2> QED BY <1>2, <1>3, <2>1, <2>2, <2>3
<1>5. ASSUME send_next_host_outgoing_stream_chunk
      PROVE  HostUp /\ (toClient' = toClient \/ \E t : toClient' = toClient \o t /\ NewFrames(t))
    <2>0. PICK id : id = Head(host.order)
        OBVIOUS
    <2>1. HostUp /\ host.streams # {}
        BY <1>5 DEF send_next_host_outgoing_stream_chunk
    <2>2. id \in Id /\ Live(id) /\ host.sent[id] \in 0..Chunks
        BY <2>0, <2>1, TurnOfStream
    <2>3. \/ toClient' = Append(toClient, Msg("chunk", id, host.sent[id] + 1)) /\ host.sent[id] < Chunks
          \/ toClient' = Append(toClient, Msg("final", id, 0))
          \/ toClient' = Append(toClient, Msg("failed", id, 0))
        BY <1>5, <2>0 DEF send_next_host_outgoing_stream_chunk
    <2>4. host.sent[id] < Chunks => host.sent[id] + 1 \in 0..Chunks
        BY <1>0, <2>2
    <2> QED BY <1>2, <1>3, <2>1, <2>2, <2>3, <2>4
<1>6. ASSUME HostReceive
      PROVE  HostUp /\ (toClient' = toClient \/ \E t : toClient' = toClient \o t /\ NewFrames(t))
    <2>0. PICK f : f = Head(toHost)
        OBVIOUS
    <2>1. HostUp /\ toHost # <<>>
        BY <1>6 DEF HostReceive
    <2>2. f.id \in Id
        BY <2>0, <2>1, HostHeadFacts
    <2>3. ASSUME NEW h, Handled(h, <<>>) PROVE toClient' = toClient
        BY <1>0, <2>3, ConcatEmptySeq DEF Handled
    <2>4. ASSUME NEW h, NEW s \in {"ok", "error"}, Handled(h, <<Msg(s, f.id, 0)>>), Live(f.id)
          PROVE  \E t : toClient' = toClient \o t /\ NewFrames(t)
        <3> DEFINE m == Msg(s, f.id, 0)
        <3>1. m \in ClientFrames /\ m.id = f.id
            BY <1>3, <2>2, ClientMsg
        <3>2. toClient' = toClient \o <<m>>
            BY <2>4 DEF Handled
        <3> HIDE DEF m
        <3>3. toClient' = Append(toClient, m)
            BY <1>0, <3>1, <3>2, AppendIsConcat
        <3> QED BY <1>1, <2>4, <3>1, <3>3
    <2>5. CASE StreamControl(f)
        BY <2>1, <2>3, <2>5 DEF StreamControl
    <2>6. CASE ReplayDetected(f)
        BY <2>1, <2>6 DEF ReplayDetected
    <2>7. CASE UploadFrame(f)
        <3>1. f.id = host.upload
            BY <2>7 DEF UploadFrame
        <3>2. Live(f.id)
            BY <2>1, <3>1 DEF Live
        <3> QED BY <2>1, <2>3, <2>4, <2>7, <3>2 DEF UploadFrame
    <2>8. CASE Request(f)
        <3>0. PICK h : h = [host EXCEPT !.last = f.id]
            OBVIOUS
        <3>1. f.type = "request"
            BY <2>8 DEF Request
        <3>2. Live(f.id) /\ f.id \notin host.contexts
            BY <2>0, <2>1, <3>1, NewRequest
        <3>3. UploadRequest(f, h) \/ InspectCancel(f, h) \/ LockRequest(f) \/ DownloadRequest(f, h)
            BY <2>8, <3>0 DEF Request
        <3>4. CASE UploadRequest(f, h)
            BY <2>1, <2>3, <2>4, <3>2, <3>4 DEF UploadRequest
        <3>5. CASE DownloadRequest(f, h)
            BY <2>1, <2>3, <2>4, <3>2, <3>5 DEF DownloadRequest
        <3>6. CASE LockRequest(f)
            <4>1. toClient' = Append(toClient, Msg("ok", f.id, 0))
                BY <3>6 DEF LockRequest
            <4> QED BY <1>2, <1>3, <2>1, <2>2, <3>2, <4>1
        <3>7. CASE InspectCancel(f, h)
            <4> DEFINE E == IF call[f.id].epoch > h.mediaEpoch
                            THEN {id \in h.contexts : call[id].kind = "inspect"} ELSE {}
            <4>1. h.contexts = host.contexts /\ host.contexts \subseteq Id
                BY <2>2, <3>0, LastFacts, FrameFields DEF Inv
            <4>2. E \subseteq host.contexts /\ E \subseteq Id /\ f.id \notin E
                BY <3>2, <4>1
            <4>3. PICK q \in SetToSeqs(E) :
                     toClient' = toClient \o ([i \in DOMAIN q |-> Msg("error", q[i], 0)] \o <<Msg("ok", f.id, 0)>>)
                BY <3>7 DEF InspectCancel, Handled
            <4> DEFINE t == [i \in DOMAIN q |-> Msg("error", q[i], 0)] \o <<Msg("ok", f.id, 0)>>
            <4> HIDE DEF E
            <4>4. /\ t \in Seq(ClientFrames) /\ \A g \in ToSet(t) : g.id = f.id \/ g.id \in E
                BY <2>2, <4>2, AnswersFacts
            <4>5. toClient' = toClient \o t
                BY <4>3
            <4> HIDE DEF t
            <4>6. \A id \in host.contexts : Live(id)
                BY <2>1 DEF Live
            <4>7. NewFrames(t)
                BY <3>2, <4>2, <4>4, <4>6 DEF NewFrames
            <4> QED BY <2>1, <4>5, <4>7
        <3> QED BY <3>3, <3>4, <3>5, <3>6, <3>7
    <2> QED BY <1>6, <2>0, <2>5, <2>6, <2>7, <2>8 DEF HostReceive
<1>7. CASE HostLost
    BY <1>7 DEF HostLost
<1> QED BY <1>4, <1>5, <1>6, <1>7 DEF HostLoop

\* A request the host has answered, or was told to forget, is never heard of
\* again, although its job may still end and its stream may have had a turn.
THEOREM SettledIsFinal == Spec => SettledStaysSettled
<1> DEFINE Quiet == \A id \in 1..host.last :
                       id \notin host.contexts \cup {host.upload} =>
                          \A i \in (Len(toClient) + 1)..Len(toClient') : toClient'[i].id # id
<1>1. ASSUME Inv, [Next]_vars PROVE Quiet
    <2>0. toClient \in Seq(ClientFrames) /\ Len(toClient) \in Nat /\ host.last \in Nat
        BY <1>1, SetFacts, FrameFields DEF Inv, TypeOK
    <2>1. CASE Len(toClient') \in Nat /\ Len(toClient') <= Len(toClient)
        BY <2>0, <2>1
    <2>2. CASE HostLoop
        <3>1. HostUp /\ (toClient' = toClient \/ \E t : toClient' = toClient \o t /\ NewFrames(t))
            BY <1>1, <2>2, HostAdds
        <3>2. CASE toClient' = toClient
            BY <2>0, <2>1, <3>2
        <3>3. ASSUME NEW t, toClient' = toClient \o t, NewFrames(t),
                     NEW id \in 1..host.last, id \notin host.contexts \cup {host.upload},
                     NEW i \in (Len(toClient) + 1)..Len(toClient')
              PROVE  toClient'[i].id # id
            <4>1. t \in Seq(ClientFrames) /\ \A g \in ToSet(t) : Live(g.id)
                BY <3>3 DEF NewFrames
            <4>2. Len(toClient') = Len(toClient) + Len(t)
                BY <2>0, <3>3, <4>1, ConcatFacts
            <4>3. i - Len(toClient) \in 1..Len(t) /\ toClient'[i] = t[i - Len(toClient)]
                BY <2>0, <3>3, <4>1, <4>2, ConcatFacts
            <4>4. toClient'[i] \in ToSet(t)
                BY <4>1, <4>3, SetFacts
            <4>5. Live(toClient'[i].id)
                BY <4>1, <4>4
            <4>6. ~Live(id)
                BY <2>0, <3>3 DEF Live
            <4> QED BY <4>5, <4>6
        <3> QED BY <3>1, <3>2, <3>3
    <2> QED BY <1>1, <2>1, <2>2, ClientAddsNothing DEF Next
<1> QED BY <1>1, AlwaysInv, PTL DEF Spec, SettledStaysSettled

(***************************************************************************)
(* The epochs of media inspection.                                          *)
(***************************************************************************)
\* The requests that were sent stay what they are.
CallsKept == \A id \in Id : call'[id].kind = call[id].kind /\ call'[id].epoch = call[id].epoch

\* A step that sends no request and starts no job.
LEMMA EpochsKept ==
    ASSUME Inv, EpochsOK, CallsKept, nextId' = nextId, cancelEpoch' = cancelEpoch,
           \/ host' = NoHost
           \/ /\ host'.mediaEpoch = host.mediaEpoch /\ host'.contexts \subseteq host.contexts
              /\ host'.last \in Nat /\ host.last <= host'.last
    PROVE  EpochsOK'
<1>1. host.contexts \subseteq Id /\ host.last \in Nat /\ host.last <= MaxCalls
    BY FrameFields DEF Inv
<1>2. /\ \A id \in Id : id < nextId' /\ call'[id].kind = "inspectCancel" => call'[id].epoch <= cancelEpoch'
      /\ \A i, j \in Id :
            i < j /\ j < nextId' /\ call'[i].kind = "inspectCancel" /\ call'[j].kind = "inspect" =>
               call'[i].epoch <= call'[j].epoch
    BY DEF EpochsOK, CallsKept
<1>3. CASE host' = NoHost
    <2>1. host'.mediaEpoch = 0 /\ host'.contexts = {}
        BY <1>3 DEF NoHost
    <2> QED BY <1>2, <2>1 DEF EpochsOK, StaleInspectionsEnd
<1>4. CASE /\ host'.mediaEpoch = host.mediaEpoch /\ host'.contexts \subseteq host.contexts
           /\ host'.last \in Nat /\ host.last <= host'.last
    <2>1. 1..host.last \subseteq Id /\ 1..host.last \subseteq 1..host'.last
        BY <1>1, <1>4, BoundAssumption DEF Id
    <2>2. host'.mediaEpoch > 0 =>
             \E id \in 1..host'.last : call'[id].kind = "inspectCancel" /\ call'[id].epoch = host'.mediaEpoch
        BY <1>4, <2>1 DEF EpochsOK, CallsKept
    <2>3. StaleInspectionsEnd'
        BY <1>1, <1>4 DEF EpochsOK, CallsKept, StaleInspectionsEnd
    <2> QED BY <1>2, <2>2, <2>3 DEF EpochsOK
<1> QED BY <1>3, <1>4

\* A request is sent.
LEMMA EpochsSend ==
    ASSUME Inv, EpochsOK, NEW kind, NEW epoch \in 0..MaxEpoch, Send(kind, epoch), nextId \in Id,
           cancelEpoch' \in Nat, cancelEpoch <= cancelEpoch', kind = "inspectCancel" => epoch <= cancelEpoch',
           kind = "inspect" => epoch >= cancelEpoch, host' = host
    PROVE  EpochsOK'
<1>1. /\ host.contexts \subseteq Id /\ host.last \in Nat /\ host.last <= MaxCalls /\ host.last < nextId
      /\ host.contexts \subseteq 1..host.last /\ cancelEpoch \in Nat /\ nextId \in Nat
    <2>1. cancelEpoch \in 0..MaxEpoch
        BY DEF Inv, TypeOK
    <2>2. host.contexts \subseteq 1..host.last /\ host.last < nextId
        BY DEF Inv, HostOK
    <2> QED BY <2>1, <2>2, FrameFields DEF Inv
<1>2. nextId' = nextId + 1
    BY DEF Send
<1>3. call'[nextId].kind = kind /\ call'[nextId].epoch = epoch
      /\ \A id \in Id : id # nextId => call'[id] = call[id]
    <2> DEFINE c == [NoCall EXCEPT !.kind = kind, !.epoch = epoch,
                                   !.state = IF kind = "upload" THEN "sending" ELSE "pending"]
    <2>1. call' = [call EXCEPT ![nextId] = c] /\ call \in [Id -> Calls]
        BY DEF Send, Inv, TypeOK
    <2>2. c.kind = kind /\ c.epoch = epoch
        BY DEF NoCall
    <2> HIDE DEF c
    <2> QED BY <2>1, <2>2
<1>4. \A id \in Id : call[id].epoch \in Nat /\ id \in Nat
    BY CallFields DEF Inv, Id
<1>5. ASSUME NEW id \in Id, id < nextId', call'[id].kind = "inspectCancel" PROVE call'[id].epoch <= cancelEpoch'
    <2>1. CASE id = nextId
        BY <1>3, <1>5, <2>1
    <2>2. CASE id # nextId
        <3>0. id \in Nat /\ nextId \in Nat /\ id < nextId + 1
            BY <1>1, <1>2, <1>4, <1>5
        <3>1. id < nextId /\ call'[id] = call[id]
            BY <1>3, <2>2, <3>0
        <3>2. call[id].epoch <= cancelEpoch
            BY <1>5, <3>1 DEF EpochsOK
        <3> QED BY <1>1, <1>4, <3>1, <3>2
    <2> QED BY <2>1, <2>2
<1>6. ASSUME NEW i \in Id, NEW j \in Id, i < j, j < nextId', call'[i].kind = "inspectCancel",
             call'[j].kind = "inspect"
      PROVE  call'[i].epoch <= call'[j].epoch
    <2>0. i \in Nat /\ j \in Nat /\ nextId \in Nat /\ i < j /\ j < nextId + 1
        BY <1>1, <1>2, <1>4, <1>6
    <2>1. i < nextId /\ call'[i] = call[i]
        BY <1>3, <2>0
    <2>2. CASE j = nextId
        <3>1. call[i].epoch <= cancelEpoch /\ epoch >= cancelEpoch
            BY <1>3, <1>6, <2>1, <2>2 DEF EpochsOK
        <3>2. PICK a, b : a = call[i].epoch /\ b = cancelEpoch
            OBVIOUS
        <3>3. a \in Nat /\ b \in Nat /\ a <= b /\ epoch >= b
            BY <1>1, <1>4, <3>1, <3>2
        <3>4. call'[i].epoch = a /\ call'[j].epoch = epoch
            BY <1>3, <2>1, <2>2, <3>2
        <3> QED BY <3>3, <3>4
    <2>3. CASE j # nextId
        <3>0. j \in Nat /\ nextId \in Nat /\ j < nextId + 1
            BY <1>1, <1>2, <1>4, <1>6
        <3>1. j < nextId /\ call'[j] = call[j]
            BY <1>3, <2>3, <3>0
        <3> QED BY <1>6, <2>1, <3>1 DEF EpochsOK
    <2> QED BY <2>2, <2>3
<1>7. \A id \in 1..host.last : id \in Id /\ call'[id] = call[id]
    BY <1>1, <1>3, BoundAssumption DEF Id
<1>8. StaleInspectionsEnd'
    BY <1>1, <1>7 DEF EpochsOK, StaleInspectionsEnd
<1>9. host'.mediaEpoch > 0 =>
         \E id \in 1..host'.last : call'[id].kind = "inspectCancel" /\ call'[id].epoch = host'.mediaEpoch
    BY <1>7 DEF EpochsOK
<1> QED BY <1>5, <1>6, <1>8, <1>9 DEF EpochsOK

\* A job starts, or the epoch of a cancellation is noted and the inspections end.
LEMMA EpochsRequest ==
    ASSUME Inv, EpochsOK, HostUp, HostKeeps, toHost # <<>>, NEW f, f = Head(toHost), f.type = "request",
           host'.last = f.id,
           \/ /\ host'.mediaEpoch = host.mediaEpoch /\ host'.contexts \subseteq host.contexts \cup {f.id}
           \/ /\ call[f.id].kind = "inspectCancel" /\ host'.mediaEpoch = call[f.id].epoch
              /\ host'.contexts \subseteq host.contexts
              /\ \A id \in host'.contexts : call[id].kind # "inspect"
    PROVE  EpochsOK'
<1>1. f.id \in Id /\ f.id \in Nat /\ f.id < nextId /\ f.id > host.last /\ host.last \in Nat
    BY NewRequest
<1>2. call' = call /\ nextId' = nextId /\ cancelEpoch' = cancelEpoch
    BY DEF HostKeeps
<1>3. 1..host.last \subseteq 1..f.id /\ f.id \in 1..f.id /\ 1..f.id \subseteq Id
    BY <1>1, BoundAssumption DEF Id
<1>4. \A id \in Id : call[id].epoch \in Nat
    BY CallFields DEF Inv
<1>5. /\ host'.mediaEpoch > 0 =>
            \E id \in 1..host'.last : call[id].kind = "inspectCancel" /\ call[id].epoch = host'.mediaEpoch
      /\ \A id \in host'.contexts : call[id].kind = "inspect" => call[id].epoch >= host'.mediaEpoch
    <2>1. CASE /\ host'.mediaEpoch = host.mediaEpoch /\ host'.contexts \subseteq host.contexts \cup {f.id}
        <3>1. host'.mediaEpoch > 0 =>
                 \E id \in 1..host'.last : call[id].kind = "inspectCancel" /\ call[id].epoch = host'.mediaEpoch
            BY <1>3, <2>1 DEF EpochsOK
        <3>2. \A id \in host.contexts : call[id].kind = "inspect" => call[id].epoch >= host.mediaEpoch
            BY DEF EpochsOK, StaleInspectionsEnd
        <3>3. ASSUME call[f.id].kind = "inspect" PROVE call[f.id].epoch >= host.mediaEpoch
            <4>0. host.mediaEpoch \in Nat /\ call[f.id].epoch \in Nat
                BY <1>1, <1>4, FrameFields, HostFields DEF Inv, Tables
            <4>1. CASE host.mediaEpoch > 0
                <5>1. PICK i \in 1..host.last : call[i].kind = "inspectCancel" /\ call[i].epoch = host.mediaEpoch
                    BY <4>1 DEF EpochsOK
                <5>2. i \in Id /\ i < f.id
                    BY <1>1, <1>3
                <5>3. call[i].epoch <= call[f.id].epoch
                    BY <1>1, <3>3, <5>1, <5>2 DEF EpochsOK
                <5> QED BY <4>0, <5>1, <5>3
            <4> QED BY <4>0, <4>1
        <3> QED BY <2>1, <3>1, <3>2, <3>3
    <2>2. CASE /\ call[f.id].kind = "inspectCancel" /\ host'.mediaEpoch = call[f.id].epoch
               /\ \A id \in host'.contexts : call[id].kind # "inspect"
        BY <1>3, <2>2
    <2> QED BY <2>1, <2>2
<1> QED BY <1>2, <1>5 DEF EpochsOK, StaleInspectionsEnd

\* The steps of the client keep the epochs in order.
LEMMA EpochsClient ==
    ASSUME Inv, EpochsOK, ClientLoop
    PROVE  EpochsOK'
<1>0. call \in [Id -> Calls] /\ host.last \in Nat /\ TypeOK
    BY FrameFields DEF Inv, TypeOK
<1>1. ASSUME NEW id \in Id, NEW s \in {"free", "sending", "pending", "stream", "over", "left"},
             NEW r \in {"none", "ok", "error", "stream"}, SetCall(id, s, r)
      PROVE  CallsKept
    BY <1>0, <1>1, SetCallFacts DEF CallsKept
<1>2. call' = call => CallsKept
    BY DEF CallsKept
<1>3. ASSUME NEW why, NEW calls, Leave(why, calls), calls \in [Id -> Calls],
             \A id \in Id : calls[id].kind = call[id].kind /\ calls[id].epoch = call[id].epoch
      PROVE  CallsKept /\ host' = NoHost
    <2>1. host' = NoHost
        BY <1>3 DEF Leave
    <2>2. ASSUME NEW id \in Id PROVE call'[id].kind = calls[id].kind /\ call'[id].epoch = calls[id].epoch
        <3>1. call'[id] = IF calls[id].state \in {"free", "over", "left"} THEN calls[id]
                          ELSE [calls[id] EXCEPT !.state = "over",
                                                 !.reply = IF @ = "none" THEN "error" ELSE @]
            BY <1>3 DEF Leave
        <3>2. calls[id] \in Calls
            BY <1>3
        <3> QED BY <3>1, <3>2 DEF Calls
    <2> QED BY <1>3, <2>1, <2>2 DEF CallsKept
<1>4. Leave("errorFrame", call) \/ Leave("streamTimeout", call) \/ Leave("link", call) =>
         CallsKept /\ host' = NoHost
    BY <1>0, <1>3
<1>5. ASSUME CallsKept, nextId' = nextId, cancelEpoch' = cancelEpoch, host' = host \/ host' = NoHost
      PROVE  EpochsOK'
    BY <1>0, <1>5, EpochsKept
<1>6. ASSUME NEW kind \in Kind, NEW epoch \in 0..MaxEpoch, Take(kind, epoch) PROVE EpochsOK'
    <2>1. /\ host' = host
          /\ cancelEpoch' = IF kind = "inspectCancel" /\ epoch > cancelEpoch THEN epoch ELSE cancelEpoch
        BY <1>6 DEF Take
    <2>2. \/ /\ call' = call /\ nextId' = nextId /\ kind # "inspectCancel"
          \/ /\ ~Stale(kind, epoch) /\ Send(kind, epoch)
        BY <1>6 DEF Take, Stale
    <2>3. CASE call' = call /\ nextId' = nextId /\ kind # "inspectCancel"
        BY <1>2, <1>5, <2>1, <2>3
    <2>4. CASE ~Stale(kind, epoch) /\ Send(kind, epoch)
        <3>1. cancelEpoch \in Nat /\ epoch \in Nat /\ asked < MaxCalls
            BY <1>6 DEF Inv, TypeOK, Take
        <3>2. nextId \in Id
            <4>1. /\ nextId \in Nat \ {0} /\ deferred \in Nat /\ asked \in Nat /\ MaxCalls \in Nat
                  /\ nextId + deferred <= asked + 1
                BY BoundAssumption DEF Inv, TypeOK, ClientOK
            <4> QED BY <3>1, <4>1 DEF Id
        <3>3. /\ cancelEpoch' \in Nat /\ cancelEpoch <= cancelEpoch'
              /\ kind = "inspectCancel" => epoch <= cancelEpoch'
              /\ kind = "inspect" => epoch >= cancelEpoch
            BY <2>1, <2>4, <3>1 DEF Stale
        <3> QED BY <2>1, <2>4, <3>2, <3>3, EpochsSend
    <2> QED BY <2>2, <2>3, <2>4
<1>7. CASE SendDeferred
    <2>1. Send("range", 0) /\ host' = host /\ cancelEpoch' = cancelEpoch /\ deferred > 0
        BY <1>7 DEF SendDeferred
    <2>2. cancelEpoch \in Nat /\ 0 \in 0..MaxEpoch
        BY BoundAssumption DEF Inv, TypeOK
    <2>3. nextId \in Id
        <3>1. /\ nextId \in Nat \ {0} /\ deferred \in Nat /\ asked \in 0..MaxCalls /\ MaxCalls \in Nat
              /\ nextId + deferred <= asked + 1
            BY BoundAssumption DEF Inv, TypeOK, ClientOK
        <3> QED BY <2>1, <3>1 DEF Id
    <2> QED BY <2>1, <2>2, <2>3, EpochsSend
<1>8. CASE DroppedReader
    <2>1. nextId' = nextId /\ cancelEpoch' = cancelEpoch /\ host' = host /\ drops # <<>>
        BY <1>8 DEF DroppedReader, Stay
    <2>2. drops \in Seq(Id) /\ Head(drops) \in Id
        BY <2>1, TailFacts DEF Inv, TypeOK
    <2>3. CallsKept
        BY <1>1, <1>2, <1>8, <2>2 DEF DroppedReader
    <2> QED BY <1>5, <2>1, <2>3
<1>9. CASE ClientReceive
    <2>0. PICK f : f = Head(toClient)
        OBVIOUS
    <2>1. /\ nextId' = nextId /\ cancelEpoch' = cancelEpoch
          /\ ErrorFrame(f) \/ forward_active_stream_frame(f) \/ deliver_rpc_response_frame(f) \/ Unmatched(f)
        BY <1>9, <2>0 DEF ClientReceive
    <2>2. f.id \in Id /\ f.type \in {"ok", "error", "meta", "chunk", "final", "failed"}
          /\ (call[f.id].state \in {"sending", "pending"} => f.type \in {"ok", "error", "meta"})
        BY <1>9, <2>0, HeadFacts DEF ClientReceive
    <2>3. Received => host' = host
        BY DEF Received, Stay
    <2>4. CASE ErrorFrame(f)
        BY <1>1, <1>4, <1>5, <2>1, <2>2, <2>3, <2>4 DEF ErrorFrame
    <2>5. CASE forward_active_stream_frame(f)
        BY <1>1, <1>2, <1>5, <2>1, <2>2, <2>3, <2>5 DEF forward_active_stream_frame, Overflow
    <2>6. CASE deliver_rpc_response_frame(f)
        <3> DEFINE c == [call[f.id] EXCEPT !.state = "over", !.reply = f.type]
                   a == [call EXCEPT ![f.id].state = "over", ![f.id].reply = f.type]
        <3>1. f.type # "meta" => f.type \in {"ok", "error"}
            BY <2>2, <2>6 DEF deliver_rpc_response_frame
        <3>2. a = [call EXCEPT ![f.id] = c]
            BY <1>0, <2>2
        <3>3. f.type # "meta" => c \in Calls
            BY <1>0, <2>2, <3>1, ZenonT(60) DEF Calls
        <3>4. c.kind = call[f.id].kind /\ c.epoch = call[f.id].epoch
            BY <1>0, <2>2 DEF Calls
        <3> HIDE DEF c
        <3>5. /\ f.type # "meta" => a \in [Id -> Calls]
              /\ \A id \in Id : a[id].kind = call[id].kind /\ a[id].epoch = call[id].epoch
            BY <1>0, <2>2, <3>2, <3>3, <3>4
        <3>6. \/ SetCall(f.id, "stream", "stream") /\ Received
              \/ Leave("lock", a) /\ f.type # "meta"
              \/ call' = a /\ Received
            BY <2>6 DEF deliver_rpc_response_frame
        <3> HIDE DEF a
        <3>7. CASE SetCall(f.id, "stream", "stream") /\ Received
            BY <1>1, <1>5, <2>1, <2>2, <2>3, <3>7
        <3>8. CASE Leave("lock", a) /\ f.type # "meta"
            BY <1>3, <1>5, <2>1, <3>5, <3>8
        <3>9. CASE call' = a /\ Received
            <4>1. CallsKept
                BY <3>5, <3>9 DEF CallsKept
            <4> QED BY <1>5, <2>1, <2>3, <3>9, <4>1
        <3> QED BY <3>6, <3>7, <3>8, <3>9
    <2>7. CASE Unmatched(f)
        BY <1>2, <1>5, <2>1, <2>3, <2>7 DEF Unmatched
    <2> QED BY <2>1, <2>4, <2>5, <2>6, <2>7
<1>10. CASE send_next_outgoing_stream_chunk
    <2>0. PICK id : id = Head(upOrder)
        OBVIOUS
    <2>1. nextId' = nextId /\ cancelEpoch' = cancelEpoch /\ upOrder # <<>>
        BY <1>10 DEF send_next_outgoing_stream_chunk
    <2>2. id \in Id
        BY <2>0, <2>1, TailFacts DEF Inv, TypeOK
    <2>3. Sent => host' = host
        BY DEF Sent, Stay
    <2>4. \/ call' = [call EXCEPT ![id].sent = @ + 1] /\ Sent
          \/ call' = [call EXCEPT ![id].state = "pending"] /\ Sent
          \/ SetCall(id, "left", "error") /\ Sent
          \/ Leave("streamTimeout", call)
        BY <1>10, <2>0 DEF send_next_outgoing_stream_chunk
    <2>5. CASE \/ call' = [call EXCEPT ![id].sent = @ + 1] /\ Sent
               \/ call' = [call EXCEPT ![id].state = "pending"] /\ Sent
        <3>1. CallsKept
            BY <1>0, <2>2, <2>5 DEF CallsKept, Calls
        <3> QED BY <1>5, <2>1, <2>3, <2>5, <3>1
    <2>6. CASE SetCall(id, "left", "error") /\ Sent
        BY <1>1, <1>5, <2>1, <2>2, <2>3, <2>6
    <2>7. CASE Leave("streamTimeout", call)
        BY <1>4, <1>5, <2>1, <2>7
    <2> QED BY <2>4, <2>5, <2>6, <2>7
<1>11. ASSUME NEW id \in Id, TimeoutScan(id) PROVE EpochsOK'
    <2>1. nextId' = nextId /\ cancelEpoch' = cancelEpoch /\ host' = host /\ SetCall(id, "left", "error")
        BY <1>11 DEF TimeoutScan, Stay
    <2> QED BY <1>1, <1>5, <2>1
<1>12. CASE ClientLost
    BY <1>4, <1>5, <1>12 DEF ClientLost
<1> QED BY <1>6, <1>7, <1>8, <1>9, <1>10, <1>11, <1>12 DEF ClientLoop

\* The steps of the host keep the epochs in order.
LEMMA EpochsHost ==
    ASSUME Inv, EpochsOK, HostLoop
    PROVE  EpochsOK'
<1>0. host \in Hosts /\ Tables(host) /\ host.last \in Nat
    BY FrameFields DEF Inv, Tables
<1>1. ASSUME HostKeeps,
             \/ host' = NoHost
             \/ /\ host'.mediaEpoch = host.mediaEpoch /\ host'.contexts \subseteq host.contexts
                /\ host'.last = host.last
      PROVE  EpochsOK'
    <2>1. call' = call /\ nextId' = nextId /\ cancelEpoch' = cancelEpoch
        BY <1>1 DEF HostKeeps
    <2>2. CallsKept
        BY <2>1 DEF CallsKept
    <2> QED BY <1>0, <1>1, <2>1, <2>2, EpochsKept
<1>2. ASSUME NEW why, HostLeaves(why) PROVE host' = NoHost
    BY <1>2 DEF HostLeaves
<1>3. ASSUME NEW id \in Id, HostKeeps, host' = Settled(host, id) PROVE EpochsOK'
    <2> DEFINE g == Settled(host, id)
    <2>1. g.last = host.last /\ g.mediaEpoch = host.mediaEpoch /\ g.contexts \subseteq host.contexts
        BY <1>0, SettledFacts
    <2>2. host' = g
        BY <1>3
    <2> HIDE DEF g
    <2> QED BY <1>1, <1>3, <2>1, <2>2
<1>4. ASSUME NEW id \in Id, Completed(id) PROVE EpochsOK'
    <2> DEFINE h == [host EXCEPT !.jobs = @ \ {id}]
               g == [h EXCEPT !.streams = @ \cup {id}, !.order = Append(@, id)]
    <2>1. h \in Hosts /\ h.last = host.last /\ h.mediaEpoch = host.mediaEpoch /\ h.contexts = host.contexts
        BY <1>0 DEF Hosts
    <2>2. g.last = host.last /\ g.mediaEpoch = host.mediaEpoch /\ g.contexts = host.contexts
        BY <1>0 DEF Hosts
    <2>3. HostKeeps /\ (host' = h \/ host' = Settled(h, id) \/ host' = g \/ host' = NoHost)
        BY <1>4 DEF Completed, HostLeaves
    <2>4. /\ Settled(h, id).last = h.last /\ Settled(h, id).mediaEpoch = h.mediaEpoch
          /\ Settled(h, id).contexts = h.contexts \ {id}
        <3> HIDE DEF h
        <3> QED BY <2>1 DEF Settled, Hosts
    <2> HIDE DEF h, g
    <2> QED BY <1>1, <2>1, <2>2, <2>3, <2>4
<1>5. CASE send_next_host_outgoing_stream_chunk
    <2>0. PICK id : id = Head(host.order)
        OBVIOUS
    <2>1. HostUp /\ host.streams # {} /\ HostKeeps
        BY <1>5 DEF send_next_host_outgoing_stream_chunk
    <2>2. id \in Id
        BY <2>0, <2>1, TurnOfStream
    <2>3. \/ host' = [host EXCEPT !.sent[id] = @ + 1, !.order = Append(Tail(@), id)]
          \/ host' = Settled(host, id)
        BY <1>5, <2>0 DEF send_next_host_outgoing_stream_chunk
    <2>4. CASE host' = [host EXCEPT !.sent[id] = @ + 1, !.order = Append(Tail(@), id)]
        <3>1. host'.last = host.last /\ host'.mediaEpoch = host.mediaEpoch /\ host'.contexts = host.contexts
            BY <1>0, <2>4 DEF Hosts
        <3> QED BY <1>1, <2>1, <3>1
    <2> QED BY <1>3, <2>1, <2>2, <2>3, <2>4
<1>6. CASE HostReceive
    <2>0. PICK f : f = Head(toHost)
        OBVIOUS
    <2>1. HostUp /\ toHost # <<>> /\ HostKeeps
        BY <1>6 DEF HostReceive
    <2>2. f.id \in Id
        BY <2>0, <2>1, HostHeadFacts
    <2>3. ASSUME NEW h, NEW frames, Handled(h, frames) PROVE host' = h
        BY <2>3 DEF Handled
    <2>4. /\ UploadOver(host).last = host.last /\ UploadOver(host).mediaEpoch = host.mediaEpoch
          /\ UploadOver(host).contexts = host.contexts
        BY UploadOverFacts
    <2>5. CASE StreamControl(f)
        <3>1. \/ host' = UploadOver(host) \/ host' = Settled(host, f.id) \/ host' = NoHost
              \/ host' = [host EXCEPT !.recent = RemoveFirst(@, f.id)]
            BY <1>2, <2>3, <2>5 DEF StreamControl, Cancelled
        <3>2. CASE host' = [host EXCEPT !.recent = RemoveFirst(@, f.id)]
            <4>1. host'.last = host.last /\ host'.mediaEpoch = host.mediaEpoch /\ host'.contexts = host.contexts
                BY <1>0, <3>2 DEF Hosts
            <4> QED BY <1>1, <2>1, <4>1
        <3>3. CASE host' = UploadOver(host) \/ host' = NoHost
            BY <1>1, <2>1, <2>4, <3>3
        <3> QED BY <1>3, <2>1, <2>2, <3>1, <3>2, <3>3
    <2>6. CASE ReplayDetected(f)
        BY <1>1, <1>2, <2>1, <2>6 DEF ReplayDetected
    <2>7. CASE UploadFrame(f)
        <3>1. host' = host \/ host' = UploadOver(host) \/ host' = NoHost
            BY <1>2, <2>3, <2>7 DEF UploadFrame
        <3> QED BY <1>1, <2>1, <2>4, <3>1
    <2>8. CASE Request(f)
        <3>0. PICK h : h = [host EXCEPT !.last = f.id]
            OBVIOUS
        <3>1. /\ f.type = "request"
              /\ UploadRequest(f, h) \/ InspectCancel(f, h) \/ LockRequest(f) \/ DownloadRequest(f, h)
            BY <2>8, <3>0 DEF Request
        <3>2. /\ h \in Hosts /\ h.last = f.id /\ h.contexts = host.contexts /\ h.mediaEpoch = host.mediaEpoch
            BY <2>2, <3>0, LastFacts DEF Tables
        <3>3. ASSUME host'.last = f.id, host'.mediaEpoch = host.mediaEpoch,
                     host'.contexts \subseteq host.contexts \cup {f.id}
              PROVE  EpochsOK'
            BY <2>0, <2>1, <3>1, <3>3, EpochsRequest
        <3>4. CASE UploadRequest(f, h)
            <4>1. host' = h \/ host' = [h EXCEPT !.upload = f.id, !.active = f.id]
                BY <2>3, <3>4 DEF UploadRequest
            <4>2. host'.last = h.last /\ host'.mediaEpoch = h.mediaEpoch /\ host'.contexts = h.contexts
                BY <3>2, <4>1 DEF Hosts
            <4> QED BY <3>2, <3>3, <4>2
        <3>5. CASE DownloadRequest(f, h)
            <4>1. host' = h \/ host' = [h EXCEPT !.contexts = @ \cup {f.id}, !.jobs = @ \cup {f.id}]
                BY <2>3, <3>5 DEF DownloadRequest
            <4>2. /\ host'.last = h.last /\ host'.mediaEpoch = h.mediaEpoch
                  /\ host'.contexts \subseteq h.contexts \cup {f.id}
                BY <3>2, <4>1 DEF Hosts
            <4> QED BY <3>2, <3>3, <4>2
        <3>6. CASE LockRequest(f)
            BY <1>1, <1>2, <2>1, <3>6 DEF LockRequest
        <3>7. CASE InspectCancel(f, h)
            <4> DEFINE epoch == call[f.id].epoch
                       E == IF epoch > h.mediaEpoch
                            THEN {id \in h.contexts : call[id].kind = "inspect"} ELSE {}
                       e == IF epoch > h.mediaEpoch THEN epoch ELSE h.mediaEpoch
                       g == [h EXCEPT !.contexts = @ \ E, !.mediaEpoch = e]
            <4>1. call[f.id].kind = "inspectCancel"
                BY <3>7 DEF InspectCancel
            <4>2. host' = g
                <5>1. host' = [h EXCEPT !.contexts = @ \ E, !.mediaEpoch = IF epoch > @ THEN epoch ELSE @]
                    BY <2>3, <3>7 DEF InspectCancel
                <5> QED BY <3>2, <5>1 DEF Hosts
            <4>3. /\ epoch > host.mediaEpoch => /\ E = {id \in host.contexts : call[id].kind = "inspect"}
                                                /\ e = epoch
                  /\ ~(epoch > host.mediaEpoch) => E = {} /\ e = host.mediaEpoch
                BY <3>2
            <4> HIDE DEF E, e
            <4>4. host'.last = h.last /\ host'.mediaEpoch = e /\ host'.contexts = h.contexts \ E
                BY <3>2, <4>2 DEF Hosts
            <4> HIDE DEF g
            <4>5. CASE epoch > host.mediaEpoch
                <5>1. /\ host'.mediaEpoch = call[f.id].epoch /\ host'.contexts \subseteq host.contexts
                      /\ \A id \in host'.contexts : call[id].kind # "inspect"
                    BY <3>2, <4>3, <4>4, <4>5
                <5> QED BY <2>0, <2>1, <3>1, <3>2, <4>1, <4>4, <5>1, EpochsRequest
            <4>6. CASE ~(epoch > host.mediaEpoch)
                BY <3>2, <3>3, <4>3, <4>4, <4>6
            <4> QED BY <4>5, <4>6
        <3> QED BY <3>1, <3>4, <3>5, <3>6, <3>7
    <2> QED BY <1>6, <2>0, <2>5, <2>6, <2>7, <2>8 DEF HostReceive
<1>7. CASE HostLost
    BY <1>1, <1>2, <1>7 DEF HostLost
<1> QED BY <1>4, <1>5, <1>6, <1>7 DEF HostLoop

\* Once the host has handled the cancellation of an epoch, no inspection of an
\* older epoch runs or starts there, whatever was on its way: the client refuses
\* those that come later and the host ends those that came before.
THEOREM CancelledInspectionsEnd == Spec => []StaleInspectionsEnd
<1>1. Init => EpochsOK
    <2>1. Init => nextId = 1 /\ host.mediaEpoch = 0 /\ host.contexts = {}
        BY DEF Init, NoHost
    <2>2. \A id \in Id : ~(id < 1)
        BY DEF Id
    <2> QED BY <2>1, <2>2 DEF EpochsOK, StaleInspectionsEnd
<1>2. ASSUME Inv, EpochsOK, [Next]_vars PROVE EpochsOK'
    <2>1. CASE ClientLoop
        BY <1>2, <2>1, EpochsClient
    <2>2. CASE HostLoop
        BY <1>2, <2>2, EpochsHost
    <2>3. CASE Readers \/ Over \/ UNCHANGED vars
        <3>1. call' = call /\ nextId' = nextId /\ cancelEpoch' = cancelEpoch /\ host' = host
            BY <2>3, ZenonT(60) DEF Readers, Read, DropReader, Over, vars
        <3> QED BY <1>2, <3>1, SMTT(30) DEF EpochsOK, StaleInspectionsEnd
    <2> QED BY <1>2, <2>1, <2>2, <2>3 DEF Next
<1>3. EpochsOK => StaleInspectionsEnd
    BY DEF EpochsOK
<1> QED BY <1>1, <1>2, <1>3, AlwaysInv, PTL DEF Spec
=============================================================================
