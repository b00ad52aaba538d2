---------------------------- MODULE BrowseProofs ----------------------------
(***************************************************************************)
(* Proofs about Browse, for any rows, peers and routes and any number of   *)
(* requests and faults.                                                    *)
(***************************************************************************)
EXTENDS Browse, FiniteSetTheorems, SequenceTheorems, TLAPS

-----------------------------------------------------------------------------
(* The inductive invariant of the components.                              *)

\* s is a sequence.
IsSequence(s) == s \in Seq({s[i] : i \in DOMAIN s})

\* r is a record with these fields.
HasFields(r, fields) == r = [x \in fields |-> r[x]]

ComponentFields == {"key", "shown", "loading", "error", "calls", "raced"}
PageFields == {"page", "peers", "total", "at", "whole"}
DetailFields == {"peer", "types", "networks", "nodeStatuses", "recentBlocks", "seen", "step", "whole"}
MessagesFields == {"key", "messages", "at", "whole"}

\* Off stands for no component, and None for no answer.  (TLC gives both a model value,
\* which differs from every record.)
AbsencesDiffer ==
    /\ ~HasFields(Off, ComponentFields)
    /\ \A fields \in {PageFields, DetailFields, MessagesFields} : ~HasFields(None, fields)

IsCall(call) == HasFields(call, {"key", "reply"})

IsComponent(c) ==
    /\ HasFields(c, ComponentFields)
    /\ c.loading \in BOOLEAN /\ c.error \in BOOLEAN /\ c.raced \in BOOLEAN
    /\ IsSequence(c.calls)
    /\ \A i \in DOMAIN c.calls : IsCall(c.calls[i])

\* The answers of component c have these fields, and in field f the key they were asked
\* for; unless its requests raced, it waits for one answer at most, and shows what it was
\* asked for; and it waits for a request while it loads or has nothing to show.
Follows(c, f, fields) ==
    /\ \A i \in DOMAIN c.calls :
          c.calls[i].reply # Pending =>
              HasFields(c.calls[i].reply, fields) /\ c.calls[i].reply[f] = c.calls[i].key
    /\ ~c.raced => Len(c.calls) <= 1 /\ \A i \in DOMAIN c.calls : c.calls[i].key = c.key
    /\ ~c.raced /\ ~c.loading /\ ~c.error /\ c.shown # None => c.shown[f] = c.key
    /\ c.loading \/ (~c.error /\ c.shown = None) => c.calls # << >>

ListInv == list # Off => IsComponent(list) /\ Follows(list, "page", PageFields)

DetailInv ==
    detail # Off =>
        /\ IsComponent(detail) /\ Follows(detail, "peer", DetailFields)
        /\ detail.key = route

\* The messages go with the details on screen.
SectionInv ==
    section # Off =>
        /\ IsComponent(section) /\ Follows(section, "key", MessagesFields)
        /\ OnScreen(detail)
        /\ section.key = <<detail.shown.peer, section.key[2]>>

FollowInv == IsSequence(trail) /\ ListInv /\ DetailInv /\ SectionInv

-----------------------------------------------------------------------------
(* Sequences.                                                              *)

LEMMA OwnRange ==
    ASSUME NEW S, NEW s \in Seq(S)
    PROVE  IsSequence(s) /\ DOMAIN s = 1..Len(s) /\ Len(s) \in Nat
<1>1. s \in [1..Len(s) -> S] /\ Len(s) \in Nat
      BY LenProperties
<1>2. s \in [1..Len(s) -> {s[i] : i \in DOMAIN s}]
      BY <1>1
<1>3. s \in Seq({s[i] : i \in DOMAIN s})
      BY <1>1, <1>2
<1> QED BY <1>1, <1>3 DEF IsSequence

\* A sequence with an element more.
LEMMA Appended ==
    ASSUME NEW s, IsSequence(s), NEW x
    PROVE  /\ IsSequence(Append(s, x)) /\ Len(s) \in Nat
           /\ Len(Append(s, x)) = Len(s) + 1 /\ DOMAIN Append(s, x) = 1..(Len(s) + 1)
           /\ DOMAIN s = 1..Len(s)
           /\ \A i \in DOMAIN s : Append(s, x)[i] = s[i]
           /\ Append(s, x)[Len(s) + 1] = x
<1> DEFINE S == {s[i] : i \in DOMAIN s} \union {x}
<1>1. s \in Seq(S) /\ x \in S
  <2>1. s \in Seq({s[i] : i \in DOMAIN s})
        BY DEF IsSequence
  <2> QED BY <2>1, SeqMonotonic
<1> HIDE DEF S
<1>2. /\ Append(s, x) \in Seq(S) /\ Len(Append(s, x)) = Len(s) + 1
      /\ \A i \in 1..Len(s) : Append(s, x)[i] = s[i]
      /\ Append(s, x)[Len(s) + 1] = x
      BY <1>1, AppendProperties
<1>3. IsSequence(Append(s, x)) /\ DOMAIN Append(s, x) = 1..(Len(s) + 1)
      BY <1>2, OwnRange
<1> QED BY <1>1, <1>2, <1>3, OwnRange

\* A sequence with an element less.
LEMMA WithoutElement ==
    ASSUME NEW S, NEW s \in Seq(S), NEW i \in 1..Len(s)
    PROVE  /\ RemoveAt(s, i) \in Seq(S)
           /\ Len(RemoveAt(s, i)) = Len(s) - 1
           /\ \A k \in 1..Len(RemoveAt(s, i)) :
                \E j \in 1..Len(s) : RemoveAt(s, i)[k] = s[j]
<1> DEFINE head == SubSeq(s, 1, i - 1)
           tail == SubSeq(s, i + 1, Len(s))
<1>1. Len(s) \in Nat /\ i \in Int /\ 1 <= i /\ i <= Len(s) /\ \A j \in 1..Len(s) : s[j] \in S
      OBVIOUS
<1>2. /\ head \in Seq(S) /\ Len(head) = i - 1
      /\ \A k \in 1..(i - 1) : head[k] = s[k]
      BY <1>1, SubSeqProperties
<1>3. /\ tail \in Seq(S) /\ Len(tail) = Len(s) - i
      /\ \A k \in 1..(Len(s) - i) : tail[k] = s[i + k]
  <2>1. \A j \in (i + 1)..Len(s) : s[j] \in S
        BY <1>1
  <2>2. /\ tail \in Seq(S)
        /\ Len(tail) = IF i + 1 <= Len(s) THEN Len(s) - (i + 1) + 1 ELSE 0
        /\ \A k \in 1..(Len(s) - (i + 1) + 1) : tail[k] = s[i + 1 + k - 1]
        BY <1>1, <2>1, SubSeqProperties
  <2>3. \A k \in 1..(Len(s) - i) : i + 1 + k - 1 = i + k
        BY <1>1
  <2> QED BY <1>1, <2>2, <2>3
<1> HIDE DEF head, tail
<1>4. /\ head \o tail \in Seq(S) /\ Len(head \o tail) = Len(s) - 1
      /\ \A k \in 1..(Len(s) - 1) :
           (head \o tail)[k] = IF k <= i - 1 THEN head[k] ELSE tail[k - (i - 1)]
      BY <1>1, <1>2, <1>3, ConcatProperties
<1>5. ASSUME NEW k \in 1..(Len(s) - 1)
      PROVE  \E j \in 1..Len(s) : (head \o tail)[k] = s[j]
  <2>1. CASE k <= i - 1
        BY <1>1, <1>2, <1>4, <2>1
  <2>2. CASE k > i - 1
    <3>1. k - (i - 1) \in 1..(Len(s) - i) /\ i + (k - (i - 1)) = k + 1 /\ k + 1 \in 1..Len(s)
          BY <1>1, <2>2
    <3>2. (head \o tail)[k] = s[k + 1]
          BY <1>1, <1>3, <1>4, <2>2, <3>1
    <3> QED BY <3>1, <3>2
  <2>3. k \in Int /\ i - 1 \in Int
        BY <1>1
  <2>4. k <= i - 1 \/ k > i - 1
        BY <2>3
  <2> QED BY <2>1, <2>2, <2>4
<1>6. RemoveAt(s, i) = head \o tail
      BY DEF RemoveAt, head, tail
<1> QED BY <1>4, <1>5, <1>6

LEMMA Removed ==
    ASSUME NEW s, IsSequence(s), NEW i \in DOMAIN s
    PROVE  /\ IsSequence(RemoveAt(s, i)) /\ Len(s) \in Nat
           /\ Len(RemoveAt(s, i)) = Len(s) - 1 /\ DOMAIN RemoveAt(s, i) = 1..(Len(s) - 1)
           /\ \A k \in DOMAIN RemoveAt(s, i) : \E j \in DOMAIN s : RemoveAt(s, i)[k] = s[j]
<1> DEFINE S == {s[j] : j \in DOMAIN s}
           r == RemoveAt(s, i)
<1>1. s \in Seq(S)
      BY DEF IsSequence
<1> HIDE DEF S
<1>2. Len(s) \in Nat /\ DOMAIN s = 1..Len(s) /\ i \in 1..Len(s)
      BY <1>1
<1>3. /\ r \in Seq(S) /\ Len(r) = Len(s) - 1
      /\ \A k \in 1..Len(r) : \E j \in 1..Len(s) : r[k] = s[j]
      BY <1>1, <1>2, WithoutElement
<1> HIDE DEF r
<1>4. IsSequence(r) /\ DOMAIN r = 1..Len(r)
      BY <1>3, OwnRange
<1> QED BY <1>2, <1>3, <1>4 DEF r

LEMMA Shortened ==
    ASSUME NEW s, IsSequence(s)
    PROVE  IsSequence(Front(s))
<1>1. s \in Seq({s[i] : i \in DOMAIN s})
      BY DEF IsSequence
<1>2. Len(s) \in Nat /\ \A i \in 1..(Len(s) - 1) : s[i] \in {s[j] : j \in DOMAIN s}
      BY <1>1
<1>3. Front(s) \in Seq({s[i] : i \in DOMAIN s})
      BY <1>2, SubSeqProperties DEF Front
<1> QED BY <1>3, OwnRange

-----------------------------------------------------------------------------
(* A component that fetches.                                               *)

LEMMA MountedFollows ==
    ASSUME NEW key, NEW f, NEW fields
    PROVE  /\ IsComponent(Mounted(key)) /\ Follows(Mounted(key), f, fields)
           /\ Mounted(key).key = key /\ Mounted(key).loading = TRUE
           /\ Mounted(key).calls = <<Call(key)>>
<1> DEFINE c == Mounted(key)
<1>1. /\ c.key = key /\ c.shown = None /\ c.loading = TRUE /\ c.error = FALSE /\ c.raced = FALSE
      /\ c.calls = <<Call(key)>>
      /\ HasFields(c, ComponentFields)
      BY DEF Mounted, HasFields, ComponentFields
<1> HIDE DEF c
<1>2. IsSequence(<<Call(key)>>) /\ Len(<<Call(key)>>) = 1 /\ DOMAIN <<Call(key)>> = {1}
  <2>1. <<Call(key)>> \in Seq({Call(key)}) /\ Len(<<Call(key)>>) = 1
        OBVIOUS
  <2>2. IsSequence(<<Call(key)>>) /\ DOMAIN <<Call(key)>> = 1..1
        BY <2>1, OwnRange
  <2> QED BY <2>1, <2>2
<1>3. c.calls[1] = Call(key)
      BY <1>1
<1>4. Call(key).key = key /\ Call(key).reply = Pending /\ IsCall(Call(key))
      BY DEF Call, IsCall, HasFields
<1>5. IsComponent(c)
      BY <1>1, <1>2, <1>3, <1>4 DEF IsComponent
<1>6. Follows(c, f, fields)
  <2>1. c.calls # << >>
        BY <1>1, <1>2, EmptySeq
  <2> QED BY <1>1, <1>2, <1>3, <1>4, <2>1 DEF Follows
<1> QED BY <1>1, <1>5, <1>6 DEF c

LEMMA FetchFollows ==
    ASSUME NEW c, IsComponent(c), NEW key, NEW f, NEW fields, Follows(c, f, fields)
    PROVE  /\ IsComponent(Fetch(c, key)) /\ Follows(Fetch(c, key), f, fields)
           /\ Fetch(c, key).key = key /\ Fetch(c, key).loading = TRUE
           /\ Fetch(c, key).shown = c.shown
           /\ IsSequence(c.calls) /\ Fetch(c, key).calls = Append(c.calls, Call(key))
<1> DEFINE d == Fetch(c, key)
           calls == Append(c.calls, Call(key))
<1>1. /\ d.key = key /\ d.shown = c.shown /\ d.loading = TRUE /\ d.error = FALSE
      /\ d.raced = (c.calls # << >>) /\ d.calls = calls
      /\ HasFields(d, ComponentFields)
      BY DEF Fetch, IsComponent, HasFields, ComponentFields
<1> HIDE DEF d
<1>2. Call(key).key = key /\ Call(key).reply = Pending /\ IsCall(Call(key))
      BY DEF Call, IsCall, HasFields
<1>3. /\ IsSequence(calls) /\ Len(c.calls) \in Nat
      /\ Len(calls) = Len(c.calls) + 1 /\ DOMAIN calls = 1..(Len(c.calls) + 1)
      /\ DOMAIN c.calls = 1..Len(c.calls)
      /\ \A i \in DOMAIN c.calls : calls[i] = c.calls[i]
      /\ calls[Len(c.calls) + 1] = Call(key)
      BY Appended DEF IsComponent
<1> HIDE DEF calls
<1>4. \A i \in DOMAIN calls : i \in DOMAIN c.calls \/ i = Len(c.calls) + 1
      BY <1>3
<1>5. IsComponent(d)
  <2>1. \A i \in DOMAIN d.calls : IsCall(d.calls[i])
        BY <1>1, <1>2, <1>3, <1>4 DEF IsComponent
  <2>2. d.loading \in BOOLEAN /\ d.error \in BOOLEAN /\ d.raced \in BOOLEAN /\ IsSequence(d.calls)
        BY <1>1, <1>3
  <2> QED BY <1>1, <2>1, <2>2 DEF IsComponent
<1>6. Follows(d, f, fields)
  <2>1. \A i \in DOMAIN d.calls :
           d.calls[i].reply # Pending =>
               HasFields(d.calls[i].reply, fields) /\ d.calls[i].reply[f] = d.calls[i].key
        BY <1>1, <1>2, <1>3, <1>4 DEF Follows
  <2>2. ~d.raced => Len(c.calls) = 0
    <3>1. ~d.raced => c.calls = << >>
          BY <1>1
    <3> QED BY <3>1, EmptySeq
  <2>3. ~d.raced => Len(d.calls) <= 1 /\ \A i \in DOMAIN d.calls : d.calls[i].key = d.key
        BY <1>1, <1>2, <1>3, <1>4, <2>2
  <2>4. d.calls # << >>
    <3>1. Len(d.calls) # 0
          BY <1>1, <1>3
    <3> QED BY <3>1, EmptySeq
  <2> QED BY <1>1, <2>1, <2>3, <2>4 DEF Follows
<1>7. IsSequence(c.calls)
      BY DEF IsComponent
<1> QED BY <1>1, <1>5, <1>6, <1>7 DEF d, calls

\* A call that ends, with an answer or without.
LEMMA EndFollows ==
    ASSUME NEW c, IsComponent(c), NEW f, NEW fields, Follows(c, f, fields), NEW i \in DOMAIN c.calls,
           NEW d, IsComponent(d), d.key = c.key, d.raced = c.raced,
           d.calls = RemoveAt(c.calls, i),
           ~HasFields(None, fields), d.loading = FALSE,
           d.error \/ (d.shown = c.calls[i].reply /\ c.calls[i].reply # Pending)
    PROVE  Follows(d, f, fields)
<1>1. /\ Len(c.calls) \in Nat
      /\ Len(d.calls) = Len(c.calls) - 1
      /\ \A k \in DOMAIN d.calls : \E j \in DOMAIN c.calls : d.calls[k] = c.calls[j]
      BY Removed DEF IsComponent
<1>2. \A k \in DOMAIN d.calls :
         d.calls[k].reply # Pending => d.calls[k].reply[f] = d.calls[k].key
      BY <1>1 DEF Follows
<1>3. ~d.raced => Len(d.calls) <= 1 /\ \A k \in DOMAIN d.calls : d.calls[k].key = d.key
      BY <1>1 DEF Follows
<1>4. ~d.raced /\ ~d.error => d.shown[f] = d.key
      BY DEF Follows
<1>5. d.error \/ d.shown # None
      BY DEF Follows
<1>6. \A k \in DOMAIN d.calls :
         d.calls[k].reply # Pending => HasFields(d.calls[k].reply, fields)
      BY <1>1 DEF Follows
<1> QED BY <1>2, <1>3, <1>4, <1>5, <1>6 DEF Follows

LEMMA ArrivedFollows ==
    ASSUME NEW c, IsComponent(c), NEW f, NEW fields, Follows(c, f, fields), NEW i \in DOMAIN c.calls,
           ~HasFields(None, fields), c.calls[i].reply # Pending
    PROVE  /\ IsComponent(Arrived(c, i)) /\ Follows(Arrived(c, i), f, fields)
           /\ Arrived(c, i).key = c.key /\ Arrived(c, i).shown = c.calls[i].reply
           /\ Arrived(c, i).loading = FALSE /\ Arrived(c, i).error = c.error
           /\ Arrived(c, i).calls = RemoveAt(c.calls, i)
<1> DEFINE d == Arrived(c, i)
<1>1. /\ d.key = c.key /\ d.shown = c.calls[i].reply /\ d.loading = FALSE /\ d.error = c.error
      /\ d.raced = c.raced /\ d.calls = RemoveAt(c.calls, i)
      /\ HasFields(d, ComponentFields)
      BY DEF Arrived, Finally, IsComponent, HasFields, ComponentFields
<1> HIDE DEF d
<1>2. IsComponent(d)
  <2>1. IsSequence(d.calls) /\ \A k \in DOMAIN d.calls : IsCall(d.calls[k])
        BY <1>1, Removed DEF IsComponent
  <2>2. d.loading \in BOOLEAN /\ d.error \in BOOLEAN /\ d.raced \in BOOLEAN
        BY <1>1 DEF IsComponent
  <2> QED BY <1>1, <2>1, <2>2 DEF IsComponent
<1>3. Follows(d, f, fields)
      BY <1>1, <1>2, EndFollows
<1> QED BY <1>1, <1>2, <1>3 DEF d

LEMMA FailedFollows ==
    ASSUME NEW c, IsComponent(c), NEW f, NEW fields, Follows(c, f, fields), NEW i \in DOMAIN c.calls,
           ~HasFields(None, fields)
    PROVE  /\ IsComponent(Failed(c, i)) /\ Follows(Failed(c, i), f, fields)
           /\ Failed(c, i).key = c.key /\ Failed(c, i).shown = c.shown
           /\ Failed(c, i).loading = FALSE /\ Failed(c, i).error = TRUE
           /\ Failed(c, i).calls = RemoveAt(c.calls, i)
<1> DEFINE d == Failed(c, i)
<1>1. /\ d.key = c.key /\ d.shown = c.shown /\ d.loading = FALSE /\ d.error = TRUE
      /\ d.raced = c.raced /\ d.calls = RemoveAt(c.calls, i)
      /\ HasFields(d, ComponentFields)
      BY DEF Failed, Finally, IsComponent, HasFields, ComponentFields
<1> HIDE DEF d
<1>2. IsComponent(d)
  <2>1. IsSequence(d.calls) /\ \A k \in DOMAIN d.calls : IsCall(d.calls[k])
        BY <1>1, Removed DEF IsComponent
  <2>2. d.loading \in BOOLEAN /\ d.error \in BOOLEAN /\ d.raced \in BOOLEAN
        BY <1>1 DEF IsComponent
  <2> QED BY <1>1, <2>1, <2>2 DEF IsComponent
<1>3. Follows(d, f, fields)
      BY <1>1, <1>2, EndFollows
<1> QED BY <1>1, <1>2, <1>3 DEF d

LEMMA CallAnswered ==
    ASSUME NEW call, IsCall(call), NEW reply
    PROVE  [call EXCEPT !.reply = reply] = [key |-> call.key, reply |-> reply]
BY DEF IsCall, HasFields

\* The server answers a call, with what it was asked for.
LEMMA ReplyFollows ==
    ASSUME NEW c, IsComponent(c), NEW f, NEW fields, Follows(c, f, fields), NEW i \in DOMAIN c.calls,
           NEW reply, HasFields(reply, fields), reply[f] = c.calls[i].key
    PROVE  /\ IsComponent(Reply(c, i, reply)) /\ Follows(Reply(c, i, reply), f, fields)
           /\ Reply(c, i, reply).key = c.key /\ Reply(c, i, reply).shown = c.shown
           /\ Reply(c, i, reply).loading = c.loading /\ Reply(c, i, reply).error = c.error
<1> DEFINE d == Reply(c, i, reply)
           call == [key |-> c.calls[i].key, reply |-> reply]
<1>1. IsSequence(c.calls) /\ c.calls \in Seq({c.calls[k] : k \in DOMAIN c.calls})
      BY DEF IsComponent, IsSequence
<1>2. DOMAIN c.calls = 1..Len(c.calls) /\ Len(c.calls) \in Nat
      BY <1>1
<1>3. /\ d.key = c.key /\ d.shown = c.shown /\ d.loading = c.loading /\ d.error = c.error
      /\ d.raced = c.raced
      /\ d.calls = [c.calls EXCEPT ![i] = [c.calls[i] EXCEPT !.reply = reply]]
      /\ HasFields(d, ComponentFields)
      BY DEF Reply, IsComponent, HasFields, ComponentFields
<1>4. [c.calls[i] EXCEPT !.reply = reply] = call
      BY CallAnswered DEF IsComponent
<1> HIDE DEF d
<1>5. d.calls = [c.calls EXCEPT ![i] = call]
      BY <1>3, <1>4
<1>6. call.key = c.calls[i].key /\ call.reply = reply /\ IsCall(call)
      BY DEF IsCall, HasFields
<1> HIDE DEF call
<1>7. /\ DOMAIN d.calls = DOMAIN c.calls /\ d.calls[i] = call
      /\ \A k \in DOMAIN c.calls : k # i => d.calls[k] = c.calls[k]
      BY <1>5
<1>8. IsSequence(d.calls) /\ Len(d.calls) = Len(c.calls)
  <2> DEFINE S == {c.calls[k] : k \in DOMAIN c.calls} \union {call}
  <2>1. c.calls \in Seq(S) /\ call \in S /\ i \in 1..Len(c.calls)
        BY <1>1, <1>2, SeqMonotonic
  <2> HIDE DEF S
  <2>2. d.calls \in Seq(S) /\ Len(d.calls) = Len(c.calls)
        BY <1>5, <2>1, ExceptSeq
  <2> QED BY <2>2, OwnRange
<1>9. IsComponent(d)
  <2>1. \A k \in DOMAIN d.calls : IsCall(d.calls[k])
        BY <1>6, <1>7 DEF IsComponent
  <2>2. d.loading \in BOOLEAN /\ d.error \in BOOLEAN /\ d.raced \in BOOLEAN
        BY <1>3 DEF IsComponent
  <2> QED BY <1>3, <1>8, <2>1, <2>2 DEF IsComponent
<1>10. Follows(d, f, fields)
  <2>1. \A k \in DOMAIN d.calls :
           d.calls[k].reply # Pending =>
               HasFields(d.calls[k].reply, fields) /\ d.calls[k].reply[f] = d.calls[k].key
        BY <1>6, <1>7 DEF Follows
  <2>2. ~d.raced => Len(d.calls) <= 1 /\ \A k \in DOMAIN d.calls : d.calls[k].key = d.key
        BY <1>3, <1>6, <1>7, <1>8 DEF Follows
  <2>3. c.calls # << >> => d.calls # << >>
    <3>1. Len(c.calls) = 0 <=> c.calls = << >>
          BY <1>1, EmptySeq
    <3>2. d.calls = << >> => Len(d.calls) = 0
          BY EmptySeq
    <3> QED BY <1>8, <3>1, <3>2
  <2> QED BY <1>3, <2>1, <2>2, <2>3 DEF Follows
<1> QED BY <1>3, <1>9, <1>10 DEF d

-----------------------------------------------------------------------------
(* The steps.                                                              *)

LEMMA InitFollows == ASSUME Init PROVE FollowInv
<1>1. IsSequence(trail)
  <2>1. <<PeerList>> \in Seq({PeerList})
        OBVIOUS
  <2> QED BY <2>1, OwnRange DEF Init
<1>2. ListInv
      BY MountedFollows DEF Init, ListInv
<1> QED BY <1>1, <1>2 DEF Init, FollowInv, DetailInv, SectionInv

\* A route is shown.
LEMMA ShowFollows ==
    ASSUME FollowInv, NEW r, Show(r), IsSequence(trail'), route' = r
    PROVE  FollowInv'
<1>1. ListInv'
      BY MountedFollows DEF Show, ListInv
<1>2. DetailInv'
  <2>1. CASE r = PeerList
        BY <2>1 DEF Show, DetailInv
  <2>2. CASE r # PeerList /\ detail = Off
    <3>1. detail' = Mounted(r)
          BY <2>2 DEF Show, Rerouted
    <3> QED BY <3>1, MountedFollows DEF DetailInv
  <2>3. CASE r # PeerList /\ detail # Off
    <3>1. detail' = Fetch(detail, r)
          BY <2>3 DEF Show, Rerouted
    <3>2. IsComponent(detail) /\ Follows(detail, "peer", DetailFields)
          BY <2>3 DEF FollowInv, DetailInv
    <3> QED BY <3>1, <3>2, FetchFollows DEF DetailInv
  <2> QED BY <2>1, <2>2, <2>3
<1>3. SectionInv'
      BY DEF Show, SectionInv
<1> QED BY <1>1, <1>2, <1>3 DEF FollowInv

LEMMA RouteFollows ==
    ASSUME FollowInv, FollowLink \/ GoBack \/ Reload
    PROVE  FollowInv'
<1>1. CASE FollowLink
  <2>1. PICK r : trail' = Append(trail, r) /\ Show(r)
        BY <1>1 DEF FollowLink
  <2>2. IsSequence(trail') /\ Len(trail') = Len(trail) + 1 /\ trail'[Len(trail) + 1] = r
        BY <2>1, Appended DEF FollowInv
  <2>3. route' = r
        BY <2>2 DEF route, Last
  <2> QED BY <2>1, <2>2, <2>3, ShowFollows
<1>2. CASE GoBack
  <2>1. trail' = Front(trail) /\ Show(Last(trail'))
        BY <1>2 DEF GoBack
  <2>2. IsSequence(trail')
        BY <2>1, Shortened DEF FollowInv
  <2> QED BY <2>1, <2>2, ShowFollows DEF route
<1>3. CASE Reload
  <2>1. trail' = trail /\ Show(route)
        BY <1>3 DEF Reload
  <2> QED BY <2>1, ShowFollows DEF route, FollowInv
<1> QED BY <1>1, <1>2, <1>3

\* The parts that a step does not touch.
LEMMA ListUntouched == ASSUME FollowInv, UNCHANGED list PROVE ListInv'
BY DEF FollowInv, ListInv

LEMMA DetailUntouched ==
    ASSUME FollowInv, UNCHANGED <<detail, trail>>
    PROVE  DetailInv' /\ IsSequence(trail') /\ (UNCHANGED section => SectionInv')
BY DEF FollowInv, DetailInv, SectionInv, route

LEMMA ListFollows ==
    ASSUME AbsencesDiffer, FollowInv, TurnPage \/ TryAgain \/ AnswerPeers \/ ListArrives
    PROVE  FollowInv'
<1>1. UNCHANGED <<detail, section, trail>> /\ list # Off
      BY DEF TurnPage, TryAgain, AnswerPeers, ListArrives, ListOnScreen
<1>2. IsComponent(list) /\ Follows(list, "page", PageFields)
      BY <1>1 DEF FollowInv, ListInv
<1>3. IsComponent(list') /\ Follows(list', "page", PageFields)
  <2>1. CASE TurnPage \/ TryAgain
    <3>1. PICK page : list' = Fetch(list, page)
          BY <2>1 DEF TurnPage, TryAgain
    <3> QED BY <1>2, <3>1, FetchFollows
  <2>2. CASE AnswerPeers
    <3> DEFINE IsReply(i, peers, total, at, whole) ==
            list' = Reply(list, i, [page |-> list.calls[i].key, peers |-> peers, total |-> total,
                                    at |-> at, whole |-> whole])
    <3>0. PICK i \in DOMAIN list.calls : \E peers, total, at, whole : IsReply(i, peers, total, at, whole)
          BY <2>2 DEF AnswerPeers
    <3>1. PICK peers, total, at, whole : IsReply(i, peers, total, at, whole)
          BY <3>0
    <3> DEFINE reply == [page |-> list.calls[i].key, peers |-> peers, total |-> total,
                         at |-> at, whole |-> whole]
    <3>2. HasFields(reply, PageFields) /\ reply["page"] = list.calls[i].key
          BY DEF HasFields, PageFields
    <3> HIDE DEF reply
    <3>3. IsComponent(Reply(list, i, reply)) /\ Follows(Reply(list, i, reply), "page", PageFields)
          BY <1>2, <3>2, ReplyFollows
    <3> QED BY <3>1, <3>3 DEF reply
  <2>3. CASE ListArrives
    <3>1. PICK i \in DOMAIN list.calls :
            \/ list.calls[i].reply # Pending /\ list' = Arrived(list, i)
            \/ list' = Failed(list, i)
          BY <2>3 DEF ListArrives
    <3>2. CASE list.calls[i].reply # Pending /\ list' = Arrived(list, i)
          BY <1>2, <3>2, ArrivedFollows DEF AbsencesDiffer
    <3>3. CASE list' = Failed(list, i)
          BY <1>2, <3>3, FailedFollows DEF AbsencesDiffer
    <3> QED BY <3>1, <3>2, <3>3
  <2> QED BY <2>1, <2>2, <2>3
<1> QED BY <1>1, <1>3, DetailUntouched DEF FollowInv, ListInv

-----------------------------------------------------------------------------
(* The details.                                                            *)

\* The server's two steps fill in a detail that is for the same peer.
LEMMA StepKeeps ==
    ASSUME NEW d, HasFields(d, DetailFields),
           NEW e \in {[ServerStep(d) EXCEPT !.step = @ + 1],
                      [FailedStep(d) EXCEPT !.step = @ + 1, !.whole = FALSE]}
    PROVE  HasFields(e, DetailFields) /\ e["peer"] = d.peer
<1>1. ASSUME NEW counts
      PROVE  HasFields(Counted(d, counts), DetailFields) /\ Counted(d, counts).peer = d.peer
      BY DEF Counted, DetailFields, HasFields
<1>2. ASSUME NEW lists
      PROVE  HasFields(Listed(d, lists), DetailFields) /\ Listed(d, lists).peer = d.peer
      BY DEF Listed, DetailFields, HasFields
<1>3. \A a \in {ServerStep(d), FailedStep(d)} : HasFields(a, DetailFields) /\ a.peer = d.peer
      BY <1>1, <1>2 DEF ServerStep, FailedStep
<1>4. ASSUME NEW a, HasFields(a, DetailFields)
      PROVE  /\ HasFields([a EXCEPT !.step = @ + 1], DetailFields)
             /\ [a EXCEPT !.step = @ + 1].peer = a.peer
             /\ HasFields([a EXCEPT !.step = @ + 1, !.whole = FALSE], DetailFields)
             /\ [a EXCEPT !.step = @ + 1, !.whole = FALSE].peer = a.peer
      BY <1>4 DEF HasFields, DetailFields
<1> QED BY <1>3, <1>4

LEMMA DetailAnswered ==
    ASSUME AbsencesDiffer, FollowInv, AnswerDetail
    PROVE  FollowInv'
<1>1. UNCHANGED <<list, section, trail>> /\ detail # Off
      BY DEF AnswerDetail
<1>2. IsComponent(detail) /\ Follows(detail, "peer", DetailFields) /\ detail.key = route
      BY <1>1 DEF FollowInv, DetailInv
<1>3. PICK i \in DOMAIN detail.calls :
         LET call == detail.calls[i]
             d == IF call.reply = Pending THEN NewDetail(call.key) ELSE call.reply
         IN  \E e \in {[ServerStep(d) EXCEPT !.step = @ + 1],
                       [FailedStep(d) EXCEPT !.step = @ + 1, !.whole = FALSE]} :
               detail' = Reply(detail, i, e)
      BY DEF AnswerDetail
<1> DEFINE call == detail.calls[i]
           d == IF call.reply = Pending THEN NewDetail(call.key) ELSE call.reply
<1>4. HasFields(d, DetailFields) /\ d.peer = call.key
  <2>1. HasFields(NewDetail(call.key), DetailFields) /\ NewDetail(call.key).peer = call.key
        BY DEF NewDetail, DetailFields, HasFields
  <2>2. call.reply # Pending => HasFields(call.reply, DetailFields) /\ call.reply.peer = call.key
        BY <1>2 DEF Follows
  <2> QED BY <2>1, <2>2
<1>5. PICK e : /\ e \in {[ServerStep(d) EXCEPT !.step = @ + 1],
                         [FailedStep(d) EXCEPT !.step = @ + 1, !.whole = FALSE]}
               /\ detail' = Reply(detail, i, e)
      BY <1>3
<1> HIDE DEF d
<1>6. HasFields(e, DetailFields) /\ e["peer"] = call.key
      BY <1>4, <1>5, StepKeeps
<1>7. /\ IsComponent(detail') /\ Follows(detail', "peer", DetailFields)
      /\ detail'.key = detail.key /\ detail'.shown = detail.shown /\ detail'.loading = detail.loading
      /\ detail'.error = detail.error
      BY <1>2, <1>5, <1>6, ReplyFollows
<1>8. DetailInv'
      BY <1>1, <1>2, <1>7 DEF DetailInv, route
<1>9. SectionInv'
  <2>1. detail' # Off
        BY <1>7 DEF AbsencesDiffer, IsComponent
  <2> QED BY <1>1, <1>7, <2>1 DEF FollowInv, SectionInv, OnScreen
<1> QED BY <1>1, <1>8, <1>9, ListUntouched DEF FollowInv

LEMMA DrawFollows ==
    ASSUME AbsencesDiffer, FollowInv, detail # Off, UNCHANGED <<list, trail>>,
           NEW d, IsComponent(d), Follows(d, "peer", DetailFields), d.key = route, Draw(d)
    PROVE  FollowInv'
<1>1. CASE detail' = Off /\ section' = Off
      BY <1>1, ListUntouched DEF FollowInv, DetailInv, SectionInv
<1>2. CASE detail' = d /\ section' = SectionFor(d)
  <2>1. DetailInv'
        BY <1>2 DEF DetailInv, route
  <2>2. CASE section' = Off
        BY <1>2, <2>1, <2>2, ListUntouched DEF FollowInv, SectionInv
  <2>3. CASE section' # Off
    <3>1. OnScreen(d)
          BY <1>2, <2>3 DEF SectionFor
    <3>2. section # Off => IsComponent(section) /\ Follows(section, "key", MessagesFields)
                             /\ section.key = <<detail.shown.peer, section.key[2]>>
          BY DEF FollowInv, SectionInv
    <3>3. IsComponent(section') /\ Follows(section', "key", MessagesFields)
          BY <1>2, <3>1, <3>2, MountedFollows, FetchFollows DEF SectionFor
    <3>4. section'.key = <<d.shown.peer, section'.key[2]>>
      <4>1. CASE section = Off
        <5>1. section'.key = <<d.shown.peer, AllTopics>>
              BY <1>2, <3>1, <4>1, MountedFollows DEF SectionFor
        <5> QED BY <5>1
      <4>2. CASE section # Off /\ section.key[1] # d.shown.peer
        <5>1. section' = Fetch(section, <<d.shown.peer, section.key[2]>>)
              BY <1>2, <3>1, <4>2 DEF SectionFor
        <5>2. IsComponent(section) /\ Follows(section, "key", MessagesFields)
              BY <3>2, <4>2
        <5>3. section'.key = <<d.shown.peer, section.key[2]>>
              BY <5>1, <5>2, FetchFollows
        <5> QED BY <5>3
      <4>3. CASE section # Off /\ section.key[1] = d.shown.peer
            BY <1>2, <3>1, <3>2, <4>3 DEF SectionFor
      <4> QED BY <4>1, <4>2, <4>3
    <3> QED BY <1>2, <2>1, <3>1, <3>3, <3>4, ListUntouched DEF FollowInv, SectionInv
  <2> QED BY <2>2, <2>3
<1> QED BY <1>1, <1>2 DEF Draw

LEMMA DetailArrived ==
    ASSUME AbsencesDiffer, FollowInv, DetailArrives
    PROVE  FollowInv'
<1>1. UNCHANGED <<list, trail>> /\ detail # Off
      BY DEF DetailArrives
<1>2. IsComponent(detail) /\ Follows(detail, "peer", DetailFields) /\ detail.key = route
      BY <1>1 DEF FollowInv, DetailInv
<1>3. ~HasFields(None, DetailFields)
      BY DEF AbsencesDiffer
<1>4. PICK i \in DOMAIN detail.calls :
         \/ detail.calls[i].reply # Pending /\ Draw(Arrived(detail, i))
         \/ Draw(Failed(detail, i))
      BY DEF DetailArrives
<1>5. CASE detail.calls[i].reply # Pending /\ Draw(Arrived(detail, i))
      BY <1>1, <1>2, <1>3, <1>5, ArrivedFollows, DrawFollows
<1>6. CASE Draw(Failed(detail, i))
      BY <1>1, <1>2, <1>3, <1>6, FailedFollows, DrawFollows
<1> QED BY <1>4, <1>5, <1>6

-----------------------------------------------------------------------------
(* The messages.                                                           *)

LEMMA SectionFollows ==
    ASSUME AbsencesDiffer, FollowInv, ChooseTopic \/ AnswerMessages \/ SectionArrives
    PROVE  FollowInv'
<1>1. UNCHANGED <<list, detail, trail>> /\ section # Off
      BY DEF ChooseTopic, AnswerMessages, SectionArrives
<1>2. /\ IsComponent(section) /\ Follows(section, "key", MessagesFields) /\ OnScreen(detail)
      /\ section.key = <<detail.shown.peer, section.key[2]>>
      BY <1>1 DEF FollowInv, SectionInv
<1>3. IsComponent(section) /\ Follows(section, "key", MessagesFields)
      BY <1>2
<1>4. /\ IsComponent(section') /\ Follows(section', "key", MessagesFields)
      /\ section'.key = <<detail.shown.peer, section'.key[2]>>
  <2>1. CASE ChooseTopic
    <3>1. PICK topic : section' = Fetch(section, <<section.key[1], topic>>)
          BY <2>1 DEF ChooseTopic
    <3>2. section.key[1] = detail.shown.peer
          BY <1>2
    <3>3. /\ IsComponent(section') /\ Follows(section', "key", MessagesFields)
          /\ section'.key = <<section.key[1], topic>>
          BY <1>3, <3>1, FetchFollows
    <3>4. section'.key[2] = topic
          BY <3>3
    <3> QED BY <3>2, <3>3, <3>4
  <2>2. CASE AnswerMessages
    <3> DEFINE IsReply(i, messages, at, whole) ==
            section' = Reply(section, i, [key |-> section.calls[i].key, messages |-> messages,
                                          at |-> at, whole |-> whole])
    <3>0. PICK i \in DOMAIN section.calls : \E messages, at, whole : IsReply(i, messages, at, whole)
          BY <2>2 DEF AnswerMessages
    <3>1. PICK messages, at, whole : IsReply(i, messages, at, whole)
          BY <3>0
    <3> DEFINE reply == [key |-> section.calls[i].key, messages |-> messages, at |-> at, whole |-> whole]
    <3>2. HasFields(reply, MessagesFields) /\ reply["key"] = section.calls[i].key
          BY DEF HasFields, MessagesFields
    <3> HIDE DEF reply
    <3>3. /\ IsComponent(Reply(section, i, reply)) /\ Follows(Reply(section, i, reply), "key", MessagesFields)
          /\ Reply(section, i, reply).key = section.key
          BY <1>3, <3>2, ReplyFollows
    <3> QED BY <1>2, <3>1, <3>3 DEF reply
  <2>3. CASE SectionArrives
    <3>1. PICK i \in DOMAIN section.calls :
            \/ section.calls[i].reply # Pending /\ section' = Arrived(section, i)
            \/ section' = Failed(section, i)
          BY <2>3 DEF SectionArrives
    <3>2. CASE section.calls[i].reply # Pending /\ section' = Arrived(section, i)
      <4>1. ~HasFields(None, MessagesFields)
            BY DEF AbsencesDiffer
      <4>2. /\ IsComponent(section') /\ Follows(section', "key", MessagesFields)
            /\ section'.key = section.key
            BY <1>3, <3>2, <4>1, ArrivedFollows
      <4> QED BY <1>2, <4>2
    <3>3. CASE section' = Failed(section, i)
      <4>1. ~HasFields(None, MessagesFields)
            BY DEF AbsencesDiffer
      <4>2. /\ IsComponent(section') /\ Follows(section', "key", MessagesFields)
            /\ section'.key = section.key
            BY <1>3, <3>3, <4>1, FailedFollows
      <4> QED BY <1>2, <4>2
    <3> QED BY <3>1, <3>2, <3>3
  <2> QED BY <2>1, <2>2, <2>3
<1> QED BY <1>1, <1>2, <1>4, ListUntouched, DetailUntouched DEF FollowInv, SectionInv

-----------------------------------------------------------------------------
(* The theorems.                                                           *)

LEMMA NextFollows ==
    ASSUME AbsencesDiffer, FollowInv, [Next]_vars
    PROVE  FollowInv'
<1>1. CASE StoreRow
      BY <1>1, ListUntouched, DetailUntouched DEF StoreRow, FollowInv
<1>2. CASE UNCHANGED vars
      BY <1>2, ListUntouched, DetailUntouched DEF vars, FollowInv
<1> QED BY <1>1, <1>2, RouteFollows, ListFollows, DetailAnswered, DetailArrived, SectionFollows DEF Next

LEMMA BrowseInvariant ==
    ASSUME AbsencesDiffer
    PROVE  Spec => []FollowInv
<1>1. FollowInv /\ [Next]_vars => FollowInv'
      BY NextFollows
<1> QED BY <1>1, InitFollows, PTL DEF Spec

\* What is on screen was asked for, in the list, the details and the messages below them,
\* unless requests overlapped; a list that stays on screen while the next page loads waits
\* for that page (Peers.tsx, PeerDetail.tsx and MessageListSection.tsx).
THEOREM BrowseScreenFollowsSelection ==
    ASSUME AbsencesDiffer
    PROVE  Spec => []ScreenFollowsSelection
<1>1. FollowInv => ScreenFollowsSelection
  <2>1. ASSUME FollowInv, ListOnScreen, ~list.raced
        PROVE  IF list.loading THEN Len(list.calls) = 1 /\ list.calls[1].key = list.key
                               ELSE list.shown.page = list.key
    <3>1. /\ IsComponent(list) /\ Follows(list, "page", PageFields)
          /\ ~list.error /\ list.shown # None
          BY <2>1 DEF FollowInv, ListInv, ListOnScreen
    <3>2. CASE list.loading
      <4>1. list.calls # << >> /\ Len(list.calls) <= 1 /\ IsSequence(list.calls)
            BY <2>1, <3>1, <3>2 DEF Follows, IsComponent
      <4> DEFINE n == Len(list.calls)
      <4>2. n \in Nat /\ DOMAIN list.calls = 1..n
            BY <4>1, OwnRange DEF IsSequence
      <4>3. n # 0
            BY <4>1, EmptySeq DEF IsSequence
      <4>4. n <= 1
            BY <4>1
      <4> HIDE DEF n
      <4>5. n = 1
            BY <4>2, <4>3, <4>4
      <4>6. list.calls[1].key = list.key
            BY <2>1, <3>1, <4>2, <4>5 DEF Follows
      <4> QED BY <3>2, <4>5, <4>6 DEF n
    <3>3. CASE ~list.loading
          BY <2>1, <3>1, <3>3 DEF Follows
    <3> QED BY <3>2, <3>3
  <2>2. ASSUME FollowInv, OnScreen(detail), ~detail.raced PROVE detail.shown.peer = route
        BY <2>2 DEF FollowInv, DetailInv, Follows, OnScreen
  <2>3. ASSUME FollowInv, section # Off PROVE OnScreen(detail) /\ section.key[1] = detail.shown.peer
        BY <2>3 DEF FollowInv, SectionInv
  <2>4. ASSUME FollowInv, OnScreen(section), ~section.raced PROVE section.shown.key = section.key
        BY <2>4 DEF FollowInv, SectionInv, Follows, OnScreen
  <2> QED BY <2>1, <2>2, <2>3, <2>4 DEF ScreenFollowsSelection
<1> QED BY <1>1, BrowseInvariant, PTL

\* Whatever fails or overlaps, a component that shows nothing waits for a request
\* (the finally blocks of the three components).
THEOREM BrowseNoDeadScreen ==
    ASSUME AbsencesDiffer
    PROVE  Spec => []NoDeadScreen
<1>1. FollowInv => NoDeadScreen
      BY DEF FollowInv, ListInv, DetailInv, SectionInv, Follows, NoDeadScreen
<1> QED BY <1>1, BrowseInvariant, PTL

-----------------------------------------------------------------------------
(* The newest of a set of positions.                                       *)

\* The positions of S above i, of which NewestFirst and Newest count how many there are.
Above(S, i) == {j \in S : j > i}

LEMMA AboveCounts ==
    ASSUME NEW S \in SUBSET Nat, IsFiniteSet(S)
    PROVE  /\ Cardinality(S) \in Nat
           /\ \A i \in S : Cardinality(Above(S, i)) \in 0..(Cardinality(S) - 1)
           /\ \A i, j \in S : i # j => Cardinality(Above(S, i)) # Cardinality(Above(S, j))
<1>1. Cardinality(S) \in Nat
      BY FS_CardinalityType
<1>2. ASSUME NEW i \in S
      PROVE  /\ IsFiniteSet(Above(S, i)) /\ Cardinality(Above(S, i)) \in Nat
             /\ Cardinality(Above(S, i)) <= Cardinality(S) - 1
  <2>1. Above(S, i) \in SUBSET (S \ {i})
        BY DEF Above
  <2>2. IsFiniteSet(S \ {i}) /\ Cardinality(S \ {i}) = Cardinality(S) - 1
        BY FS_RemoveElement
  <2>3. IsFiniteSet(Above(S, i)) /\ Cardinality(Above(S, i)) <= Cardinality(S \ {i})
        BY <2>1, <2>2, FS_Subset
  <2> QED BY <2>2, <2>3, FS_CardinalityType
<1>3. ASSUME NEW i \in S, NEW j \in S, i < j
      PROVE  Cardinality(Above(S, j)) < Cardinality(Above(S, i))
  <2>1. Above(S, j) \in SUBSET Above(S, i) /\ j \in Above(S, i) /\ j \notin Above(S, j)
    <3>1. i \in Nat /\ j \in Nat /\ i < j
          BY <1>3
    <3>2. \A k \in S : k \in Nat /\ (k > j => k > i)
          BY <3>1
    <3>3. j > i /\ ~(j > j)
          BY <3>1
    <3>4. \A k : k \in Above(S, j) => k \in Above(S, i)
          BY <3>2 DEF Above
    <3>5. j \in Above(S, i) /\ j \notin Above(S, j)
          BY <3>3 DEF Above
    <3> QED BY <3>4, <3>5
  <2>2. /\ Cardinality(Above(S, j)) <= Cardinality(Above(S, i))
        /\ Cardinality(Above(S, i)) # Cardinality(Above(S, j))
        BY <1>2, <2>1, FS_Subset
  <2> QED BY <1>2, <2>2
<1>4. ASSUME NEW i \in S, NEW j \in S, i # j
      PROVE  Cardinality(Above(S, i)) # Cardinality(Above(S, j))
  <2>1. i < j \/ j < i
        BY <1>4
  <2>2. Cardinality(Above(S, i)) \in Nat /\ Cardinality(Above(S, j)) \in Nat
        BY <1>2
  <2> QED BY <1>3, <2>1, <2>2
<1>5. ASSUME NEW i \in S
      PROVE  Cardinality(Above(S, i)) \in 0..(Cardinality(S) - 1)
      BY <1>1, <1>2
<1> QED BY <1>1, <1>4, <1>5

\* The counts are the numbers below the size of S, each for one position.
LEMMA AboveIsBijection ==
    ASSUME NEW S \in SUBSET Nat, IsFiniteSet(S)
    PROVE  [i \in S |-> Cardinality(Above(S, i))] \in Bijection(S, 0..(Cardinality(S) - 1))
<1> DEFINE n == Cardinality(S)
           count == [i \in S |-> Cardinality(Above(S, i))]
<1>1. n \in Nat /\ IsFiniteSet(0..(n - 1)) /\ Cardinality(0..(n - 1)) = n
  <2>1. n \in Nat
        BY AboveCounts
  <2>2. 0 \in Int /\ n - 1 \in Int
        BY <2>1
  <2>3. /\ IsFiniteSet(0..(n - 1))
        /\ Cardinality(0..(n - 1)) = IF 0 > n - 1 THEN 0 ELSE n - 1 - 0 + 1
        BY <2>2, FS_Interval
  <2> QED BY <2>1, <2>3
<1>2. count \in [S -> 0..(n - 1)] /\ \A i, j \in S : count[i] = count[j] => i = j
      BY AboveCounts
<1> HIDE DEF count
<1>3. count \in Injection(S, 0..(n - 1))
      BY <1>2 DEF Injection, IsInjective
<1>4. count \in Surjection(S, 0..(n - 1))
      BY <1>1, <1>3, FS_Injection
<1> QED BY <1>3, <1>4 DEF Bijection, count

\* NewestFirst lists all of S.
LEMMA NewestFirstLists ==
    ASSUME NEW S \in SUBSET Nat, IsFiniteSet(S)
    PROVE  /\ NewestFirst(S) \in Seq(S) /\ Len(NewestFirst(S)) = Cardinality(S)
           /\ {NewestFirst(S)[k] : k \in DOMAIN NewestFirst(S)} = S
<1> DEFINE n == Cardinality(S)
           s == NewestFirst(S)
           NumberAbove(i) == Cardinality(Above(S, i))
<1>1. n \in Nat /\ \A i \in S : NumberAbove(i) \in 0..(n - 1)
      BY AboveCounts
<1>2. \A i, j \in S : NumberAbove(i) = NumberAbove(j) => i = j
      BY AboveCounts
<1>3. \A k \in 0..(n - 1) : \E i \in S : NumberAbove(i) = k
      BY AboveIsBijection DEF Bijection, Surjection
<1>4. s = [k \in 1..n |-> CHOOSE i \in S : NumberAbove(i) = k - 1]
      BY DEF NewestFirst, Above
<1> HIDE DEF s
<1>5. ASSUME NEW k \in 1..n
      PROVE  s[k] \in S /\ NumberAbove(s[k]) = k - 1
  <2>1. k - 1 \in 0..(n - 1)
        BY <1>1
  <2>2. \E i \in S : NumberAbove(i) = k - 1
        BY <1>3, <2>1
  <2>3. s[k] = CHOOSE i \in S : NumberAbove(i) = k - 1
        BY <1>4
  <2> QED BY <2>2, <2>3
<1>6. s \in Seq(S) /\ Len(s) = n /\ DOMAIN s = 1..n
  <2>1. s \in [1..n -> S]
        BY <1>4, <1>5
  <2> QED BY <1>1, <2>1
<1>7. ASSUME NEW i \in S
      PROVE  \E k \in 1..n : s[k] = i
  <2>1. NumberAbove(i) \in Nat /\ NumberAbove(i) + 1 \in 1..n /\ (NumberAbove(i) + 1) - 1 = NumberAbove(i)
        BY <1>1
  <2>2. PICK k \in 1..n : k - 1 = NumberAbove(i)
        BY <2>1
  <2>3. s[k] \in S /\ NumberAbove(s[k]) = NumberAbove(i)
        BY <1>5, <2>2
  <2> QED BY <1>2, <2>3
<1>8. {s[k] : k \in DOMAIN s} = S
      BY <1>5, <1>6, <1>7
<1> QED BY <1>6, <1>8 DEF s

\* The n newest are n, or all there are.
LEMMA NewestCounts ==
    ASSUME NEW S \in SUBSET Nat, IsFiniteSet(S), NEW n \in Nat
    PROVE  /\ Newest(S, n) \in SUBSET S /\ IsFiniteSet(Newest(S, n))
           /\ Cardinality(Newest(S, n)) = Least(Cardinality(S), n)
<1> DEFINE m == Least(Cardinality(S), n)
           N == Newest(S, n)
           count == [i \in S |-> Cardinality(Above(S, i))]
           c == [i \in N |-> count[i]]
<1>1. /\ Cardinality(S) \in Nat /\ m \in Nat /\ m <= n /\ m <= Cardinality(S)
      /\ m = n \/ m = Cardinality(S)
      BY AboveCounts DEF Least
<1>2. /\ count \in [S -> 0..(Cardinality(S) - 1)]
      /\ \A i, j \in S : count[i] = count[j] => i = j
      /\ \A k \in 0..(Cardinality(S) - 1) : \E i \in S : count[i] = k
      BY AboveIsBijection DEF Bijection, Surjection, Injection, IsInjective
<1>3. N \in SUBSET S /\ \A i \in S : i \in N <=> count[i] < n
      BY DEF Newest, Above
<1> HIDE DEF count, N, m
<1>4. IsFiniteSet(N)
      BY <1>3, FS_Subset
<1>5. \A i \in S : i \in N <=> count[i] \in 0..(m - 1)
      BY <1>1, <1>2, <1>3
<1>6. c \in Bijection(N, 0..(m - 1))
  <2>1. c \in [N -> 0..(m - 1)] /\ \A i, j \in N : c[i] = c[j] => i = j
        BY <1>2, <1>3, <1>5
  <2>2. \A k \in 0..(m - 1) : \E i \in N : c[i] = k
    <3>1. \A k \in 0..(m - 1) : k \in 0..(Cardinality(S) - 1)
          BY <1>1
    <3>2. \A k \in 0..(m - 1) : \E i \in S : count[i] = k
          BY <1>2, <3>1
    <3> QED BY <1>3, <1>5, <3>2
  <2> HIDE DEF c
  <2> QED BY <2>1, <2>2 DEF Bijection, Surjection, Injection, IsInjective
<1> HIDE DEF c
<1>7. Cardinality(0..(m - 1)) = Cardinality(N)
  <2>1. ExistsBijection(N, 0..(m - 1))
        BY <1>6 DEF ExistsBijection
  <2> QED BY <1>4, <2>1, FS_Bijection
<1>8. Cardinality(0..(m - 1)) = m
  <2>1. 0 \in Int /\ m - 1 \in Int
        BY <1>1
  <2>2. Cardinality(0..(m - 1)) = IF 0 > m - 1 THEN 0 ELSE m - 1 - 0 + 1
        BY <2>1, FS_Interval
  <2> QED BY <1>1, <2>2
<1> QED BY <1>3, <1>4, <1>7, <1>8 DEF N, m

-----------------------------------------------------------------------------
(* The answers that a component holds.                                     *)

\* The answers on their way to a component, and the one it shows.
Answers(c) == IF c = Off THEN {} ELSE {c.calls[i].reply : i \in DOMAIN c.calls} \ {Pending}
Screen(c) == IF c = Off THEN {} ELSE {c.shown} \ {None}

LEMMA MountedHolds ==
    ASSUME NEW key
    PROVE  Answers(Mounted(key)) = {} /\ Screen(Mounted(key)) = {}
<1>1. Mounted(key).calls = <<Call(key)>> /\ Mounted(key).shown = None
      BY DEF Mounted
<1>2. \A i \in DOMAIN <<Call(key)>> : <<Call(key)>>[i] = Call(key)
      OBVIOUS
<1>3. Call(key).reply = Pending
      BY DEF Call
<1> QED BY <1>1, <1>2, <1>3 DEF Answers, Screen

LEMMA FetchHolds ==
    ASSUME NEW c, IsComponent(c), c # Off, NEW key
    PROVE  Answers(Fetch(c, key)) \subseteq Answers(c) /\ Screen(Fetch(c, key)) \subseteq Screen(c)
<1> DEFINE d == Fetch(c, key)
<1>1. d.shown = c.shown /\ d.calls = Append(c.calls, Call(key))
      BY DEF Fetch, IsComponent, HasFields, ComponentFields
<1> HIDE DEF d
<1>2. \A i \in DOMAIN d.calls :
         \/ i \in DOMAIN c.calls /\ d.calls[i] = c.calls[i]
         \/ d.calls[i] = Call(key)
  <2>1. /\ DOMAIN d.calls = 1..(Len(c.calls) + 1) /\ DOMAIN c.calls = 1..Len(c.calls)
        /\ Len(c.calls) \in Nat
        /\ \A i \in DOMAIN c.calls : d.calls[i] = c.calls[i]
        /\ d.calls[Len(c.calls) + 1] = Call(key)
        BY <1>1, Appended DEF IsComponent
  <2> QED BY <2>1
<1>3. Call(key).reply = Pending
      BY DEF Call
<1> QED BY <1>1, <1>2, <1>3 DEF Answers, Screen, d

LEMMA EndHolds ==
    ASSUME NEW c, IsComponent(c), c # Off, NEW i \in DOMAIN c.calls
    PROVE  /\ Answers(Arrived(c, i)) \subseteq Answers(c)
           /\ Screen(Arrived(c, i)) \subseteq {c.calls[i].reply}
           /\ c.calls[i].reply # Pending => c.calls[i].reply \in Answers(c)
           /\ Answers(Failed(c, i)) \subseteq Answers(c)
           /\ Screen(Failed(c, i)) \subseteq Screen(c)
<1>1. /\ Arrived(c, i).calls = RemoveAt(c.calls, i) /\ Arrived(c, i).shown = c.calls[i].reply
      /\ Failed(c, i).calls = RemoveAt(c.calls, i) /\ Failed(c, i).shown = c.shown
      BY DEF Arrived, Failed, Finally, IsComponent, HasFields, ComponentFields
<1>2. \A k \in DOMAIN RemoveAt(c.calls, i) : \E j \in DOMAIN c.calls : RemoveAt(c.calls, i)[k] = c.calls[j]
      BY Removed DEF IsComponent
<1> QED BY <1>1, <1>2 DEF Answers, Screen

LEMMA ReplyHolds ==
    ASSUME NEW c, IsComponent(c), c # Off, NEW i \in DOMAIN c.calls, NEW reply
    PROVE  /\ Answers(Reply(c, i, reply)) \subseteq Answers(c) \union {reply}
           /\ Screen(Reply(c, i, reply)) \subseteq Screen(c)
<1> DEFINE d == Reply(c, i, reply)
<1>1. d.shown = c.shown /\ d.calls = [c.calls EXCEPT ![i] = [c.calls[i] EXCEPT !.reply = reply]]
      BY DEF Reply, IsComponent, HasFields, ComponentFields
<1> HIDE DEF d
<1>2. [c.calls[i] EXCEPT !.reply = reply].reply = reply
      BY CallAnswered DEF IsComponent
<1>3. /\ DOMAIN d.calls = DOMAIN c.calls
      /\ \A k \in DOMAIN c.calls : d.calls[k].reply = reply \/ d.calls[k] = c.calls[k]
      BY <1>1, <1>2
<1> QED BY <1>1, <1>3 DEF Answers, Screen, d

\* What a step does to the answers for the details.
LEMMA DetailMoves ==
    ASSUME FollowInv, [Next]_vars
    PROVE  /\ \A a \in Answers(detail') :
                \/ a \in Answers(detail)
                \/ /\ rows' = rows
                   /\ \E d : /\ d \in Answers(detail) \/ \E peer : d = NewDetail(peer)
                             /\ d.step < 2
                             /\ a \in {[ServerStep(d) EXCEPT !.step = @ + 1],
                                       [FailedStep(d) EXCEPT !.step = @ + 1, !.whole = FALSE]}
           /\ \A a \in Screen(detail') : a \in Screen(detail) \/ (a \in Answers(detail) /\ a.step = 2)
<1>0. detail # Off => IsComponent(detail)
      BY DEF FollowInv, DetailInv
<1>1. CASE UNCHANGED detail
      BY <1>1
<1>2. CASE \E r : Show(r)
  <2>1. PICK r : Show(r)
        BY <1>2
  <2>2. CASE detail' = Off
        BY <2>2 DEF Answers, Screen
  <2>3. CASE detail' = Mounted(r)
        BY <2>3, MountedHolds
  <2>4. CASE detail # Off /\ detail' = Fetch(detail, r)
        BY <1>0, <2>4, FetchHolds
  <2> QED BY <2>1, <2>2, <2>3, <2>4 DEF Show, Rerouted
<1>3. CASE AnswerDetail
  <2>1. PICK i \in DOMAIN detail.calls :
           LET call == detail.calls[i]
               d == IF call.reply = Pending THEN NewDetail(call.key) ELSE call.reply
           IN  /\ d.step < 2
               /\ \E e \in {[ServerStep(d) EXCEPT !.step = @ + 1],
                            [FailedStep(d) EXCEPT !.step = @ + 1, !.whole = FALSE]} :
                    detail' = Reply(detail, i, e)
        BY <1>3 DEF AnswerDetail
  <2> DEFINE call == detail.calls[i]
             d == IF call.reply = Pending THEN NewDetail(call.key) ELSE call.reply
  <2>2. PICK e \in {[ServerStep(d) EXCEPT !.step = @ + 1],
                    [FailedStep(d) EXCEPT !.step = @ + 1, !.whole = FALSE]} :
           detail' = Reply(detail, i, e)
        BY <2>1
  <2>3. d \in Answers(detail) \/ \E peer : d = NewDetail(peer)
        BY <1>3 DEF AnswerDetail, Answers
  <2>4. d.step < 2
        BY <2>1
  <2> HIDE DEF d
  <2>5. detail # Off /\ rows' = rows
        BY <1>3 DEF AnswerDetail
  <2>6. Answers(detail') \subseteq Answers(detail) \union {e} /\ Screen(detail') \subseteq Screen(detail)
        BY <1>0, <2>2, <2>5, ReplyHolds
  <2> QED BY <2>2, <2>3, <2>4, <2>5, <2>6
<1>4. CASE DetailArrives
  <2>1. PICK i \in DOMAIN detail.calls :
           \/ detail.calls[i].reply # Pending /\ detail.calls[i].reply.step = 2 /\ Draw(Arrived(detail, i))
           \/ Draw(Failed(detail, i))
        BY <1>4 DEF DetailArrives
  <2>2. detail # Off /\ IsComponent(detail)
        BY <1>0, <1>4 DEF DetailArrives
  <2>3. CASE detail' = Off
        BY <2>3 DEF Answers, Screen
  <2>4. CASE /\ detail.calls[i].reply # Pending /\ detail.calls[i].reply.step = 2
             /\ detail' = Arrived(detail, i)
        BY <2>2, <2>4, EndHolds
  <2>5. CASE detail' = Failed(detail, i)
        BY <2>2, <2>5, EndHolds
  <2> QED BY <2>1, <2>3, <2>4, <2>5 DEF Draw
<1>5. \/ UNCHANGED detail \/ AnswerDetail \/ DetailArrives
      \/ \E r : Show(r)
      BY DEF Next, vars, StoreRow, FollowLink, GoBack, Reload, TurnPage, TryAgain, ChooseTopic,
             AnswerPeers, AnswerMessages, ListArrives, SectionArrives
<1> QED BY <1>1, <1>2, <1>3, <1>4, <1>5

-----------------------------------------------------------------------------
(* The details count what they show.                                       *)

Below(d, t) == IF t = "block" THEN d.recentBlocks ELSE d.nodeStatuses

\* A detail that is on its way: what was counted is still there, and when the lists were
\* read too there is a row, up to the limit, for each that was counted.
Grounded(d) ==
    /\ d.step \in Nat
    /\ d.whole =>
          /\ \A t \in DOMAIN d.types \intersect ListedTypes :
                d.types[t] \in Nat /\ d.types[t] <= Count(rows, t, d.peer)
          /\ d.step >= 2 =>
                \A t \in DOMAIN d.types \intersect ListedTypes : Len(Below(d, t)) >= Least(d.types[t], DetailLimit)

CountsInv ==
    /\ IsSequence(rows)
    /\ \A d \in Answers(detail) : Grounded(d) /\ d.step > 0
    /\ \A d \in Screen(detail) : Grounded(d) /\ d.step >= 2

LEMMA RowsOfCounts ==
    ASSUME NEW db, IsSequence(db), NEW t, NEW p
    PROVE  RowsOf(db, t, p) \in SUBSET Nat /\ IsFiniteSet(RowsOf(db, t, p)) /\ Count(db, t, p) \in Nat
<1>1. DOMAIN db = 1..Len(db) /\ Len(db) \in Nat
      BY OwnRange DEF IsSequence
<1>2. RowsOf(db, t, p) \in SUBSET (1..Len(db))
      BY <1>1 DEF RowsOf
<1>3. IsFiniteSet(1..Len(db))
  <2>1. 1 \in Int /\ Len(db) \in Int
        BY <1>1
  <2> QED BY <2>1, FS_Interval
<1> QED BY <1>2, <1>3, FS_Subset, FS_CardinalityType DEF Count

\* Rows are only added, so that no count goes down.
LEMMA RowsGrow ==
    ASSUME IsSequence(rows), [Next]_vars
    PROVE  /\ IsSequence(rows')
           /\ DOMAIN rows \subseteq DOMAIN rows' /\ \A i \in DOMAIN rows : rows'[i] = rows[i]
           /\ \A t, p : Count(rows, t, p) \in Nat /\ Count(rows', t, p) \in Nat
                          /\ Count(rows, t, p) <= Count(rows', t, p)
<1>1. rows' = rows \/ \E r : rows' = Append(rows, r)
      BY DEF Next, vars, StoreRow, FollowLink, GoBack, Reload, TurnPage, TryAgain, ChooseTopic, AnswerPeers,
             AnswerDetail, AnswerMessages, ListArrives, DetailArrives, SectionArrives
<1>2. /\ IsSequence(rows') /\ DOMAIN rows \subseteq DOMAIN rows'
      /\ \A i \in DOMAIN rows : rows'[i] = rows[i]
  <2>1. CASE rows' = rows
        BY <2>1
  <2>2. ASSUME NEW r, rows' = Append(rows, r)
        PROVE  /\ IsSequence(rows') /\ DOMAIN rows \subseteq DOMAIN rows'
               /\ \A i \in DOMAIN rows : rows'[i] = rows[i]
        BY <2>2, Appended
  <2> QED BY <1>1, <2>1, <2>2
<1>3. ASSUME NEW t, NEW p
      PROVE  /\ Count(rows, t, p) \in Nat /\ Count(rows', t, p) \in Nat
             /\ Count(rows, t, p) <= Count(rows', t, p)
  <2>1. RowsOf(rows, t, p) \in SUBSET RowsOf(rows', t, p)
        BY <1>2 DEF RowsOf
  <2>2. IsFiniteSet(RowsOf(rows', t, p)) /\ Count(rows, t, p) \in Nat /\ Count(rows', t, p) \in Nat
        BY <1>2, RowsOfCounts
  <2> QED BY <2>1, <2>2, FS_Subset DEF Count
<1> QED BY <1>2, <1>3

\* What was counted stays counted.
LEMMA StaysGrounded ==
    ASSUME IsSequence(rows), [Next]_vars, NEW d, Grounded(d)
    PROVE  Grounded(d)'
<1>1. \A t, p : Count(rows, t, p) \in Nat /\ Count(rows', t, p) \in Nat
                  /\ Count(rows, t, p) <= Count(rows', t, p)
      BY RowsGrow
<1>2. d.whole => \A t \in DOMAIN d.types \intersect ListedTypes :
                   d.types[t] \in Nat /\ d.types[t] <= Count(rows', t, d.peer)
  <2>1. ASSUME d.whole, NEW t \in DOMAIN d.types \intersect ListedTypes
        PROVE  d.types[t] \in Nat /\ d.types[t] <= Count(rows', t, d.peer)
    <3>1. d.types[t] \in Nat /\ d.types[t] <= Count(rows, t, d.peer)
          BY <2>1 DEF Grounded
    <3>2. /\ Count(rows, t, d.peer) \in Nat /\ Count(rows', t, d.peer) \in Nat
          /\ Count(rows, t, d.peer) <= Count(rows', t, d.peer)
          BY <1>1
    <3> QED BY <3>1, <3>2
  <2> QED BY <2>1
<1> QED BY <1>2 DEF Grounded, ListedTypes, Below, Least

\* The first step of the server counts, the second lists what was counted, and more.
LEMMA ServerGrounds ==
    ASSUME IsSequence(rows), NEW d, HasFields(d, DetailFields),
           (Grounded(d) /\ d.step > 0) \/ \E peer : d = NewDetail(peer), d.step < 2,
           NEW e \in {[ServerStep(d) EXCEPT !.step = @ + 1],
                      [FailedStep(d) EXCEPT !.step = @ + 1, !.whole = FALSE]}
    PROVE  Grounded(e) /\ e.step > 0
<1>1. /\ d.step \in {0, 1}
      /\ d.step = 1 => Grounded(d)
  <2>1. CASE Grounded(d) /\ d.step > 0
        BY <2>1 DEF Grounded
  <2>2. CASE \E peer : d = NewDetail(peer)
        BY <2>2 DEF NewDetail
  <2> QED BY <2>1, <2>2
<1>2. e.step = d.step + 1
      BY DEF ServerStep, FailedStep, Counted, Listed, HasFields, DetailFields
<1>3. CASE e = [FailedStep(d) EXCEPT !.step = @ + 1, !.whole = FALSE]
  <2>1. e.whole = FALSE
        BY <1>3 DEF FailedStep, Counted, Listed, HasFields, DetailFields
  <2> QED BY <1>1, <1>2, <2>1 DEF Grounded
<1>4. CASE e = [ServerStep(d) EXCEPT !.step = @ + 1] /\ d.step = 0
  <2>1. e.types = ApiCounts(rows, d.peer).types /\ e.peer = d.peer
        BY <1>4 DEF ServerStep, Counted, HasFields, DetailFields
  <2>2. e.types = [t \in {u \in Tables : Count(rows, u, d.peer) > 0} |-> Count(rows, t, d.peer)]
        BY <2>1 DEF ApiCounts, PeerStat
  <2>3. \A t \in DOMAIN e.types : e.types[t] \in Nat /\ e.types[t] <= Count(rows, t, e.peer)
        BY <2>1, <2>2, RowsOfCounts
  <2> QED BY <1>2, <1>4, <2>3 DEF Grounded
<1>5. CASE e = [ServerStep(d) EXCEPT !.step = @ + 1] /\ d.step = 1
  <2> DEFINE lists == ApiLists(rows, d.peer)
  <2>1. /\ e.types = d.types /\ e.peer = d.peer /\ e.whole = d.whole
        /\ e.recentBlocks = lists.recentBlocks /\ e.nodeStatuses = lists.nodeStatuses
    <3>1. e = [Listed(d, lists) EXCEPT !.step = @ + 1]
          BY <1>5 DEF ServerStep
    <3> HIDE DEF lists
    <3>2. d = [x \in DetailFields |-> d[x]]
          BY DEF HasFields
    <3>3. /\ Listed(d, lists) = [x \in DetailFields |-> Listed(d, lists)[x]]
          /\ Listed(d, lists).types = d.types /\ Listed(d, lists).peer = d.peer
          /\ Listed(d, lists).whole = d.whole
          /\ Listed(d, lists).recentBlocks = lists.recentBlocks
          /\ Listed(d, lists).nodeStatuses = lists.nodeStatuses
          BY <3>2 DEF Listed, DetailFields
    <3> QED BY <3>1, <3>3 DEF DetailFields
  <2>2. ASSUME NEW t \in ListedTypes
        PROVE  Below(e, t) = NewestFirst(Newest(RowsOf(rows, t, d.peer), DetailLimit))
        BY <2>1 DEF ApiLists, Below, ListedTypes
  <2>3. ASSUME NEW t \in ListedTypes
        PROVE  Len(Below(e, t)) = Least(Count(rows, t, d.peer), DetailLimit)
    <3>1. /\ RowsOf(rows, t, d.peer) \in SUBSET Nat /\ IsFiniteSet(RowsOf(rows, t, d.peer))
          /\ DetailLimit \in Nat
          BY RowsOfCounts, BrowseAssumption
    <3> DEFINE N == Newest(RowsOf(rows, t, d.peer), DetailLimit)
    <3>2. N \in SUBSET Nat /\ IsFiniteSet(N) /\ Cardinality(N) = Least(Count(rows, t, d.peer), DetailLimit)
          BY <3>1, NewestCounts DEF Count
    <3> HIDE DEF N
    <3>3. Len(NewestFirst(N)) = Cardinality(N)
          BY <3>2, NewestFirstLists
    <3> QED BY <2>2, <3>2, <3>3 DEF N
  <2>4. d.whole => \A t \in DOMAIN d.types \intersect ListedTypes :
                     d.types[t] \in Nat /\ d.types[t] <= Count(rows, t, d.peer)
        BY <1>1, <1>5 DEF Grounded
  <2>5. ASSUME d.whole, NEW t \in DOMAIN d.types \intersect ListedTypes
        PROVE  Len(Below(e, t)) >= Least(d.types[t], DetailLimit)
    <3>1. /\ d.types[t] \in Nat /\ d.types[t] <= Count(rows, t, d.peer) /\ Count(rows, t, d.peer) \in Nat
          /\ DetailLimit \in Nat /\ Len(Below(e, t)) = Least(Count(rows, t, d.peer), DetailLimit)
          BY <2>3, <2>4, <2>5, RowsOfCounts, BrowseAssumption
    <3> QED BY <3>1 DEF Least
  <2> QED BY <1>2, <1>5, <2>1, <2>4, <2>5 DEF Grounded
<1> QED BY <1>1, <1>3, <1>4, <1>5

LEMMA CountsKept ==
    ASSUME FollowInv, CountsInv, [Next]_vars
    PROVE  CountsInv'
<1>1. IsSequence(rows')
      BY RowsGrow DEF CountsInv
<1>2. \A d : Grounded(d) => Grounded(d)'
      BY StaysGrounded DEF CountsInv
<1>3. ASSUME NEW a \in Answers(detail')
      PROVE  Grounded(a)' /\ a.step > 0
  <2>1. CASE a \in Answers(detail)
        BY <1>2, <2>1 DEF CountsInv
  <2>2. CASE a \notin Answers(detail)
    <3>1. PICK d : /\ d \in Answers(detail) \/ \E peer : d = NewDetail(peer)
                   /\ d.step < 2
                   /\ a \in {[ServerStep(d) EXCEPT !.step = @ + 1],
                             [FailedStep(d) EXCEPT !.step = @ + 1, !.whole = FALSE]}
          BY <2>2, DetailMoves
    <3>2. HasFields(d, DetailFields)
      <4>1. CASE d \in Answers(detail)
            BY <4>1 DEF Answers, FollowInv, DetailInv, Follows
      <4>2. CASE \E peer : d = NewDetail(peer)
            BY <4>2 DEF NewDetail, HasFields, DetailFields
      <4> QED BY <3>1, <4>1, <4>2
    <3>3. Grounded(a) /\ a.step > 0
          BY <3>1, <3>2, ServerGrounds DEF CountsInv
    <3> QED BY <1>2, <3>3
  <2> QED BY <2>1, <2>2
<1>4. ASSUME NEW a \in Screen(detail')
      PROVE  Grounded(a)' /\ a.step >= 2
  <2>1. a \in Screen(detail) \/ (a \in Answers(detail) /\ a.step = 2)
        BY DetailMoves
  <2>2. Grounded(a) /\ a.step >= 2
        BY <2>1 DEF CountsInv
  <2> QED BY <1>2, <2>2
<1> QED BY <1>1, <1>3, <1>4 DEF CountsInv

\* The blocks and node statuses that are counted in the details (subtrees have no list there)
\* have their rows below, although rows are stored between the two readings of the server
\* (/api/peers/<peer>, PeerDetail.tsx).
THEOREM BrowseCountedIsShown ==
    ASSUME AbsencesDiffer
    PROVE  Spec => []CountedIsShown
<1>1. Init => CountsInv
      BY BrowseAssumption DEF Init, CountsInv, Answers, Screen, IsSequence
<1>2. FollowInv /\ CountsInv /\ [Next]_vars => CountsInv'
      BY CountsKept
<1>3. FollowInv /\ CountsInv => CountedIsShown
  <2> SUFFICES ASSUME CountsInv, OnScreen(detail), detail.shown.whole,
                      NEW t \in DOMAIN detail.shown.types \intersect ListedTypes
               PROVE  Len(Below(detail.shown, t)) >= Least(detail.shown.types[t], DetailLimit)
      BY DEF CountedIsShown, ListedTypes, Below
  <2>1. detail.shown \in Screen(detail)
        BY DEF Screen, OnScreen
  <2> QED BY <2>1 DEF CountsInv, Grounded
<1> QED BY <1>1, <1>2, <1>3, BrowseInvariant, PTL DEF Spec

-----------------------------------------------------------------------------
(* The messages under all topics.                                          *)

RowsProper(db) == IsSequence(db) /\ \A i \in DOMAIN db : IsRow(db[i])

\* The newest of all are among the newest n, which are all if there are no more.
LEMMA NewestAmong ==
    ASSUME NEW S \in SUBSET Nat, IsFiniteSet(S), NEW n \in Nat \ {0}
    PROVE  /\ Newest(S, 1) \subseteq Newest(S, n)
           /\ Cardinality(S) <= n => Newest(S, n) = S
<1>1. /\ Cardinality(S) \in Nat
      /\ \A i \in S : Cardinality(Above(S, i)) \in 0..(Cardinality(S) - 1)
      BY AboveCounts
<1>2. \A i \in S : Cardinality(Above(S, i)) < 1 => Cardinality(Above(S, i)) < n
      BY <1>1
<1>3. Cardinality(S) <= n => \A i \in S : Cardinality(Above(S, i)) < n
      BY <1>1
<1>4. \A m : Newest(S, m) = {i \in S : Cardinality(Above(S, i)) < m}
      BY DEF Newest, Above
<1> QED BY <1>2, <1>3, <1>4

LEMMA ListLimitFifth ==
    /\ ListLimit \in Nat /\ ListLimit \div 5 \in Nat \ {0} /\ 3 * (ListLimit \div 5) < ListLimit
<1>1. ListLimit \in Nat /\ ListLimit >= 5
      BY BrowseAssumption
<1> QED BY <1>1

\* A fifth of the limit from each of three tables leaves the limit unreached.
LEMMA NewestOfEachFits ==
    ASSUME NEW db, IsSequence(db), NEW p
    PROVE  /\ NewestOfEach(db, p) \in SUBSET Nat /\ IsFiniteSet(NewestOfEach(db, p))
           /\ NewestOfEach(db, p) \subseteq {i \in DOMAIN db : db[i].peer = p}
           /\ Cardinality(NewestOfEach(db, p)) < ListLimit
           /\ \A t \in Tables : Newest(RowsOf(db, t, p), 1) \subseteq NewestOfEach(db, p)
           /\ (\A t \in Tables : Cardinality(RowsOf(db, t, p)) <= ListLimit \div 5) =>
                \A t \in Tables : RowsOf(db, t, p) \subseteq NewestOfEach(db, p)
<1> DEFINE n == ListLimit \div 5
           N(t) == Newest(RowsOf(db, t, p), n)
<1>1. ListLimit \in Nat /\ n \in Nat \ {0} /\ 3 * n < ListLimit
      BY ListLimitFifth
<1>2. NewestOfEach(db, p) = UNION {N(t) : t \in Tables}
      BY DEF NewestOfEach
<1> HIDE DEF n
<1>3. ASSUME NEW t \in Tables
      PROVE  /\ N(t) \in SUBSET Nat /\ IsFiniteSet(N(t)) /\ N(t) \subseteq RowsOf(db, t, p)
             /\ Cardinality(N(t)) \in Nat /\ Cardinality(N(t)) <= n
             /\ Newest(RowsOf(db, t, p), 1) \subseteq N(t)
             /\ Cardinality(RowsOf(db, t, p)) <= n => RowsOf(db, t, p) \subseteq N(t)
  <2> DEFINE S == RowsOf(db, t, p)
  <2>1. S \in SUBSET Nat /\ IsFiniteSet(S) /\ Cardinality(S) \in Nat
        BY RowsOfCounts DEF Count
  <2> HIDE DEF S
  <2>2. /\ Newest(S, n) \in SUBSET S /\ IsFiniteSet(Newest(S, n))
        /\ Cardinality(Newest(S, n)) = Least(Cardinality(S), n)
        BY <1>1, <2>1, NewestCounts
  <2>3. /\ Newest(S, 1) \subseteq Newest(S, n)
        /\ Cardinality(S) <= n => Newest(S, n) = S
        BY <1>1, <2>1, NewestAmong
  <2>4. Least(Cardinality(S), n) \in Nat /\ Least(Cardinality(S), n) <= n
        BY <1>1, <2>1 DEF Least
  <2> QED BY <2>1, <2>2, <2>3, <2>4 DEF S
<1>4. NewestOfEach(db, p) = (N("block") \union N("subtree")) \union N("node_status")
      BY <1>2 DEF Tables
<1> HIDE DEF N
<1>5. /\ IsFiniteSet(NewestOfEach(db, p)) /\ Cardinality(NewestOfEach(db, p)) <= 3 * n
      /\ Cardinality(NewestOfEach(db, p)) \in Nat
  <2> DEFINE A == N("block") B == N("subtree") C == N("node_status")
  <2>1. /\ IsFiniteSet(A) /\ Cardinality(A) \in Nat /\ Cardinality(A) <= n
        /\ IsFiniteSet(B) /\ Cardinality(B) \in Nat /\ Cardinality(B) <= n
        /\ IsFiniteSet(C) /\ Cardinality(C) \in Nat /\ Cardinality(C) <= n
        BY <1>3 DEF Tables
  <2> HIDE DEF A, B, C
  <2>2. /\ IsFiniteSet(A \union B)
        /\ Cardinality(A \union B) = Cardinality(A) + Cardinality(B) - Cardinality(A \intersect B)
        BY <2>1, FS_Union
  <2>3. Cardinality(A \intersect B) \in Nat /\ Cardinality(A \union B) \in Nat
        BY <2>1, <2>2, FS_Intersection, FS_CardinalityType
  <2>4. /\ IsFiniteSet((A \union B) \union C)
        /\ Cardinality((A \union B) \union C)
             = Cardinality(A \union B) + Cardinality(C) - Cardinality((A \union B) \intersect C)
        BY <2>1, <2>2, FS_Union
  <2>5. Cardinality((A \union B) \intersect C) \in Nat /\ Cardinality((A \union B) \union C) \in Nat
        BY <2>2, <2>4, FS_Intersection, FS_CardinalityType
  <2>6. n \in Nat
        BY <1>1
  <2>7. Cardinality((A \union B) \union C) <= 3 * n
        BY <2>1, <2>2, <2>3, <2>4, <2>5, <2>6
  <2>8. NewestOfEach(db, p) = (A \union B) \union C
        BY <1>4 DEF A, B, C
  <2> QED BY <2>4, <2>5, <2>7, <2>8
<1>6. \A t \in Tables : N(t) \subseteq NewestOfEach(db, p)
      BY <1>4 DEF Tables
<1>7. NewestOfEach(db, p) \in SUBSET Nat
      BY <1>3, <1>4 DEF Tables
<1>8. NewestOfEach(db, p) \subseteq {i \in DOMAIN db : db[i].peer = p}
  <2>1. \A t \in Tables : RowsOf(db, t, p) \subseteq {i \in DOMAIN db : db[i].peer = p}
        BY DEF RowsOf
  <2> QED BY <1>3, <1>4, <2>1 DEF Tables
<1>9. Cardinality(NewestOfEach(db, p)) < ListLimit
      BY <1>1, <1>5
<1> QED BY <1>3, <1>5, <1>6, <1>7, <1>8, <1>9 DEF n

\* The message of a row, under all topics.
Drawable(db, i) == Message(db, i, Topic(<<db[i].net>>, db[i].table))

LEMMA AllTopicsMessages ==
    ASSUME NEW db, IsSequence(db), NEW p
    PROVE  LET messages == ApiMessages(db, p, AllTopics)
           IN  /\ Len(messages) \in Nat /\ Len(messages) < ListLimit
               /\ {messages[k].id : k \in DOMAIN messages} = NewestOfEach(db, p)
               /\ \A k \in DOMAIN messages :
                    \E i \in NewestOfEach(db, p) : messages[k] = Drawable(db, i)
<1> DEFINE N == NewestOfEach(db, p)
           found == NewestFirst(N)
           sorted == [k \in DOMAIN found |-> Drawable(db, found[k])]
           messages == ApiMessages(db, p, AllTopics)
<1>1. N \in SUBSET Nat /\ IsFiniteSet(N) /\ Cardinality(N) < ListLimit /\ Cardinality(N) \in Nat
      BY NewestOfEachFits, FS_CardinalityType
<1>2. messages = SubSeq(sorted, 1, Least(ListLimit, Len(sorted)))
      BY DEF ApiMessages, Drawable
<1> HIDE DEF N, messages
<1>3. found \in Seq(N) /\ Len(found) = Cardinality(N) /\ {found[k] : k \in DOMAIN found} = N
      BY <1>1, NewestFirstLists
<1> HIDE DEF found
<1>4. DOMAIN found = 1..Len(found) /\ Len(found) \in Nat
      BY <1>3
<1>5. sorted \in Seq({Drawable(db, i) : i \in N}) /\ Len(sorted) = Len(found)
  <2>1. sorted \in [1..Len(found) -> {Drawable(db, i) : i \in N}]
        BY <1>3, <1>4
  <2> HIDE DEF sorted
  <2> QED BY <1>4, <2>1
<1>6. messages = sorted
  <2> HIDE DEF sorted
  <2>1. Least(ListLimit, Len(sorted)) = Len(sorted)
        BY <1>1, <1>3, <1>5, ListLimitFifth DEF Least
  <2>2. SubSeq(sorted, 1, Len(sorted)) = sorted
        BY <1>5
  <2> QED BY <1>2, <2>1, <2>2
<1>7. \A i : Drawable(db, i).id = i
      BY DEF Drawable, Message
<1>8. \A k \in DOMAIN sorted : sorted[k].id = found[k] /\ found[k] \in N /\ sorted[k] = Drawable(db, found[k])
      BY <1>3, <1>7
<1>9. DOMAIN sorted = DOMAIN found
      OBVIOUS
<1> HIDE DEF sorted
<1>10. {sorted[k].id : k \in DOMAIN sorted} = N
      BY <1>3, <1>8, <1>9
<1>11. Len(messages) \in Nat /\ Len(messages) < ListLimit
      BY <1>1, <1>3, <1>4, <1>5, <1>6
<1> QED BY <1>6, <1>8, <1>10, <1>11 DEF N, messages

\* One page, if the limit is not reached.
LEMMA OnePage ==
    ASSUME NEW messages, Len(messages) \in Nat, Len(messages) < ListLimit
    PROVE  PagesOf(messages) <= 1
<1> DEFINE l == Len(messages)
<1>1. PagesOf(messages) = (l + ListLimit - 1) \div ListLimit
      BY DEF PagesOf
<1>2. l \in Nat /\ l < ListLimit /\ ListLimit \in Nat
      BY BrowseAssumption
<1> HIDE DEF l
<1>3. (l + ListLimit - 1) \div ListLimit <= 1
      BY <1>2
<1> QED BY <1>1, <1>3

\* The card of a row.
LEMMA CardOfRow ==
    ASSUME NEW db, NEW i \in DOMAIN db, IsRow(db[i])
    PROVE  LET card == Card(Drawable(db, i))
               row == db[i]
           IN  /\ card.kind = row.table /\ row.peer \in card.links
               /\ ("SyncPeerID" \in row.fields => row.sync \in card.links)
               /\ row.fields \ Undrawn(row) \subseteq card.drawn
<1> DEFINE row == db[i]
           parsed == ParseMessage(Drawable(db, i))
           card == Card(Drawable(db, i))
<1>1. /\ parsed.type = row.table /\ parsed.PeerID = row.peer /\ parsed.sync = row.sync
      /\ parsed.sentFromPeer = NoPeer
      /\ parsed.fields = row.fields \intersect ParsedColumns[row.table]
      BY DEF ParseMessage, Drawable, Message, Topic
<1>2. card = CASE parsed.type = "block"       -> BlockCard(parsed)
               [] parsed.type = "subtree"     -> SubtreeCard(parsed)
               [] parsed.type = "node_status" -> NodeStatusCard(parsed)
      BY DEF Card
<1> HIDE DEF parsed, card
<1>3. /\ row.table \in Tables /\ row.peer # NoPeer /\ row.fields \subseteq Columns[row.table]
      BY RowAssumption DEF IsRow
<1> HIDE DEF row
<1>4. row.peer \in PeerLinks(parsed)
      BY <1>1, <1>3 DEF PeerLinks
<1>5. CASE row.table = "block"
  <2>1. card = BlockCard(parsed)
        BY <1>1, <1>2, <1>5
  <2>2. Columns.block = {"Hash", "Height", "DataHubURL", "Header"}
        BY DEF Columns
  <2>3. /\ card.kind = parsed.type /\ card.links = PeerLinks(parsed) \union {}
        /\ {"Hash", "Height"} \subseteq card.drawn
        BY <2>1 DEF BlockCard, CardBase
  <2>4. row.fields \subseteq {"Hash", "Height", "DataHubURL", "Header"}
        BY <1>3, <1>5, <2>2
  <2> QED BY <1>1, <1>4, <1>5, <2>3, <2>4 DEF Undrawn, row, card
<1>6. CASE row.table = "subtree"
  <2>1. card = SubtreeCard(parsed)
        BY <1>1, <1>2, <1>6
  <2>2. Columns.subtree = {"Hash", "DataHubURL"}
        BY DEF Columns
  <2>3. /\ card.kind = parsed.type /\ card.links = PeerLinks(parsed) \union {}
        /\ {"Hash"} \subseteq card.drawn
        BY <2>1 DEF SubtreeCard, CardBase
  <2>4. row.fields \subseteq {"Hash", "DataHubURL"}
        BY <1>3, <1>6, <2>2
  <2> QED BY <1>1, <1>4, <1>6, <2>3, <2>4 DEF Undrawn, row, card
<1>7. CASE row.table = "node_status"
  <2>1. card = NodeStatusCard(parsed)
        BY <1>1, <1>2, <1>7
  <2> DEFINE syncing == "SyncPeerID" \in parsed.fields
             always == {"ClientName", "Version", "BestHeight", "FSMState", "BestBlockHash", "Uptime", "StartTime"}
             below == IF syncing THEN {"SyncPeerID", "SyncPeerHeight"} \union (parsed.fields \intersect SyncRows)
                                 ELSE {}
  <2>2. /\ card.kind = parsed.type
        /\ card.links = PeerLinks(parsed) \union (IF syncing THEN {parsed.sync} ELSE {})
        /\ card.drawn = always \union (parsed.fields \intersect OptionalRows) \union below
        BY <2>1 DEF NodeStatusCard, CardBase
  <2>3. Columns.node_status \subseteq ParsedColumns.node_status \union {"Type"}
        BY DEF Columns, ParsedColumns
  <2>4. /\ parsed.fields = row.fields \intersect ParsedColumns.node_status
        /\ row.fields \subseteq ParsedColumns.node_status \union {"Type"}
        /\ "SyncPeerID" \in ParsedColumns.node_status
        BY <1>1, <1>3, <1>7, <2>3 DEF ParsedColumns
  <2>5. syncing <=> "SyncPeerID" \in row.fields
        BY <2>4
  <2> HIDE DEF syncing
  <2>6. ASSUME NEW f \in row.fields, f \notin Undrawn(row)
        PROVE  f \in card.drawn
    <3>1. f \in ParsedColumns.node_status /\ f \in parsed.fields
          BY <2>4, <2>6 DEF Undrawn
    <3>2. CASE f \in always \union OptionalRows
          BY <2>2, <3>1, <3>2
    <3>3. CASE f \in {"SyncPeerID", "SyncPeerHeight"} \union SyncRows
      <4>1. syncing
            BY <2>5, <2>6, <3>3 DEF Undrawn
      <4> QED BY <2>2, <3>1, <3>3, <4>1
    <3>4. f \in (always \union OptionalRows) \union ({"SyncPeerID", "SyncPeerHeight"} \union SyncRows)
          BY <2>6, <3>1 DEF ParsedColumns, OptionalRows, SyncRows, Undrawn
    <3> QED BY <3>2, <3>3, <3>4
  <2>7. row.fields \ Undrawn(row) \subseteq card.drawn
        BY <2>6
  <2>8. card.kind = row.table /\ row.peer \in card.links
        BY <1>1, <1>4, <2>2
  <2>9. "SyncPeerID" \in row.fields => row.sync \in card.links
        BY <1>1, <2>2, <2>5
  <2> QED BY <2>7, <2>8, <2>9 DEF row, card
<1> QED BY <1>3, <1>5, <1>6, <1>7 DEF Tables, row, card

-----------------------------------------------------------------------------
(* The messages on screen.                                                 *)

MessagesAnswer(key, messages, ok) == [key |-> key, messages |-> messages, at |-> Len(rows), whole |-> ok]

\* What a step does to the answers for the messages.
LEMMA SectionMoves ==
    ASSUME FollowInv, [Next]_vars
    PROVE  /\ \A a \in Answers(section') :
                \/ a \in Answers(section)
                \/ /\ rows' = rows
                   /\ \E key : \/ a = MessagesAnswer(key, ApiMessages(rows, key[1], key[2]), TRUE)
                               \/ a = MessagesAnswer(key, << >>, FALSE)
           /\ Screen(section') \subseteq Screen(section) \union Answers(section)
<1>0. section # Off => IsComponent(section)
      BY DEF FollowInv, SectionInv
<1>1. CASE UNCHANGED section
      BY <1>1
<1>2. CASE section' = Off
      BY <1>2 DEF Answers, Screen
<1>3. ASSUME NEW key, section' = Mounted(key)
      PROVE  Answers(section') = {} /\ Screen(section') = {}
      BY <1>3, MountedHolds
<1>4. ASSUME NEW key, section # Off, section' = Fetch(section, key)
      PROVE  Answers(section') \subseteq Answers(section) /\ Screen(section') \subseteq Screen(section)
      BY <1>0, <1>4, FetchHolds
<1>5. CASE AnswerMessages
  <2>1. PICK i \in DOMAIN section.calls :
           LET key == section.calls[i].key
           IN  \E a \in {MessagesAnswer(key, ApiMessages(rows, key[1], key[2]), TRUE),
                          MessagesAnswer(key, << >>, FALSE)} : section' = Reply(section, i, a)
        BY <1>5 DEF AnswerMessages, MessagesAnswer
  <2> DEFINE key == section.calls[i].key
  <2>2. PICK a \in {MessagesAnswer(key, ApiMessages(rows, key[1], key[2]), TRUE),
                    MessagesAnswer(key, << >>, FALSE)} : section' = Reply(section, i, a)
        BY <2>1
  <2> HIDE DEF key
  <2>3. section # Off /\ rows' = rows
        BY <1>5 DEF AnswerMessages
  <2>4. Answers(section') \subseteq Answers(section) \union {a} /\ Screen(section') \subseteq Screen(section)
        BY <1>0, <2>2, <2>3, ReplyHolds
  <2> QED BY <2>2, <2>3, <2>4
<1>6. CASE SectionArrives
  <2>1. PICK i \in DOMAIN section.calls :
           \/ section.calls[i].reply # Pending /\ section' = Arrived(section, i)
           \/ section' = Failed(section, i)
        BY <1>6 DEF SectionArrives
  <2>2. section # Off /\ IsComponent(section)
        BY <1>0, <1>6 DEF SectionArrives
  <2>3. CASE section.calls[i].reply # Pending /\ section' = Arrived(section, i)
        BY <2>2, <2>3, EndHolds
  <2>4. CASE section' = Failed(section, i)
        BY <2>2, <2>4, EndHolds
  <2> QED BY <2>1, <2>3, <2>4
<1>7. CASE ChooseTopic
      BY <1>4, <1>7 DEF ChooseTopic
<1>8. CASE DetailArrives
  <2>1. PICK d : Draw(d)
        BY <1>8 DEF DetailArrives
  <2>2. \/ section' = Off \/ UNCHANGED section
        \/ \E key : section' = Mounted(key)
        \/ \E key : section # Off /\ section' = Fetch(section, key)
        BY <2>1 DEF Draw, SectionFor
  <2> QED BY <1>1, <1>2, <1>3, <1>4, <2>2
<1>9. \/ UNCHANGED section \/ section' = Off
      \/ AnswerMessages \/ SectionArrives \/ ChooseTopic \/ DetailArrives
      BY DEF Next, vars, StoreRow, FollowLink, GoBack, Reload, Show, TurnPage, TryAgain,
             AnswerPeers, AnswerDetail, ListArrives
<1> QED BY <1>1, <1>2, <1>5, <1>6, <1>7, <1>8, <1>9

\* A whole answer has the messages of the rows there were.
Backed(a) ==
    a.whole => /\ a.at \in 0..Len(rows)
               /\ a.messages = ApiMessages(SubSeq(rows, 1, a.at), a.key[1], a.key[2])

MessagesInv ==
    /\ RowsProper(rows)
    /\ \A a \in Answers(section) \union Screen(section) : Backed(a)

LEMMA FoundRows ==
    ASSUME NEW db, IsSequence(db), NEW at \in 0..Len(db)
    PROVE  /\ IsSequence(SubSeq(db, 1, at)) /\ Len(SubSeq(db, 1, at)) = at
           /\ DOMAIN SubSeq(db, 1, at) = 1..at
           /\ \A i \in 1..at : i \in DOMAIN db /\ SubSeq(db, 1, at)[i] = db[i]
           /\ at = Len(db) => SubSeq(db, 1, at) = db
<1> DEFINE S == {db[i] : i \in DOMAIN db}
<1>1. db \in Seq(S)
      BY DEF IsSequence
<1>2. Len(db) \in Nat /\ at \in Nat /\ DOMAIN db = 1..Len(db) /\ \A i \in 1..at : db[i] \in S
      BY <1>1
<1> HIDE DEF S
<1>3. /\ SubSeq(db, 1, at) \in Seq(S) /\ Len(SubSeq(db, 1, at)) = at
      /\ \A i \in 1..at : SubSeq(db, 1, at)[i] = db[i]
      BY <1>1, <1>2, SubSeqProperties
<1>4. at = Len(db) => SubSeq(db, 1, at) = db
      BY <1>1
<1>5. IsSequence(SubSeq(db, 1, at)) /\ DOMAIN SubSeq(db, 1, at) = 1..at
      BY <1>3, OwnRange
<1> HIDE DEF S
<1>6. \A i \in 1..at : i \in DOMAIN db
      BY <1>2
<1> DEFINE found == SubSeq(db, 1, at)
<1>7. \A i \in 1..at : i \in DOMAIN db /\ found[i] = db[i]
      BY <1>3, <1>6
<1>8. Len(found) = at
      BY <1>3
<1> QED BY <1>4, <1>5, <1>7, <1>8

\* The rows there were are still there.
LEMMA FoundAgain ==
    ASSUME IsSequence(rows), [Next]_vars, NEW at \in 0..Len(rows)
    PROVE  at \in 0..Len(rows') /\ SubSeq(rows', 1, at) = SubSeq(rows, 1, at)
<1>1. IsSequence(rows') /\ DOMAIN rows \subseteq DOMAIN rows' /\ \A i \in DOMAIN rows : rows'[i] = rows[i]
      BY RowsGrow
<1>2. DOMAIN rows = 1..Len(rows) /\ DOMAIN rows' = 1..Len(rows') /\ Len(rows) \in Nat /\ Len(rows') \in Nat
      BY <1>1, OwnRange DEF IsSequence
<1>3. at \in 0..Len(rows')
      BY <1>1, <1>2
<1>4. \A i \in 1..at : SubSeq(rows', 1, at)[i] = SubSeq(rows, 1, at)[i]
      BY <1>1, <1>3, FoundRows
<1>5. /\ IsSequence(SubSeq(rows, 1, at)) /\ IsSequence(SubSeq(rows', 1, at))
      /\ DOMAIN SubSeq(rows, 1, at) = 1..at /\ DOMAIN SubSeq(rows', 1, at) = 1..at
      BY <1>1, <1>3, FoundRows
<1>6. SubSeq(rows', 1, at) = SubSeq(rows, 1, at)
      BY <1>4, <1>5 DEF IsSequence
<1> QED BY <1>3, <1>6

\* Only proper rows are stored.
LEMMA RowsStayProper ==
    ASSUME RowsProper(rows), [Next]_vars
    PROVE  RowsProper(rows')
<1>1. rows' = rows \/ \E r \in NewRows : rows' = Append(rows, r)
      BY DEF Next, vars, StoreRow, FollowLink, GoBack, Reload, TurnPage, TryAgain, ChooseTopic, AnswerPeers,
             AnswerDetail, AnswerMessages, ListArrives, DetailArrives, SectionArrives
<1>2. ASSUME NEW r \in NewRows, rows' = Append(rows, r)
      PROVE  RowsProper(rows')
  <2>1. /\ IsSequence(rows') /\ DOMAIN rows' = 1..(Len(rows) + 1) /\ DOMAIN rows = 1..Len(rows)
        /\ Len(rows) \in Nat /\ \A i \in DOMAIN rows : rows'[i] = rows[i]
        /\ rows'[Len(rows) + 1] = r
        BY <1>2, Appended DEF RowsProper
  <2>2. IsRow(r)
        BY RowAssumption
  <2>3. \A i \in DOMAIN rows' : i \in DOMAIN rows \/ i = Len(rows) + 1
        BY <2>1
  <2> QED BY <2>1, <2>2, <2>3 DEF RowsProper
<1> QED BY <1>1, <1>2

LEMMA MessagesKept ==
    ASSUME FollowInv, MessagesInv, [Next]_vars
    PROVE  MessagesInv'
<1>1. RowsProper(rows')
      BY RowsStayProper DEF MessagesInv
<1>2. IsSequence(rows) /\ Len(rows) \in Nat
      BY OwnRange DEF MessagesInv, RowsProper, IsSequence
<1>3. ASSUME NEW a, Backed(a)
      PROVE  Backed(a)'
      BY <1>2, <1>3, FoundAgain DEF Backed
<1>4. ASSUME NEW key
      PROVE  /\ Backed(MessagesAnswer(key, ApiMessages(rows, key[1], key[2]), TRUE))
             /\ Backed(MessagesAnswer(key, << >>, FALSE))
  <2>1. SubSeq(rows, 1, Len(rows)) = rows /\ Len(rows) \in 0..Len(rows)
        BY <1>2, FoundRows
  <2> DEFINE a == MessagesAnswer(key, ApiMessages(rows, key[1], key[2]), TRUE)
             b == MessagesAnswer(key, << >>, FALSE)
  <2>2. a.at = Len(rows) /\ a.messages = ApiMessages(rows, key[1], key[2]) /\ a.key = key /\ b.whole = FALSE
        BY DEF MessagesAnswer
  <2> HIDE DEF a, b
  <2>3. Backed(a) /\ Backed(b)
        BY <2>1, <2>2 DEF Backed
  <2> QED BY <2>3 DEF a, b
<1>5. \A a \in Answers(section') \union Screen(section') : Backed(a)
      BY <1>4, SectionMoves DEF MessagesInv
<1> QED BY <1>1, <1>3, <1>5 DEF MessagesInv

\* Under "all topics" the newest row of each of the peer's tables is on screen, as a card of
\* its own kind with the row's links and columns, and all rows are if they fit
\* (/api/messages, MessageListSection.tsx, messageParser.ts and MessageCards.tsx).
THEOREM BrowseNewestOnScreen ==
    ASSUME AbsencesDiffer
    PROVE  Spec => []NewestOnScreen
<1>1. Init => MessagesInv
      BY BrowseAssumption, RowAssumption DEF Init, MessagesInv, RowsProper, Answers, Screen, IsSequence
<1>2. FollowInv /\ MessagesInv /\ [Next]_vars => MessagesInv'
      BY MessagesKept
<1>3. MessagesInv => NewestOnScreen
  <2> SUFFICES ASSUME MessagesInv, OnScreen(section), section.shown.whole, section.shown.key[2] = AllTopics
               PROVE  NewestOnScreen
      BY DEF NewestOnScreen
  <2> DEFINE a == section.shown
             p == a.key[1]
             found == SubSeq(rows, 1, a.at)
             messages == a.messages
             ids == {messages[k].id : k \in DOMAIN messages}
  <2>1. a \in Screen(section)
        BY DEF Screen, OnScreen
  <2>2. a.at \in 0..Len(rows) /\ messages = ApiMessages(found, p, AllTopics)
        BY <2>1 DEF MessagesInv, Backed
  <2>3. IsSequence(rows) /\ \A i \in DOMAIN rows : IsRow(rows[i])
        BY DEF MessagesInv, RowsProper
  <2>4. IsSequence(found) /\ \A i \in DOMAIN found : IsRow(found[i])
        BY <2>2, <2>3, FoundRows
  <2> HIDE DEF a, p, found, messages
  <2>5. /\ Len(messages) \in Nat /\ Len(messages) < ListLimit
        /\ ids = NewestOfEach(found, p)
        /\ \A k \in DOMAIN messages : \E i \in NewestOfEach(found, p) : messages[k] = Drawable(found, i)
        BY <2>2, <2>4, AllTopicsMessages
  <2> HIDE DEF ids
  <2>6. /\ NewestOfEach(found, p) \subseteq {i \in DOMAIN found : found[i].peer = p}
        /\ \A t \in Tables : Newest(RowsOf(found, t, p), 1) \subseteq NewestOfEach(found, p)
        /\ (\A t \in Tables : Cardinality(RowsOf(found, t, p)) <= ListLimit \div 5) =>
             \A t \in Tables : RowsOf(found, t, p) \subseteq NewestOfEach(found, p)
        BY <2>4, NewestOfEachFits
  <2>7. ASSUME NEW k \in DOMAIN messages
        PROVE  LET card == Card(messages[k])
                   row == messages[k].row
               IN  /\ card.kind = row.table /\ p \in card.links
                   /\ ("SyncPeerID" \in row.fields => row.sync \in card.links)
                   /\ row.fields \ Undrawn(row) \subseteq card.drawn
    <3>1. PICK i \in NewestOfEach(found, p) : messages[k] = Drawable(found, i)
          BY <2>5
    <3>2. i \in DOMAIN found /\ found[i].peer = p /\ IsRow(found[i])
          BY <2>4, <2>6
    <3>3. messages[k].row = found[i]
          BY <3>1 DEF Drawable, Message
    <3> QED BY <3>1, <3>2, <3>3, CardOfRow
  <2>8. ASSUME \A t \in Tables : Cardinality(RowsOf(found, t, p)) <= ListLimit \div 5
        PROVE  ids = {i \in DOMAIN found : found[i].peer = p} /\ PagesOf(messages) <= 1
    <3>1. \A i \in DOMAIN found : found[i].peer = p => i \in RowsOf(found, found[i].table, p)
          BY DEF RowsOf
    <3>2. \A i \in DOMAIN found : found[i].table \in Tables
          BY <2>4 DEF IsRow
    <3>3. {i \in DOMAIN found : found[i].peer = p} \subseteq NewestOfEach(found, p)
          BY <2>6, <2>8, <3>1, <3>2
    <3> QED BY <2>5, <2>6, <3>3, OnePage
  <2>9. \A t \in Tables : Newest(RowsOf(found, t, p), 1) \subseteq ids
        BY <2>5, <2>6
  <2> QED BY <2>7, <2>8, <2>9 DEF NewestOnScreen, a, p, found, messages, ids
<1> QED BY <1>1, <1>2, <1>3, BrowseInvariant, PTL DEF Spec

-----------------------------------------------------------------------------
(* The lists of peers.                                                     *)

Stats(db) == {PeerStat(db, p) : p \in PeersIn(db)}

\* There are as many peers' statistics as peers, finitely many.
LEMMA StatsCount ==
    ASSUME NEW db, IsSequence(db)
    PROVE  /\ IsFiniteSet(PeersIn(db)) /\ Cardinality(PeersIn(db)) \in Nat
           /\ IsFiniteSet(Stats(db)) /\ Cardinality(Stats(db)) = Cardinality(PeersIn(db))
           /\ \A p : PeerStat(db, p).id = p /\ PeerStat(db, p).total \in Nat
<1>1. DOMAIN db = 1..Len(db) /\ Len(db) \in Nat
      BY OwnRange DEF IsSequence
<1>2. IsFiniteSet(1..Len(db))
  <2>1. 1 \in Int /\ Len(db) \in Int
        BY <1>1
  <2> QED BY <2>1, FS_Interval
<1>3. IsFiniteSet(PeersIn(db)) /\ Cardinality(PeersIn(db)) \in Nat
  <2> DEFINE f == [i \in 1..Len(db) |-> db[i].peer]
  <2>1. f \in Surjection(1..Len(db), PeersIn(db))
        BY <1>1 DEF Surjection, PeersIn
  <2> HIDE DEF f
  <2> QED BY <1>2, <2>1, FS_Surjection, FS_CardinalityType
<1>4. ASSUME NEW p
      PROVE  PeerStat(db, p).id = p /\ PeerStat(db, p).total \in Nat
  <2>1. {i \in DOMAIN db : db[i].peer = p} \in SUBSET (1..Len(db))
        BY <1>1
  <2>2. Cardinality({i \in DOMAIN db : db[i].peer = p}) \in Nat
        BY <1>2, <2>1, FS_Subset, FS_CardinalityType
  <2> QED BY <2>2 DEF PeerStat
<1>5. IsFiniteSet(Stats(db)) /\ Cardinality(Stats(db)) = Cardinality(PeersIn(db))
  <2> DEFINE f == [p \in PeersIn(db) |-> PeerStat(db, p)]
  <2>1. \A p, q \in PeersIn(db) : f[p] = f[q] => p = q
        BY <1>4
  <2>2. f \in Bijection(PeersIn(db), Stats(db))
    <3>1. f \in [PeersIn(db) -> Stats(db)] /\ \A s \in Stats(db) : \E p \in PeersIn(db) : f[p] = s
          BY DEF Stats
    <3> HIDE DEF f
    <3> QED BY <2>1, <3>1 DEF Bijection, Surjection, Injection, IsInjective
  <2>3. ExistsBijection(PeersIn(db), Stats(db))
        BY <2>2 DEF ExistsBijection
  <2> QED BY <1>3, <2>3, FS_Bijection
<1> QED BY <1>3, <1>4, <1>5

\* A listing has every peer once.
LEMMA ListingOf ==
    ASSUME NEW db, IsSequence(db), NEW stats \in Listings(db)
    PROVE  /\ stats \in Seq(Stats(db)) /\ Len(stats) = Cardinality(PeersIn(db)) /\ Len(stats) \in Nat
           /\ DOMAIN stats = 1..Len(stats)
           /\ \A i, j \in DOMAIN stats : stats[i].id = stats[j].id => i = j
           /\ \A i \in DOMAIN stats : stats[i].id \in PeersIn(db) /\ stats[i] = PeerStat(db, stats[i].id)
           /\ \A p \in PeersIn(db) : \E i \in DOMAIN stats : stats[i].id = p
<1> DEFINE S == Stats(db)
           n == Cardinality(S)
<1>1. /\ IsFiniteSet(S) /\ n = Cardinality(PeersIn(db)) /\ n \in Nat
      /\ \A p : PeerStat(db, p).id = p
      BY StatsCount
<1>2. stats \in [1..n -> S] /\ \A i, j \in 1..n : i # j => stats[i] # stats[j]
      BY DEF Listings, SetToSeqs, Stats
<1>3. \A s \in S : s.id \in PeersIn(db) /\ s = PeerStat(db, s.id)
      BY <1>1 DEF Stats
<1> HIDE DEF S
<1>4. stats \in Surjection(1..n, S)
  <2>1. stats \in Injection(1..n, S)
        BY <1>2 DEF Injection, IsInjective
  <2>2. Cardinality(1..n) = n
    <3>1. 1 \in Int /\ n \in Int
          BY <1>1
    <3> HIDE DEF n
    <3>2. Cardinality(1..n) = IF 1 > n THEN 0 ELSE n - 1 + 1
          BY <3>1, FS_Interval
    <3> QED BY <1>1, <3>2
  <2> QED BY <1>1, <2>1, <2>2, FS_Injection
<1>5. \A s \in S : \E i \in 1..n : stats[i] = s
      BY <1>4 DEF Surjection
<1>6. \A p \in PeersIn(db) : PeerStat(db, p) \in S
      BY DEF S, Stats
<1> HIDE DEF n
<1>7. stats \in Seq(S) /\ Len(stats) = n /\ DOMAIN stats = 1..n
      BY <1>1, <1>2
<1>8. \A i \in 1..n : stats[i] \in S /\ stats[i].id \in PeersIn(db) /\ stats[i] = PeerStat(db, stats[i].id)
      BY <1>2, <1>3
<1>9. \A i, j \in 1..n : stats[i].id = stats[j].id => i = j
      BY <1>2, <1>8
<1>10. ASSUME NEW p \in PeersIn(db)
       PROVE  \E i \in 1..n : stats[i].id = p
       BY <1>1, <1>5, <1>6
<1> QED BY <1>1, <1>7, <1>8, <1>9, <1>10 DEF S, n

\* The peers that have as many messages as no other.
Alone(db) ==
    {p \in PeersIn(db) : \A q \in PeersIn(db) \ {p} : PeerStat(db, p).total # PeerStat(db, q).total}

Ahead(db, p) == {q \in PeersIn(db) : PeerStat(db, q).total > PeerStat(db, p).total}

\* The place of such a peer in any listing is after those that have more.
LEMMA PlaceInListing ==
    ASSUME NEW db, IsSequence(db), NEW stats \in Listings(db), NEW k \in DOMAIN stats,
           stats[k].id \in Alone(db)
    PROVE  Cardinality(Ahead(db, stats[k].id)) = k - 1
<1> DEFINE n == Len(stats)
           A == Ahead(db, stats[k].id)
<1>1. /\ n \in Nat /\ DOMAIN stats = 1..n
      /\ \A i, j \in DOMAIN stats : stats[i].id = stats[j].id => i = j
      /\ \A i \in DOMAIN stats : stats[i].id \in PeersIn(db) /\ stats[i] = PeerStat(db, stats[i].id)
      /\ \A p \in PeersIn(db) : \E i \in DOMAIN stats : stats[i].id = p
      BY ListingOf
<1>2. \A i, j \in DOMAIN stats : i < j => stats[i].total >= stats[j].total
      BY DEF Listings, Descending
<1>3. \A i \in DOMAIN stats : stats[i].total \in Nat
      BY <1>1, StatsCount
<1>4. \A i \in DOMAIN stats : i # k => stats[i].total # stats[k].total
      BY <1>1 DEF Alone
<1>5. \A i \in DOMAIN stats : stats[i].total > stats[k].total <=> i < k
  <2>1. ASSUME NEW i \in DOMAIN stats, i < k
        PROVE  stats[i].total > stats[k].total
    <3>1. i # k
          BY <1>1, <2>1
    <3>2. stats[i].total >= stats[k].total /\ stats[i].total # stats[k].total
          BY <1>2, <1>4, <2>1, <3>1
    <3> QED BY <1>3, <3>2
  <2>2. ASSUME NEW i \in DOMAIN stats, ~(i < k)
        PROVE  ~(stats[i].total > stats[k].total)
    <3>1. i = k \/ k < i
          BY <1>1, <2>2
    <3> QED BY <1>2, <1>3, <3>1
  <2> QED BY <2>1, <2>2
<1> DEFINE f == [i \in 1..(k - 1) |-> stats[i].id]
<1>6. k \in Nat /\ \A i \in 1..(k - 1) : i \in DOMAIN stats /\ i < k
      BY <1>1
<1>7. f \in [1..(k - 1) -> A] /\ \A i, j \in 1..(k - 1) : f[i] = f[j] => i = j
  <2>1. \A i \in 1..(k - 1) : stats[i].id \in A
        BY <1>1, <1>5, <1>6 DEF Ahead
  <2>2. \A i, j \in 1..(k - 1) : stats[i].id = stats[j].id => i = j
        BY <1>1, <1>6
  <2> HIDE DEF A
  <2> QED BY <2>1, <2>2
<1>8. \A p \in A : \E i \in 1..(k - 1) : f[i] = p
  <2> SUFFICES ASSUME NEW p \in A PROVE \E i \in 1..(k - 1) : stats[i].id = p
      OBVIOUS
  <2>1. p \in PeersIn(db) /\ PeerStat(db, p).total > PeerStat(db, stats[k].id).total
        BY DEF Ahead
  <2>2. PICK i \in DOMAIN stats : stats[i].id = p
        BY <1>1, <2>1
  <2>3. stats[i].total > stats[k].total
        BY <1>1, <2>1, <2>2
  <2>4. i < k /\ i \in 1..(k - 1)
        BY <1>1, <1>5, <1>6, <2>3
  <2> QED BY <2>2, <2>4
<1> HIDE DEF f, A
<1>9. ExistsBijection(1..(k - 1), A)
      BY <1>7, <1>8 DEF ExistsBijection, Bijection, Surjection, Injection, IsInjective
<1>10. k - 1 \in Nat
       BY <1>1
<1>11. Cardinality(A) = k - 1
       BY <1>9, <1>10, FS_CountingElements
<1> QED BY <1>11 DEF A

\* So it has the same place in all of them.
LEMMA SamePlace ==
    ASSUME NEW db, IsSequence(db), NEW s \in Listings(db), NEW t \in Listings(db),
           NEW i \in DOMAIN s, NEW j \in DOMAIN t, s[i].id = t[j].id, s[i].id \in Alone(db)
    PROVE  i = j
<1>1. Cardinality(Ahead(db, s[i].id)) = i - 1 /\ Cardinality(Ahead(db, t[j].id)) = j - 1
      BY PlaceInListing
<1>2. i \in Int /\ j \in Int
  <2>1. /\ DOMAIN s = 1..Len(s) /\ Len(s) \in Nat
        /\ DOMAIN t = 1..Len(t) /\ Len(t) \in Nat
        BY ListingOf
  <2> QED BY <2>1
<1> QED BY <1>1, <1>2

-----------------------------------------------------------------------------
(* Pages of a listing.                                                     *)

Slice(stats, page) ==
    SubSeq(stats, (page - 1) * PeersPerPage + 1, Least(page * PeersPerPage, Len(stats)))

IdsOf(peers) == {peers[k].id : k \in DOMAIN peers}

\* The positions on a page are after those on the pages before.
LEMMA PagesApart ==
    ASSUME NEW a \in Nat \ {0}, NEW b \in Nat, a < b
    PROVE  /\ a * PeersPerPage \in Nat /\ (a - 1) * PeersPerPage \in Nat
           /\ a * PeersPerPage <= (b - 1) * PeersPerPage
           /\ a * PeersPerPage = (a - 1) * PeersPerPage + PeersPerPage
<1> DEFINE s == PeersPerPage
<1>1. s \in Nat
      BY BrowseAssumption
<1> HIDE DEF s
<1>2. PICK d \in Nat : b - 1 = a + d
  <2>1. b - 1 - a \in Nat /\ b - 1 = a + (b - 1 - a)
        OBVIOUS
  <2> QED BY <2>1
<1>3. (a + d) * s = a * s + d * s /\ a * s \in Nat /\ d * s \in Nat
      BY <1>1
<1>4. a * s <= (a + d) * s
      BY <1>3
<1>5. (a - 1) * s \in Nat /\ a * s = (a - 1) * s + s
      BY <1>1
<1> QED BY <1>2, <1>3, <1>4, <1>5 DEF s

\* The peers on a page are those at its positions.
LEMMA SliceIds ==
    ASSUME NEW db, IsSequence(db), NEW stats \in Listings(db), NEW page \in Nat \ {0}
    PROVE  IdsOf(Slice(stats, page)) =
             {stats[i].id : i \in {j \in DOMAIN stats : /\ (page - 1) * PeersPerPage < j
                                                        /\ j <= page * PeersPerPage}}
<1> DEFINE lo == (page - 1) * PeersPerPage
           hi == page * PeersPerPage
           n == Len(stats)
           s == Slice(stats, page)
           top == Least(hi, n)
<1>1. n \in Nat /\ DOMAIN stats = 1..n /\ stats \in Seq(Stats(db))
      BY ListingOf
<1>2. lo \in Nat /\ hi \in Nat
  <2>1. page + 1 \in Nat /\ page < page + 1
        OBVIOUS
  <2> QED BY <2>1, PagesApart
<1>3. s = SubSeq(stats, lo + 1, top)
      BY DEF Slice
<1>4. top \in Nat /\ top <= hi /\ top <= n /\ (top = hi \/ top = n)
      BY <1>1, <1>2 DEF Least
<1> HIDE DEF lo, hi, n, s, top
<1>5. \A i \in (lo + 1)..top : i \in DOMAIN stats /\ stats[i] \in Stats(db)
      BY <1>1, <1>2, <1>4
<1>6. /\ s \in Seq(Stats(db)) /\ Len(s) = IF lo + 1 <= top THEN top - (lo + 1) + 1 ELSE 0
      /\ \A k \in 1..(top - (lo + 1) + 1) : s[k] = stats[lo + 1 + k - 1]
  <2>1. lo + 1 \in Int /\ top \in Int
        BY <1>2, <1>4
  <2> QED BY <1>3, <1>5, <2>1, SubSeqProperties
<1>7. DOMAIN s = 1..Len(s) /\ Len(s) \in Nat
      BY <1>6, OwnRange
<1>8. \A k \in DOMAIN s : lo + k \in DOMAIN stats /\ lo < lo + k /\ lo + k <= hi /\ s[k] = stats[lo + k]
  <2> SUFFICES ASSUME NEW k \in DOMAIN s
               PROVE  lo + k \in DOMAIN stats /\ lo < lo + k /\ lo + k <= hi /\ s[k] = stats[lo + k]
      OBVIOUS
  <2>1. k \in Nat /\ 1 <= k /\ lo + k <= top /\ k \in 1..(top - (lo + 1) + 1)
        BY <1>2, <1>4, <1>6, <1>7
  <2>2. lo + 1 + k - 1 = lo + k /\ lo + k \in (lo + 1)..top
        BY <1>2, <1>4, <2>1
  <2>3. s[k] = stats[lo + k]
        BY <1>6, <2>1, <2>2
  <2> QED BY <1>2, <1>4, <1>5, <2>1, <2>2, <2>3
<1>9. \A i \in DOMAIN stats : lo < i /\ i <= hi => i - lo \in DOMAIN s /\ lo + (i - lo) = i
  <2> SUFFICES ASSUME NEW i \in DOMAIN stats, lo < i, i <= hi
               PROVE  i - lo \in DOMAIN s /\ lo + (i - lo) = i
      OBVIOUS
  <2>1. i \in Nat /\ i <= n
        BY <1>1
  <2>2. i <= top
        BY <1>4, <2>1
  <2>3. lo + 1 <= top /\ Len(s) = top - (lo + 1) + 1
        BY <1>2, <1>4, <1>6, <2>1, <2>2
  <2> QED BY <1>2, <1>4, <1>7, <2>1, <2>2, <2>3
<1>10. IdsOf(s) = {stats[i].id : i \in {j \in DOMAIN stats : lo < j /\ j <= hi}}
  <2>1. ASSUME NEW x \in IdsOf(s)
        PROVE  x \in {stats[i].id : i \in {j \in DOMAIN stats : lo < j /\ j <= hi}}
    <3>1. PICK k \in DOMAIN s : x = s[k].id
          BY DEF IdsOf
    <3> QED BY <1>8, <3>1
  <2>2. ASSUME NEW i \in DOMAIN stats, lo < i, i <= hi
        PROVE  stats[i].id \in IdsOf(s)
    <3>1. i - lo \in DOMAIN s /\ s[i - lo] = stats[i]
          BY <1>8, <1>9, <2>2
    <3> QED BY <3>1 DEF IdsOf
  <2> QED BY <2>1, <2>2
<1> QED BY <1>10 DEF lo, hi, s

\* Different pages of a listing share no peer.
LEMMA SlicesDisjoint ==
    ASSUME NEW db, IsSequence(db), NEW stats \in Listings(db),
           NEW a \in Nat \ {0}, NEW b \in Nat \ {0}, a < b
    PROVE  IdsOf(Slice(stats, a)) \intersect IdsOf(Slice(stats, b)) = {}
<1> DEFINE ahi == a * PeersPerPage
           blo == (b - 1) * PeersPerPage
<1>1. ahi \in Nat /\ ahi <= blo
      BY PagesApart
<1>2. blo \in Nat
  <2>1. b + 1 \in Nat /\ b < b + 1
        OBVIOUS
  <2> QED BY <2>1, PagesApart
<1>3. /\ IdsOf(Slice(stats, a)) \subseteq {stats[i].id : i \in {j \in DOMAIN stats : j <= ahi}}
      /\ IdsOf(Slice(stats, b)) \subseteq {stats[i].id : i \in {j \in DOMAIN stats : blo < j}}
      BY SliceIds
<1> HIDE DEF ahi, blo
<1>4. /\ DOMAIN stats = 1..Len(stats) /\ Len(stats) \in Nat
      /\ \A i, j \in DOMAIN stats : stats[i].id = stats[j].id => i = j
      BY ListingOf
<1>5. \A i, j \in DOMAIN stats : i <= ahi /\ blo < j => i # j
      BY <1>1, <1>2, <1>4
<1> QED BY <1>3, <1>4, <1>5

\* A peer that is level with no other is on the same page of all listings.
LEMMA SamePage ==
    ASSUME NEW db, IsSequence(db), NEW s \in Listings(db), NEW t \in Listings(db),
           NEW page \in Nat \ {0}, NEW p \in Alone(db), p \in IdsOf(Slice(s, page))
    PROVE  p \in IdsOf(Slice(t, page))
<1> DEFINE On(i) == (page - 1) * PeersPerPage < i /\ i <= page * PeersPerPage
<1>1. PICK i \in DOMAIN s : s[i].id = p /\ On(i)
      BY SliceIds
<1>2. PICK j \in DOMAIN t : t[j].id = p
  <2>1. p \in PeersIn(db)
        BY DEF Alone
  <2> QED BY <2>1, ListingOf
<1>3. i = j
      BY <1>1, <1>2, SamePlace
<1>4. IdsOf(Slice(t, page)) = {t[k].id : k \in {l \in DOMAIN t : On(l)}}
      BY SliceIds
<1> HIDE DEF On
<1> QED BY <1>1, <1>2, <1>3, <1>4

\* The first two pages are all if there are no more.
LEMMA TwoSlices ==
    ASSUME NEW db, IsSequence(db), NEW stats \in Listings(db), Len(stats) <= 2 * PeersPerPage
    PROVE  IdsOf(Slice(stats, 1)) \union IdsOf(Slice(stats, 2)) = PeersIn(db)
<1>1. PeersPerPage \in Nat
      BY BrowseAssumption
<1>2. /\ IdsOf(Slice(stats, 1)) = {stats[i].id : i \in {j \in DOMAIN stats : 0 < j /\ j <= PeersPerPage}}
      /\ IdsOf(Slice(stats, 2)) =
           {stats[i].id : i \in {j \in DOMAIN stats : PeersPerPage < j /\ j <= 2 * PeersPerPage}}
  <2>1. (1 - 1) * PeersPerPage = 0 /\ 1 * PeersPerPage = PeersPerPage /\ (2 - 1) * PeersPerPage = PeersPerPage
        BY <1>1
  <2>2. 1 \in Nat \ {0} /\ 2 \in Nat \ {0}
        OBVIOUS
  <2> QED BY <2>1, <2>2, SliceIds
<1>3. /\ DOMAIN stats = 1..Len(stats) /\ Len(stats) \in Nat
      /\ \A i \in DOMAIN stats : stats[i].id \in PeersIn(db)
      /\ \A p \in PeersIn(db) : \E i \in DOMAIN stats : stats[i].id = p
      BY ListingOf
<1>4. \A i \in DOMAIN stats : \/ 0 < i /\ i <= PeersPerPage
                              \/ PeersPerPage < i /\ i <= 2 * PeersPerPage
      BY <1>1, <1>3
<1> QED BY <1>2, <1>3, <1>4

-----------------------------------------------------------------------------
(* The peers on screen.                                                    *)

\* The keys a component was asked for, last or in a request under way.
Keys(c) == IF c = Off THEN {} ELSE {c.key} \union {c.calls[i].key : i \in DOMAIN c.calls}

LEMMA MountedAsks ==
    ASSUME NEW key
    PROVE  Keys(Mounted(key)) \subseteq {key}
<1>1. Mounted(key).calls = <<Call(key)>> /\ Mounted(key).key = key
      BY DEF Mounted
<1>2. \A i \in DOMAIN <<Call(key)>> : <<Call(key)>>[i] = Call(key)
      OBVIOUS
<1>3. Call(key).key = key
      BY DEF Call
<1> QED BY <1>1, <1>2, <1>3 DEF Keys

LEMMA FetchAsks ==
    ASSUME NEW c, IsComponent(c), c # Off, NEW key
    PROVE  Keys(Fetch(c, key)) \subseteq Keys(c) \union {key}
<1> DEFINE d == Fetch(c, key)
<1>1. d.key = key /\ d.calls = Append(c.calls, Call(key))
      BY DEF Fetch, IsComponent, HasFields, ComponentFields
<1> HIDE DEF d
<1>2. \A i \in DOMAIN d.calls :
         \/ i \in DOMAIN c.calls /\ d.calls[i] = c.calls[i]
         \/ d.calls[i] = Call(key)
  <2>1. /\ DOMAIN d.calls = 1..(Len(c.calls) + 1) /\ DOMAIN c.calls = 1..Len(c.calls)
        /\ Len(c.calls) \in Nat
        /\ \A i \in DOMAIN c.calls : d.calls[i] = c.calls[i]
        /\ d.calls[Len(c.calls) + 1] = Call(key)
        BY <1>1, Appended DEF IsComponent
  <2> QED BY <2>1
<1>3. Call(key).key = key
      BY DEF Call
<1> QED BY <1>1, <1>2, <1>3 DEF Keys, d

LEMMA EndAsks ==
    ASSUME NEW c, IsComponent(c), c # Off, NEW i \in DOMAIN c.calls
    PROVE  Keys(Arrived(c, i)) \subseteq Keys(c) /\ Keys(Failed(c, i)) \subseteq Keys(c)
<1>1. /\ Arrived(c, i).calls = RemoveAt(c.calls, i) /\ Arrived(c, i).key = c.key
      /\ Failed(c, i).calls = RemoveAt(c.calls, i) /\ Failed(c, i).key = c.key
      BY DEF Arrived, Failed, Finally, IsComponent, HasFields, ComponentFields
<1>2. \A k \in DOMAIN RemoveAt(c.calls, i) : \E j \in DOMAIN c.calls : RemoveAt(c.calls, i)[k] = c.calls[j]
      BY Removed DEF IsComponent
<1> QED BY <1>1, <1>2 DEF Keys

LEMMA ReplyAsks ==
    ASSUME NEW c, IsComponent(c), c # Off, NEW i \in DOMAIN c.calls, NEW reply
    PROVE  Keys(Reply(c, i, reply)) \subseteq Keys(c)
<1> DEFINE d == Reply(c, i, reply)
<1>1. d.key = c.key /\ d.calls = [c.calls EXCEPT ![i] = [c.calls[i] EXCEPT !.reply = reply]]
      BY DEF Reply, IsComponent, HasFields, ComponentFields
<1> HIDE DEF d
<1>2. [c.calls[i] EXCEPT !.reply = reply].key = c.calls[i].key
      BY CallAnswered DEF IsComponent
<1>3. /\ DOMAIN d.calls = DOMAIN c.calls
      /\ \A k \in DOMAIN c.calls : d.calls[k].key = c.calls[k].key
      BY <1>1, <1>2
<1> QED BY <1>1, <1>3 DEF Keys, d

PeersAnswer(page, a, ok) ==
    [page |-> page, peers |-> a.peers, total |-> a.total, at |-> Len(rows), whole |-> ok]

\* What a step does to the keys of the list, the answers for it and the page shown before.
LEMMA ListMoves ==
    ASSUME FollowInv, [Next]_vars
    PROVE  /\ \A key \in Keys(list') :
                \/ key \in Keys(list) \/ key = 1
                \/ rows' = rows /\ ListOnScreen /\ key \in PageButtons
           /\ \A a \in Answers(list') :
                \/ a \in Answers(list)
                \/ /\ rows' = rows
                   /\ \E page \in Keys(list) :
                        \/ \E found \in ApiPeers(rows, page) : a = PeersAnswer(page, found, TRUE)
                        \/ a = PeersAnswer(page, NoPeers, FALSE)
           /\ Screen(list') \subseteq Screen(list) \union Answers(list)
           /\ before' = before \/ before' = None \/ before' \in Screen(list)
<1>0. list # Off => IsComponent(list)
      BY DEF FollowInv, ListInv
<1>1. CASE UNCHANGED <<list, before>>
      BY <1>1
<1>2. CASE \E r : Show(r)
  <2>1. PICK r : Show(r)
        BY <1>2
  <2>2. before' = None /\ (list' = Off \/ list' = Mounted(1))
        BY <2>1 DEF Show
  <2>3. CASE list' = Off
        BY <2>2, <2>3 DEF Keys, Answers, Screen
  <2>4. CASE list' = Mounted(1)
        BY <2>2, <2>4, MountedHolds, MountedAsks
  <2> QED BY <2>2, <2>3, <2>4
<1>3. CASE TurnPage
  <2>1. PICK page \in PageButtons : list' = Fetch(list, page)
        BY <1>3 DEF TurnPage
  <2>2. ListOnScreen /\ list # Off /\ UNCHANGED <<rows, before>>
        BY <1>3 DEF TurnPage, ListOnScreen
  <2>3. /\ Keys(list') \subseteq Keys(list) \union {page}
        /\ Answers(list') \subseteq Answers(list) /\ Screen(list') \subseteq Screen(list)
        BY <1>0, <2>1, <2>2, FetchHolds, FetchAsks
  <2> QED BY <2>1, <2>2, <2>3
<1>4. CASE TryAgain
  <2>1. list # Off /\ list' = Fetch(list, list.key) /\ UNCHANGED before
        BY <1>4 DEF TryAgain
  <2>2. list.key \in Keys(list)
        BY <2>1 DEF Keys
  <2>3. /\ Keys(list') \subseteq Keys(list) \union {list.key}
        /\ Answers(list') \subseteq Answers(list) /\ Screen(list') \subseteq Screen(list)
        BY <1>0, <2>1, FetchHolds, FetchAsks
  <2> QED BY <2>1, <2>2, <2>3
<1>5. CASE AnswerPeers
  <2>1. PICK i \in DOMAIN list.calls :
           \/ \E found \in ApiPeers(rows, list.calls[i].key) :
                list' = Reply(list, i, PeersAnswer(list.calls[i].key, found, TRUE))
           \/ list' = Reply(list, i, PeersAnswer(list.calls[i].key, NoPeers, FALSE))
        BY <1>5 DEF AnswerPeers, PeersAnswer
  <2> DEFINE page == list.calls[i].key
  <2>2. list # Off /\ UNCHANGED <<rows, before>>
        BY <1>5 DEF AnswerPeers
  <2>3. page \in Keys(list)
        BY <2>2 DEF Keys
  <2>4. PICK a : /\ list' = Reply(list, i, a)
                 /\ \/ \E found \in ApiPeers(rows, page) : a = PeersAnswer(page, found, TRUE)
                    \/ a = PeersAnswer(page, NoPeers, FALSE)
        BY <2>1
  <2> HIDE DEF page
  <2>5. /\ Keys(list') \subseteq Keys(list)
        /\ Answers(list') \subseteq Answers(list) \union {a} /\ Screen(list') \subseteq Screen(list)
        BY <1>0, <2>2, <2>4, ReplyHolds, ReplyAsks
  <2> QED BY <2>2, <2>3, <2>4, <2>5
<1>6. CASE ListArrives
  <2>1. PICK i \in DOMAIN list.calls :
           \/ list.calls[i].reply # Pending /\ list' = Arrived(list, i) /\ before' = list.shown
           \/ list' = Failed(list, i) /\ UNCHANGED before
        BY <1>6 DEF ListArrives
  <2>2. list # Off /\ IsComponent(list)
        BY <1>0, <1>6 DEF ListArrives
  <2>3. CASE list.calls[i].reply # Pending /\ list' = Arrived(list, i) /\ before' = list.shown
    <3>1. before' = None \/ before' \in Screen(list)
          BY <2>2, <2>3 DEF Screen
    <3>2. /\ Answers(list') \subseteq Answers(list) /\ Keys(list') \subseteq Keys(list)
          /\ Screen(list') \subseteq Answers(list)
          BY <2>2, <2>3, EndHolds, EndAsks
    <3> QED BY <3>1, <3>2
  <2>4. CASE list' = Failed(list, i) /\ UNCHANGED before
        BY <2>2, <2>4, EndHolds, EndAsks
  <2> QED BY <2>1, <2>3, <2>4
<1>7. \/ UNCHANGED <<list, before>> \/ \E r : Show(r)
      \/ TurnPage \/ TryAgain \/ AnswerPeers \/ ListArrives
      BY DEF Next, vars, StoreRow, FollowLink, GoBack, Reload, ChooseTopic,
             AnswerDetail, AnswerMessages, DetailArrives, SectionArrives
<1> QED BY <1>1, <1>2, <1>3, <1>4, <1>5, <1>6, <1>7

-----------------------------------------------------------------------------
(* The pages of peers on screen.                                           *)

\* A page that may be asked for: beyond the second, there are as many peers.
Justified(page) ==
    page \in Nat \ {0} /\ (page > 2 => Cardinality(PeersIn(rows)) > 2 * PeersPerPage)

\* An answer: if it is whole, a page of a listing of the rows there were.
PageOfListing(a) ==
    /\ a.page \in Nat \ {0}
    /\ a.total \in Nat /\ a.total <= Cardinality(PeersIn(rows))
    /\ a.whole =>
         /\ a.at \in 0..Len(rows)
         /\ \E stats \in Listings(SubSeq(rows, 1, a.at)) :
              a.peers = Slice(stats, a.page) /\ a.total = Len(stats)
         /\ a.page > 2 => a.total > 2 * PeersPerPage

PagesInv ==
    /\ IsSequence(rows)
    /\ \A key \in Keys(list) : Justified(key)
    /\ \A a \in Answers(list) \union Screen(list) : PageOfListing(a)
    /\ before # None => PageOfListing(before)

\* The numbered buttons lead to pages there are.
LEMMA ButtonsLead ==
    ASSUME PagesInv, ListOnScreen, NEW page \in PageButtons
    PROVE  Justified(page)
<1> DEFINE total == list.shown.total
           tp == TotalPages
           key == list.key
           first == IF tp <= 5 \/ key <= 3 THEN 1 ELSE IF key >= tp - 2 THEN tp - 4 ELSE key - 2
<1>1. list.shown \in Screen(list) /\ key \in Keys(list)
      BY DEF ListOnScreen, Screen, Keys
<1>2. total \in Nat /\ total <= Cardinality(PeersIn(rows)) /\ key \in Nat \ {0}
      BY <1>1 DEF PagesInv, PageOfListing, Justified
<1>3. PeersPerPage \in Nat \ {0} /\ Cardinality(PeersIn(rows)) \in Nat
      BY BrowseAssumption, StatsCount DEF PagesInv
<1>4. tp = (total + PeersPerPage - 1) \div PeersPerPage
      BY DEF TotalPages
<1>5. tp \in Nat /\ (tp >= 3 => total > 2 * PeersPerPage)
  <2> HIDE DEF total, tp
  <2>1. tp \in Nat
        BY <1>2, <1>3, <1>4
  <2>2. tp * PeersPerPage <= total + PeersPerPage - 1
        BY <1>2, <1>3, <1>4
  <2>3. ASSUME tp >= 3
        PROVE  total > 2 * PeersPerPage
    <3>1. 3 * PeersPerPage <= tp * PeersPerPage
          BY <1>3, <2>1, <2>3
    <3> QED BY <1>2, <1>3, <2>1, <2>2, <3>1
  <2> QED BY <2>1, <2>3
<1>6. page \in first .. first + Least(5, tp) - 1
      BY DEF PageButtons
<1> HIDE DEF total, tp, key
<1>7. page \in Nat \ {0} /\ page <= tp
      BY <1>2, <1>5, <1>6 DEF Least
<1>8. page > 2 => Cardinality(PeersIn(rows)) > 2 * PeersPerPage
      BY <1>2, <1>3, <1>5, <1>7
<1> QED BY <1>7, <1>8 DEF Justified

\* Peers are only added.
LEMMA PeersGrow ==
    ASSUME IsSequence(rows), [Next]_vars
    PROVE  /\ Cardinality(PeersIn(rows)) \in Nat /\ Cardinality(PeersIn(rows')) \in Nat
           /\ Cardinality(PeersIn(rows)) <= Cardinality(PeersIn(rows'))
<1>1. /\ IsSequence(rows') /\ DOMAIN rows \subseteq DOMAIN rows'
      /\ \A i \in DOMAIN rows : rows'[i] = rows[i]
      BY RowsGrow
<1>2. PeersIn(rows) \in SUBSET PeersIn(rows')
      BY <1>1 DEF PeersIn
<1>3. IsFiniteSet(PeersIn(rows')) /\ Cardinality(PeersIn(rows')) \in Nat /\ Cardinality(PeersIn(rows)) \in Nat
      BY <1>1, StatsCount
<1> QED BY <1>2, <1>3, FS_Subset

\* The answers to a page that may be asked for.
LEMMA AnswersListed ==
    ASSUME IsSequence(rows), NEW page, Justified(page)
    PROVE  /\ \A found \in ApiPeers(rows, page) : PageOfListing(PeersAnswer(page, found, TRUE))
           /\ PageOfListing(PeersAnswer(page, NoPeers, FALSE))
<1>1. Cardinality(PeersIn(rows)) \in Nat
      BY StatsCount
<1>2. Len(rows) \in Nat /\ SubSeq(rows, 1, Len(rows)) = rows /\ Len(rows) \in 0..Len(rows)
  <2>1. Len(rows) \in Nat
        BY OwnRange DEF IsSequence
  <2>2. Len(rows) \in 0..Len(rows)
        BY <2>1
  <2> QED BY <2>1, <2>2, FoundRows
<1>3. ASSUME NEW found \in ApiPeers(rows, page)
      PROVE  PageOfListing(PeersAnswer(page, found, TRUE))
  <2> DEFINE a == PeersAnswer(page, found, TRUE)
  <2>1. PICK stats \in Listings(rows) : found = [peers |-> Slice(stats, page), total |-> Len(stats)]
        BY DEF ApiPeers, Slice
  <2>2. /\ a.page = page /\ a.peers = Slice(stats, page) /\ a.total = Len(stats)
        /\ a.at = Len(rows)
        BY <2>1 DEF PeersAnswer
  <2>3. Len(stats) = Cardinality(PeersIn(rows))
        BY ListingOf
  <2> HIDE DEF a
  <2>4. /\ a.page \in Nat \ {0} /\ a.total \in Nat /\ a.total <= Cardinality(PeersIn(rows))
        /\ a.page > 2 => a.total > 2 * PeersPerPage
        BY <1>1, <2>2, <2>3 DEF Justified
  <2>5. \E s \in Listings(SubSeq(rows, 1, a.at)) : a.peers = Slice(s, a.page) /\ a.total = Len(s)
        BY <1>2, <2>2
  <2>6. PageOfListing(a)
        BY <1>2, <2>2, <2>4, <2>5 DEF PageOfListing
  <2> QED BY <2>6 DEF a
<1>4. PageOfListing(PeersAnswer(page, NoPeers, FALSE))
      BY <1>1 DEF PageOfListing, PeersAnswer, NoPeers, Justified
<1> QED BY <1>3, <1>4

LEMMA PagesKept ==
    ASSUME FollowInv, PagesInv, [Next]_vars
    PROVE  PagesInv'
<1>1. IsSequence(rows) /\ IsSequence(rows')
      BY RowsGrow DEF PagesInv
<1>2. PeersPerPage \in Nat
      BY BrowseAssumption
<1>3. ASSUME NEW page, Justified(page)
      PROVE  Justified(page)'
      BY <1>1, <1>2, <1>3, PeersGrow DEF Justified
<1>4. ASSUME NEW a, PageOfListing(a)
      PROVE  PageOfListing(a)'
  <2>1. a.total \in Nat /\ a.total <= Cardinality(PeersIn(rows'))
        BY <1>1, <1>4, PeersGrow DEF PageOfListing
  <2>2. a.whole => a.at \in 0..Len(rows') /\ SubSeq(rows', 1, a.at) = SubSeq(rows, 1, a.at)
        BY <1>1, <1>4, FoundAgain DEF PageOfListing
  <2> QED BY <1>4, <2>1, <2>2 DEF PageOfListing
<1>5. ASSUME NEW key \in Keys(list')
      PROVE  Justified(key)'
  <2>1. CASE key \in Keys(list)
        BY <1>3, <2>1 DEF PagesInv
  <2>2. CASE key = 1
        BY <2>2 DEF Justified
  <2>3. CASE ListOnScreen /\ key \in PageButtons
        BY <1>3, <2>3, ButtonsLead
  <2> QED BY <2>1, <2>2, <2>3, ListMoves
<1>6. ASSUME NEW a \in Answers(list')
      PROVE  PageOfListing(a)
  <2>1. CASE a \in Answers(list)
        BY <2>1 DEF PagesInv
  <2>2. CASE a \notin Answers(list)
    <3>1. PICK page \in Keys(list) :
             \/ \E found \in ApiPeers(rows, page) : a = PeersAnswer(page, found, TRUE)
             \/ a = PeersAnswer(page, NoPeers, FALSE)
          BY <2>2, ListMoves
    <3>2. Justified(page)
          BY DEF PagesInv
    <3> QED BY <1>1, <3>1, <3>2, AnswersListed
  <2> QED BY <2>1, <2>2
<1>7. ASSUME NEW a \in Screen(list')
      PROVE  PageOfListing(a)
      BY ListMoves DEF PagesInv
<1>8. before' # None => PageOfListing(before')
      BY ListMoves DEF PagesInv
<1>9. before' # None => PageOfListing(before)'
      BY <1>1, <1>2, <1>4, <1>8
<1> QED BY <1>1, <1>4, <1>5, <1>6, <1>7, <1>9 DEF PagesInv

\* Of two different pages of the same rows at most one has a peer that no other is level with,
\* and of two that are all pages one has (/api/peers and Peers.tsx).
THEOREM BrowsePagesPartitionPeers ==
    ASSUME AbsencesDiffer
    PROVE  Spec => []PagesPartitionPeers
<1>1. Init => PagesInv
  <2> SUFFICES ASSUME Init PROVE PagesInv
      OBVIOUS
  <2>1. IsSequence(rows) /\ list = Mounted(1) /\ before = None
        BY BrowseAssumption DEF Init, IsSequence
  <2>2. Answers(list) = {} /\ Screen(list) = {} /\ Keys(list) \subseteq {1}
        BY <2>1, MountedHolds, MountedAsks
  <2> QED BY <2>1, <2>2 DEF PagesInv, Justified
<1>2. FollowInv /\ PagesInv /\ [Next]_vars => PagesInv'
      BY PagesKept
<1>3. PagesInv => PagesPartitionPeers
  <2> DEFINE a == before
             b == list.shown
             found == SubSeq(rows, 1, b.at)
  <2> SUFFICES ASSUME PagesInv, list # Off, a # None, b # None,
                      a.at = b.at, a.page # b.page, a.whole, b.whole
               PROVE  /\ IdsOf(a.peers) \intersect IdsOf(b.peers) \intersect Alone(found) = {}
                      /\ b.total <= 2 * PeersPerPage =>
                           Alone(found) \subseteq IdsOf(a.peers) \union IdsOf(b.peers)
      BY DEF PagesPartitionPeers, OnScreen, IdsOf, Alone
  <2>1. b \in Screen(list)
        BY DEF Screen
  <2>2. PageOfListing(a) /\ PageOfListing(b) /\ IsSequence(rows)
        BY <2>1 DEF PagesInv
  <2> HIDE DEF a, b
  <2>3. /\ a.page \in Nat \ {0} /\ b.page \in Nat \ {0} /\ b.at \in 0..Len(rows)
        /\ a.page > 2 => a.total > 2 * PeersPerPage
        /\ b.page > 2 => b.total > 2 * PeersPerPage
        /\ a.total \in Nat /\ b.total \in Nat
        BY <2>2 DEF PageOfListing
  <2>4. PICK s \in Listings(found) : a.peers = Slice(s, a.page) /\ a.total = Len(s)
        BY <2>2 DEF PageOfListing
  <2>5. PICK t \in Listings(found) : b.peers = Slice(t, b.page) /\ b.total = Len(t)
        BY <2>2 DEF PageOfListing
  <2>6. IsSequence(found)
        BY <2>2, <2>3, FoundRows
  <2> HIDE DEF found
  <2>7. \A p \in Alone(found) : p \in IdsOf(a.peers) <=> p \in IdsOf(Slice(t, a.page))
        BY <2>3, <2>4, <2>6, SamePage
  <2>8. IdsOf(a.peers) \intersect IdsOf(b.peers) \intersect Alone(found) = {}
    <3>1. a.page < b.page \/ b.page < a.page
          BY <2>3
    <3>2. IdsOf(Slice(t, a.page)) \intersect IdsOf(Slice(t, b.page)) = {}
          BY <2>3, <2>6, <3>1, SlicesDisjoint
    <3> QED BY <2>5, <2>7, <3>2
  <2>9. ASSUME b.total <= 2 * PeersPerPage
        PROVE  Alone(found) \subseteq IdsOf(a.peers) \union IdsOf(b.peers)
    <3>1. PeersPerPage \in Nat
          BY BrowseAssumption
    <3>2. a.total = b.total
          BY <2>4, <2>5, <2>6, ListingOf
    <3>3. ~(a.page > 2) /\ ~(b.page > 2)
          BY <2>3, <2>9, <3>1, <3>2
    <3>4. (a.page = 1 /\ b.page = 2) \/ (a.page = 2 /\ b.page = 1)
          BY <2>3, <3>3
    <3>5. IdsOf(Slice(t, 1)) \union IdsOf(Slice(t, 2)) = PeersIn(found)
          BY <2>5, <2>6, <2>9, TwoSlices
    <3> QED BY <2>5, <2>7, <3>4, <3>5 DEF Alone
  <2> QED BY <2>8, <2>9
<1> QED BY <1>1, <1>2, <1>3, BrowseInvariant, PTL DEF Spec

=============================================================================
