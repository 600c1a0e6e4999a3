------------------------- MODULE EventServer_proofs -------------------------
(***************************************************************************)
(* Proofs about EventServer: for every capacity the ring buffer holds      *)
(* exactly the latest events, oldest first, those published last among     *)
(* them, and GET /events answers as EventLog promises.                     *)
(***************************************************************************)
EXTENDS EventServer, FiniteSetTheorems, SequenceTheorems, WellFoundedInduction, TLAPS

\* An index up to twice the capacity wraps at most once.
LEMMA WrapOnce ==
    ASSUME NEW n \in Nat \ {0}, NEW a \in 0..(2 * n - 1)
    PROVE  a % n = IF a < n THEN a ELSE a - n
BY SMTT(30)

LEMMA WrapValue ==
    ASSUME NEW a \in 0..(2 * MaxSize - 1)
    PROVE  Wrap(a) = IF a < MaxSize THEN a ELSE a - MaxSize
BY SizeAssumption, WrapOnce DEF Wrap

-----------------------------------------------------------------------------
(* The bus: every published event is new.                                  *)

BusInv ==
    /\ published \in SUBSET Events
    /\ IsFiniteSet(published)
    /\ \A event \in published : event.id <= Cardinality(published)
    /\ \A a, b \in published : a.id = b.id => a = b
    /\ inFlight \in SUBSET published

LEMMA PublishIsNew ==
    ASSUME BusInv, NEW type \in Types, Publish(type)
    PROVE  /\ BusInv'
           /\ \E event \in Events \ published :
                 /\ published' = published \union {event}
                 /\ inFlight' = inFlight \union {event}
                 /\ event.id = Cardinality(published) + 1
<1> DEFINE count == Cardinality(published)
           event == [id |-> count + 1, type |-> type]
<1>1. count \in Nat /\ count < MaxEvents
  BY FS_CardinalityType DEF BusInv, Publish
<1> HIDE DEF count
<1>2. event \in Events
  BY <1>1, CapAssumption DEF Events
<1>3. event \notin published
  BY <1>1 DEF BusInv, count
<1>4. published' = published \union {event} /\ inFlight' = inFlight \union {event}
  BY DEF Publish, count
<1>5. IsFiniteSet(published') /\ Cardinality(published') = count + 1
  BY <1>3, <1>4, FS_AddElement DEF BusInv, count
<1>6. \A e \in published : e.id \in Nat /\ e.id <= count
  BY DEF BusInv, Events, count
<1>7. BusInv'
  <2>1. event.id = count + 1
    OBVIOUS
  <2>2. \A e \in published' : e.id <= count + 1
    BY <1>1, <1>4, <1>6, <2>1
  <2>3. published' \in SUBSET Events /\ inFlight' \in SUBSET published'
    BY <1>2, <1>4 DEF BusInv
  <2>4. \A a, b \in published' : a.id = b.id => a = b
    <3>1. \A e \in published : e.id # event.id
      BY <1>1, <1>6, <2>1
    <3>2. QED
      BY <1>4, <3>1 DEF BusInv
  <2>5. QED
    BY <1>5, <2>2, <2>3, <2>4 DEF BusInv
<1>8. QED
  BY <1>2, <1>3, <1>4, <1>7 DEF count

LEMMA BusInit == Init => BusInv
BY FS_EmptySet DEF Init, BusInv

LEMMA BusNext == BusInv /\ [Next]_vars => BusInv'
<1> SUFFICES ASSUME BusInv, [Next]_vars PROVE BusInv'
  OBVIOUS
<1>1. ASSUME NEW type \in Types, Publish(type) PROVE BusInv'
  BY <1>1, PublishIsNew
<1>2. CASE \E event \in inFlight : RecordEvent(event)
  BY <1>2 DEF RecordEvent, BusInv
<1>3. CASE UNCHANGED busVars
  BY <1>3 DEF busVars, BusInv
<1>4. QED
  BY <1>1, <1>2, <1>3 DEF Next, TakeSnapshot, Reply, vars

-----------------------------------------------------------------------------
(* The ring buffer.                                                        *)

RingType ==
    /\ events \in [0..(MaxSize - 1) -> Events \union {Empty}]
    /\ head \in 0..(MaxSize - 1)
    /\ size \in 0..MaxSize
    /\ inFlight \in SUBSET Events
    /\ recorded \in Seq(Events)

\* head moves only once the buffer is full; the i-th stored event is the one
\* recorded size - i events before the latest.
RingInv ==
    /\ RingType
    /\ size = Stored(Len(recorded))
    /\ size < MaxSize => head = 0
    /\ \A i \in 1..size : events[Slot(i - 1)] = recorded[Len(recorded) - size + i]

\* The slots of the stored events, without the modulus.
LEMMA SlotValue ==
    ASSUME NEW h \in 0..(MaxSize - 1), NEW i \in 0..MaxSize
    PROVE  /\ Wrap(h + i) = IF h + i < MaxSize THEN h + i ELSE h + i - MaxSize
           /\ Wrap(h + i) \in 0..(MaxSize - 1)
<1>1. h + i \in 0..(2 * MaxSize - 1) /\ MaxSize \in Nat \ {0}
  BY SizeAssumption
<1>2. QED
  BY <1>1, WrapValue

LEMMA SlotPrime == \A i : Slot(i)' = Wrap(head' + i)
BY DEF Slot, Wrap

LEMMA StoreNotFull ==
    ASSUME RingInv, NEW event \in Events, Store(event), size < MaxSize,
           recorded' = Append(recorded, event), inFlight' \in SUBSET Events
    PROVE  RingInv'
<1>1. /\ MaxSize \in Nat \ {0} /\ size \in Nat /\ Len(recorded) = size /\ head = 0
      /\ recorded \in Seq(Events)
  BY SizeAssumption DEF RingInv, RingType, Stored
<1>2. Slot(size) = size
  BY <1>1, SlotValue DEF Slot
<1>3. /\ events' = [events EXCEPT ![size] = event] /\ size' = size + 1 /\ head' = head
  BY <1>2 DEF Store
<1>4. /\ recorded' \in Seq(Events) /\ Len(recorded') = size + 1
      /\ recorded'[size + 1] = event
      /\ \A i \in 1..size : recorded'[i] = recorded[i]
  BY <1>1
<1>5. RingType'
  BY <1>1, <1>3, <1>4 DEF RingInv, RingType
<1>6. ASSUME NEW i \in 1..size'
      PROVE  events'[Slot(i - 1)'] = recorded'[Len(recorded') - size' + i]
  <2>1. Slot(i - 1)' = i - 1 /\ i - 1 \in 0..(MaxSize - 1)
    <3>1. i - 1 \in 0..(MaxSize - 1) /\ head' = 0
      BY <1>1, <1>3
    <3>2. Wrap(head' + (i - 1)) = i - 1
      BY <1>1, <3>1, WrapValue
    <3>3. QED
      BY <3>1, <3>2, SlotPrime
  <2>2. Len(recorded') - size' + i = i
    BY <1>1, <1>3, <1>4
  <2>3. CASE i = size + 1
    <3>1. events'[size] = event
      BY <1>1, <1>3, <2>1, <2>3 DEF RingInv, RingType
    <3>2. i - 1 = size
      BY <1>1, <2>3
    <3>3. QED
      BY <1>4, <2>1, <2>2, <2>3, <3>1, <3>2
  <2>4. CASE i \in 1..size
    <3>1. Slot(i - 1) = i - 1
      <4>1. head + (i - 1) = i - 1 /\ i - 1 \in 0..(2 * MaxSize - 1) /\ i - 1 < MaxSize
        BY <1>1, <2>4
      <4>2. QED
        BY <4>1, WrapValue DEF Slot
    <3>2. events[i - 1] = recorded[i]
      BY <1>1, <2>4, <3>1 DEF RingInv
    <3>3. events'[i - 1] = events[i - 1]
      BY <1>1, <1>3, <2>1, <2>4 DEF RingInv, RingType
    <3>4. QED
      BY <1>4, <2>1, <2>2, <2>4, <3>2, <3>3
  <2>5. QED
    BY <1>1, <1>3, <2>3, <2>4
<1>7. size' = Stored(Len(recorded')) /\ (size' < MaxSize => head' = 0)
  BY <1>1, <1>3, <1>4 DEF Stored
<1>8. QED
  BY <1>5, <1>6, <1>7 DEF RingInv

LEMMA StoreFull ==
    ASSUME RingInv, NEW event \in Events, Store(event), size = MaxSize,
           recorded' = Append(recorded, event), inFlight' \in SUBSET Events
    PROVE  RingInv'
<1>1. /\ MaxSize \in Nat \ {0} /\ Len(recorded) \in Nat /\ Len(recorded) >= MaxSize
      /\ head \in 0..(MaxSize - 1) /\ recorded \in Seq(Events)
  BY SizeAssumption DEF RingInv, RingType, Stored
<1>2. /\ events' = [events EXCEPT ![head] = event] /\ size' = MaxSize
      /\ head' = Wrap(head + 1)
  BY SizeAssumption DEF Store
<1>3. /\ head' = (IF head + 1 < MaxSize THEN head + 1 ELSE 0)
      /\ head' \in 0..(MaxSize - 1)
  BY <1>1, <1>2, SlotValue
<1>4. /\ recorded' \in Seq(Events) /\ Len(recorded') = Len(recorded) + 1
      /\ recorded'[Len(recorded) + 1] = event
      /\ \A i \in 1..Len(recorded) : recorded'[i] = recorded[i]
  BY <1>1
<1>5. RingType'
  BY <1>1, <1>2, <1>3, <1>4 DEF RingInv, RingType
<1>6. ASSUME NEW i \in 1..MaxSize
      PROVE  events'[Slot(i - 1)'] = recorded'[Len(recorded') - MaxSize + i]
  <2>1. Slot(i - 1)' = IF head' + (i - 1) < MaxSize THEN head' + (i - 1)
                       ELSE head' + (i - 1) - MaxSize
    <3>1. i - 1 \in 0..MaxSize
      BY <1>1
    <3>2. QED
      BY <1>3, <3>1, SlotValue, SlotPrime
  <2>2. CASE i = MaxSize
    <3>1. Slot(i - 1)' = head
      BY <1>1, <1>3, <2>1, <2>2
    <3>2. events'[head] = event
      BY <1>1, <1>2 DEF RingInv, RingType
    <3>3. QED
      BY <1>1, <1>4, <2>2, <3>1, <3>2
  <2>3. CASE i < MaxSize
    <3>1. Slot(i) = (IF head + i < MaxSize THEN head + i ELSE head + i - MaxSize)
          /\ Slot(i) \in 0..(MaxSize - 1)
      <4>1. i \in 0..MaxSize
        BY <1>1
      <4>2. QED
        BY <1>1, <4>1, SlotValue DEF Slot
    <3>2. Slot(i - 1)' = Slot(i) /\ Slot(i) # head
      BY <1>1, <1>3, <2>1, <2>3, <3>1
    <3>3. events'[Slot(i)] = events[Slot(i)]
      BY <1>2, <3>1, <3>2 DEF RingInv, RingType
    <3>4. events[Slot(i)] = recorded[Len(recorded) - MaxSize + (i + 1)]
      <4>1. i + 1 \in 1..size /\ (i + 1) - 1 = i
        BY <1>1, <2>3
      <4>2. QED
        BY <4>1 DEF RingInv
    <3>5. Len(recorded) - MaxSize + (i + 1) \in 1..Len(recorded)
      BY <1>1, <2>3
    <3>6. QED
      BY <1>1, <1>4, <3>2, <3>3, <3>4, <3>5
  <2>4. QED
    BY <1>1, <2>2, <2>3
<1>7. size' = Stored(Len(recorded')) /\ (size' < MaxSize => head' = 0)
  BY <1>1, <1>2, <1>4 DEF Stored
<1>8. QED
  BY <1>2, <1>5, <1>6, <1>7 DEF RingInv

LEMMA RingInit == Init => RingInv
BY SizeAssumption DEF Init, RingInv, RingType, Stored

LEMMA RingNext == BusInv /\ RingInv /\ [Next]_vars => RingInv'
<1> SUFFICES ASSUME BusInv, RingInv, [Next]_vars PROVE RingInv'
  OBVIOUS
<1>1. ASSUME NEW type \in Types, Publish(type) PROVE RingInv'
  <2>1. inFlight' \in SUBSET Events
    BY <1>1, PublishIsNew DEF RingInv, RingType
  <2>2. QED
    BY <1>1, <2>1 DEF Publish, RingInv, RingType, ringVars, Slot
<1>2. ASSUME NEW event \in inFlight, RecordEvent(event) PROVE RingInv'
  <2>1. /\ event \in Events /\ Store(event) /\ recorded' = Append(recorded, event)
        /\ inFlight' \in SUBSET Events
    BY <1>2 DEF RecordEvent, RingInv, RingType
  <2>2. size < MaxSize \/ size = MaxSize
    BY SizeAssumption DEF RingInv, RingType
  <2>3. QED
    BY <2>1, <2>2, StoreNotFull, StoreFull
<1>3. CASE UNCHANGED <<ringVars, inFlight>>
  BY <1>3 DEF RingInv, RingType, ringVars, Slot
<1>4. QED
  BY <1>1, <1>2, <1>3 DEF Next, TakeSnapshot, Reply, vars, busVars

\* For every capacity and any number of events, the buffer holds exactly the
\* latest ones and snapshot() lists them oldest first (RecordEvent, snapshot).
THEOREM BufferIsLatest == Spec => []RetainsLatest
<1>1. RingInv => RetainsLatest
  <2> SUFFICES ASSUME RingInv PROVE RetainsLatest
    OBVIOUS
  <2>2. /\ size \in Nat /\ Len(recorded) \in Nat /\ size <= Len(recorded)
        /\ recorded \in Seq(Events)
    <3>1. recorded \in Seq(Events) /\ MaxSize \in Nat /\ size = Stored(Len(recorded))
      BY SizeAssumption DEF RingInv, RingType
    <3>2. Len(recorded) \in Nat
      BY <3>1
    <3>3. QED
      BY <3>1, <3>2 DEF Stored
  <2>3. SubSeq(recorded, Len(recorded) - size + 1, Len(recorded))
           = [i \in 1..size |-> recorded[Len(recorded) - size + i]]
    BY <2>2
  <2>4. QED
    BY <2>2, <2>3 DEF RingInv, RetainsLatest, Snapshot
<1>2. QED
  BY <1>1, BusInit, BusNext, RingInit, RingNext, PTL DEF Spec

-----------------------------------------------------------------------------
(* Delivery.                                                               *)

\* Every published event is either waiting or recorded, and recorded once.
OnceInv ==
    /\ recorded \in Seq(Events)
    /\ \A i, j \in DOMAIN recorded : recorded[i] = recorded[j] => i = j
    /\ {recorded[i] : i \in DOMAIN recorded} = published \ inFlight

LEMMA OnceInit == Init => OnceInv
BY DEF Init, OnceInv

LEMMA OnceNext == BusInv /\ OnceInv /\ [Next]_vars => OnceInv'
<1> SUFFICES ASSUME BusInv, OnceInv, [Next]_vars PROVE OnceInv'
  OBVIOUS
<1>1. ASSUME NEW type \in Types, Publish(type) PROVE OnceInv'
  <2>1. recorded' = recorded
    BY <1>1 DEF Publish, ringVars
  <2>2. PICK event \in Events \ published :
           published' = published \union {event} /\ inFlight' = inFlight \union {event}
    BY <1>1, PublishIsNew
  <2>3. QED
    BY <2>1, <2>2 DEF OnceInv, BusInv
<1>2. ASSUME NEW event \in inFlight, RecordEvent(event) PROVE OnceInv'
  <2>1. /\ recorded' = Append(recorded, event) /\ inFlight' = inFlight \ {event}
        /\ published' = published /\ event \in published /\ event \in Events
    BY <1>2 DEF RecordEvent, BusInv
  <2>2. /\ Len(recorded) \in Nat /\ recorded' \in Seq(Events)
        /\ DOMAIN recorded = 1..Len(recorded)
        /\ DOMAIN recorded' = 1..(Len(recorded) + 1)
        /\ recorded'[Len(recorded) + 1] = event
        /\ \A i \in DOMAIN recorded : recorded'[i] = recorded[i]
    BY <2>1 DEF OnceInv
  <2>3. \A i \in DOMAIN recorded : recorded[i] # event
    BY DEF OnceInv
  <2>4. ASSUME NEW i \in DOMAIN recorded', NEW j \in DOMAIN recorded',
               recorded'[i] = recorded'[j]
        PROVE  i = j
    <3>1. /\ i \in DOMAIN recorded \/ i = Len(recorded) + 1
          /\ j \in DOMAIN recorded \/ j = Len(recorded) + 1
      BY <2>2
    <3>2. QED
      BY <2>2, <2>3, <2>4, <3>1 DEF OnceInv
  <2>5. {recorded'[i] : i \in DOMAIN recorded'} =
           {recorded[i] : i \in DOMAIN recorded} \union {event}
    BY <2>2
  <2>6. QED
    BY <2>1, <2>2, <2>4, <2>5 DEF OnceInv
<1>3. CASE UNCHANGED <<recorded, busVars>>
  BY <1>3 DEF OnceInv, busVars
<1>4. QED
  BY <1>1, <1>2, <1>3 DEF Next, TakeSnapshot, Reply, vars, ringVars

-----------------------------------------------------------------------------
(* Overtaking.                                                             *)

\* The events published before the i-th recorded one and recorded after it.
Overtaken(i) ==
    {event \in published : /\ event.id < recorded[i].id
                           /\ \A j \in 1..i : recorded[j] # event}

\* Those are events that were waiting when the i-th was recorded.
OvertakeInv ==
    /\ Cardinality(inFlight) <= MaxInFlight
    /\ \A i \in DOMAIN recorded : Cardinality(Overtaken(i)) <= MaxInFlight - 1

LEMMA OvertakeInit == Init => OvertakeInv
BY CapAssumption, FS_EmptySet DEF Init, OvertakeInv

LEMMA PublishOvertakes ==
    ASSUME BusInv, OnceInv, OvertakeInv, NEW type \in Types, Publish(type)
    PROVE  OvertakeInv'
<1>1. PICK event \in Events \ published :
         /\ published' = published \union {event}
         /\ inFlight' = inFlight \union {event}
         /\ event.id = Cardinality(published) + 1
  BY PublishIsNew
<1>2. recorded' = recorded
  BY DEF Publish, ringVars
<1>3. IsFiniteSet(inFlight) /\ Cardinality(inFlight) \in Nat
  BY FS_Subset, FS_CardinalityType DEF BusInv
<1>4. Cardinality(inFlight') <= MaxInFlight
  <2>1. event \notin inFlight
    BY DEF BusInv
  <2>2. Cardinality(inFlight') = Cardinality(inFlight) + 1
    BY <1>1, <1>3, <2>1, FS_AddElement
  <2>3. Cardinality(inFlight) < MaxInFlight
    BY DEF Publish
  <2> QED BY <1>3, <2>2, <2>3, CapAssumption
<1>5. ASSUME NEW i \in DOMAIN recorded
      PROVE  Overtaken(i)' = Overtaken(i)
  <2>1. recorded[i] \in published
    BY DEF OnceInv
  <2>2. recorded[i].id \in Nat /\ recorded[i].id <= Cardinality(published)
    BY <2>1 DEF BusInv, Events
  <2>3. Cardinality(published) \in Nat
    BY FS_CardinalityType DEF BusInv
  <2>4. ~(event.id < recorded[i].id)
    BY <1>1, <2>2, <2>3
  <2> QED BY <1>1, <1>2, <2>4 DEF Overtaken
<1> QED BY <1>2, <1>4, <1>5 DEF OvertakeInv

LEMMA RecordOvertakes ==
    ASSUME BusInv, OnceInv, OvertakeInv, NEW event \in inFlight, RecordEvent(event)
    PROVE  OvertakeInv'
<1>0. PICK last \in Nat : last = Len(recorded) + 1
  BY DEF OnceInv
<1>1. /\ recorded' = Append(recorded, event) /\ inFlight' = inFlight \ {event}
      /\ published' = published /\ event \in Events
  BY DEF RecordEvent, BusInv
<1>2. /\ Len(recorded) \in Nat
      /\ DOMAIN recorded = 1..Len(recorded)
      /\ DOMAIN recorded' = 1..last
      /\ recorded'[last] = event
      /\ \A i \in DOMAIN recorded : recorded'[i] = recorded[i]
  BY <1>0, <1>1 DEF OnceInv
<1>3. IsFiniteSet(inFlight) /\ Cardinality(inFlight) \in Nat
  BY FS_Subset, FS_CardinalityType DEF BusInv
<1>4. IsFiniteSet(inFlight') /\ Cardinality(inFlight') = Cardinality(inFlight) - 1
  BY <1>1, <1>3, FS_RemoveElement
<1>5. Cardinality(inFlight') <= MaxInFlight - 1
  BY <1>3, <1>4, CapAssumption DEF OvertakeInv
<1>6. ASSUME NEW i \in DOMAIN recorded
      PROVE  Cardinality(Overtaken(i)') <= MaxInFlight - 1
  <2>1. \A j \in 1..i : recorded'[j] = recorded[j]
    BY <1>2
  <2>2. Overtaken(i)' = Overtaken(i)
    BY <1>1, <1>2, <2>1 DEF Overtaken
  <2> QED BY <2>2 DEF OvertakeInv
<1>7. Cardinality(Overtaken(last)') <= MaxInFlight - 1
  <2>1. ASSUME NEW x \in Overtaken(last)' PROVE x \in inFlight'
    <3>1. x \in published /\ \A j \in 1..last : recorded'[j] # x
      BY <1>1, <2>1 DEF Overtaken
    <3>2. x # event /\ \A j \in DOMAIN recorded : recorded[j] # x
      <4>1. last \in 1..last /\ \A j \in DOMAIN recorded : j \in 1..last
        BY <1>0, <1>2
      <4> QED BY <1>2, <3>1, <4>1
    <3>3. x \in inFlight
      BY <3>1, <3>2 DEF OnceInv
    <3> QED BY <1>1, <3>2, <3>3
  <2>2. Overtaken(last)' \subseteq inFlight'
    BY <2>1
  <2>3. /\ Cardinality(Overtaken(last)') \in Nat
        /\ Cardinality(Overtaken(last)') <= Cardinality(inFlight')
    BY <1>4, <2>2, FS_Subset, FS_CardinalityType
  <2> QED BY <1>3, <1>4, <1>5, <2>3, CapAssumption
<1>8. Cardinality(inFlight') <= MaxInFlight
  BY <1>3, <1>4, <1>5, CapAssumption
<1>9. \A i \in DOMAIN recorded' : i \in DOMAIN recorded \/ i = last
  BY <1>0, <1>2
<1> QED BY <1>6, <1>7, <1>8, <1>9 DEF OvertakeInv

LEMMA OvertakeNext == BusInv /\ OnceInv /\ OvertakeInv /\ [Next]_vars => OvertakeInv'
<1> SUFFICES ASSUME BusInv, OnceInv, OvertakeInv, [Next]_vars PROVE OvertakeInv'
  OBVIOUS
<1>1. CASE UNCHANGED <<recorded, busVars>>
  BY <1>1 DEF OvertakeInv, Overtaken, busVars
<1> QED BY <1>1, PublishOvertakes, RecordOvertakes
        DEF Next, TakeSnapshot, Reply, vars, ringVars

\* Fewer than MaxSize events follow a recorded one of the latest published.
LEMMA FollowersFit ==
    ASSUME BusInv, OnceInv, OvertakeInv, NEW k \in DOMAIN recorded,
           Cardinality(published) - recorded[k].id <= MaxSize - MaxInFlight
    PROVE  Len(recorded) - k < MaxSize
<1> DEFINE n == Len(recorded)
           later == {recorded[j] : j \in (k + 1)..n}
           newer == {x \in published : x.id > recorded[k].id}
           count == Cardinality(published)
<1>1. n \in Nat /\ DOMAIN recorded = 1..n /\ k \in 1..n
  BY DEF OnceInv
<1>2. count \in Nat /\ IsFiniteSet(published)
  BY FS_CardinalityType DEF BusInv
<1>3. recorded[k] \in published /\ recorded[k].id \in 1..count
  BY <1>1 DEF OnceInv, BusInv, Events
<1>4. \A x \in published : x.id \in 1..count
  BY DEF BusInv, Events
<1>5. IsFiniteSet(newer) /\ Cardinality(newer) <= count - recorded[k].id
  <2> DEFINE ids == (recorded[k].id + 1)..count
             f == [x \in newer |-> x.id]
  <2>1. IsFiniteSet(newer)
    BY <1>2, FS_Subset
  <2>2. f \in Injection(newer, ids)
    <3>1. \A x \in newer : x.id \in ids
      BY <1>2, <1>3, <1>4
    <3>2. \A x, y \in newer : x.id = y.id => x = y
      BY DEF BusInv
    <3>3. f \in [newer -> ids] /\ \A x, y \in newer : f[x] = f[y] => x = y
      BY <3>1, <3>2
    <3> QED BY <3>3 DEF Injection, IsInjective
  <2>3. IsFiniteSet(ids) /\ Cardinality(ids) = count - recorded[k].id
    <3>1. recorded[k].id + 1 \in Int /\ count \in Int
      BY <1>2, <1>3
    <3> HIDE DEF count
    <3>2. /\ IsFiniteSet(ids)
          /\ Cardinality(ids) = IF recorded[k].id + 1 > count THEN 0
                                ELSE count - (recorded[k].id + 1) + 1
      BY <3>1, FS_Interval
    <3> QED BY <1>2, <1>3, <3>2
  <2> HIDE DEF ids, f, newer
  <2>4. Cardinality(newer) <= Cardinality(ids)
    BY <2>2, <2>3, FS_Injection
  <2> QED BY <2>1, <2>3, <2>4
<1>6. IsFiniteSet(later) /\ Cardinality(later) = n - k
  <2> DEFINE g == [j \in (k + 1)..n |-> recorded[j]]
  <2>1. g \in Surjection((k + 1)..n, later)
    BY DEF Surjection
  <2>2. g \in Injection((k + 1)..n, later)
    <3>1. \A j \in (k + 1)..n : j \in DOMAIN recorded
      BY <1>1
    <3>2. g \in [(k + 1)..n -> later]
          /\ \A i, j \in (k + 1)..n : g[i] = g[j] => i = j
      BY <3>1 DEF OnceInv
    <3> QED BY <3>2 DEF Injection, IsInjective
  <2>3. IsFiniteSet((k + 1)..n) /\ Cardinality((k + 1)..n) = n - k
    <3>1. k + 1 \in Int /\ n \in Int /\ k \in Nat
      BY <1>1
    <3> HIDE DEF n
    <3>2. /\ IsFiniteSet((k + 1)..n)
          /\ Cardinality((k + 1)..n) = IF k + 1 > n THEN 0 ELSE n - (k + 1) + 1
      BY <3>1, FS_Interval
    <3> QED BY <1>1, <3>2
  <2> HIDE DEF g, later
  <2> QED BY <2>1, <2>2, <2>3, FS_Surjection
<1>7. later \subseteq Overtaken(k) \union newer
  <2> SUFFICES ASSUME NEW j \in (k + 1)..n
               PROVE  recorded[j] \in Overtaken(k) \union newer
    OBVIOUS
  <2>1. j \in DOMAIN recorded /\ \A i \in 1..k : i \in DOMAIN recorded /\ i # j
    BY <1>1
  <2>2. recorded[j] \in published /\ \A i \in 1..k : recorded[i] # recorded[j]
    BY <2>1 DEF OnceInv
  <2>3. recorded[j] # recorded[k]
    BY <1>1, <2>2
  <2>4. recorded[j].id # recorded[k].id
    BY <1>3, <2>2, <2>3 DEF BusInv
  <2>5. recorded[j].id \in Nat /\ recorded[k].id \in Nat
    BY <1>2, <1>3, <1>4, <2>2
  <2>6. recorded[j].id < recorded[k].id \/ recorded[j].id > recorded[k].id
    BY <2>4, <2>5
  <2> QED BY <2>2, <2>6 DEF Overtaken
<1>8. IsFiniteSet(Overtaken(k)) /\ Cardinality(Overtaken(k)) <= MaxInFlight - 1
  <2>1. Overtaken(k) \subseteq published
    BY DEF Overtaken
  <2> QED BY <1>2, <2>1, FS_Subset DEF OvertakeInv
<1> HIDE DEF later, newer
<1>9. /\ IsFiniteSet(Overtaken(k) \union newer)
      /\ Cardinality(Overtaken(k) \union newer)
            = Cardinality(Overtaken(k)) + Cardinality(newer)
                 - Cardinality(Overtaken(k) \intersect newer)
  BY <1>5, <1>8, FS_Union
<1>10. /\ Cardinality(later) <= Cardinality(Overtaken(k) \union newer)
  BY <1>7, <1>9, FS_Subset
<1>11. /\ Cardinality(Overtaken(k)) \in Nat /\ Cardinality(newer) \in Nat
       /\ Cardinality(Overtaken(k) \intersect newer) \in Nat
  <2>1. IsFiniteSet(Overtaken(k) \intersect newer)
    BY <1>8, FS_Intersection
  <2> QED BY <1>5, <1>8, <2>1, FS_CardinalityType
<1> HIDE DEF n, count
<1>12. n - k <= (MaxInFlight - 1) + (MaxSize - MaxInFlight)
  <2>1. count - recorded[k].id <= MaxSize - MaxInFlight
    BY DEF count
  <2> QED BY <1>1, <1>2, <1>3, <1>5, <1>6, <1>8, <1>9, <1>10, <1>11, <2>1,
             SizeAssumption, CapAssumption
<1> QED BY <1>1, <1>12, SizeAssumption, CapAssumption DEF n

\* Although the goroutines of Publish overtake one another, for every capacity
\* and every number of them at a time the history shows each recorded event
\* that is among the MaxSize - MaxInFlight + 1 latest published ones.
THEOREM NewestStayVisible == Spec => []NewestKept
<1>1. ASSUME BusInv, RingInv, OnceInv, OvertakeInv PROVE NewestKept
  <2> SUFFICES ASSUME NEW event \in published \ inFlight,
                      Cardinality(published) - event.id <= MaxSize - MaxInFlight
               PROVE  \E i \in 1..size : Snapshot[i] = event
    BY DEF NewestKept
  <2>1. PICK k \in DOMAIN recorded : recorded[k] = event
    BY <1>1 DEF OnceInv
  <2>2. Len(recorded) - k < MaxSize
    BY <1>1, <2>1, FollowersFit
  <2>3. /\ recorded \in Seq(Events) /\ Len(recorded) \in Nat
        /\ k \in 1..Len(recorded) /\ size = Stored(Len(recorded))
    BY <1>1 DEF RingInv, RingType
  <2> DEFINE i == k - (Len(recorded) - size)
  <2>4. i \in 1..size /\ Len(recorded) - size + i = k
    BY <2>2, <2>3, SizeAssumption DEF Stored
  <2>5. Snapshot[i] = recorded[k]
    BY <1>1, <2>4 DEF RingInv, Snapshot
  <2> QED BY <2>1, <2>4, <2>5
<1> QED BY <1>1, BusInit, BusNext, RingInit, RingNext, OnceInit, OnceNext,
           OvertakeInit, OvertakeNext, PTL DEF Spec

-----------------------------------------------------------------------------
(* The filter: induction over the events of the copy.                      *)

Less == {p \in Nat \X Nat : p[1] < p[2]}

LEMMA LeastElement ==
    ASSUME NEW T, T \subseteq Nat, T # {}
    PROVE  \E least \in T : \A n \in T : ~(n < least)
<1>1. IsWellFoundedOn(Less, Nat)
  BY NatLessThanWellFounded DEF OpToRel, Less
<1>2. \E least \in T : \A n \in T : ~(<<n, least>> \in Less)
  BY <1>1, WFMin
<1> QED BY <1>2 DEF Less

LEMMA SetInduction ==
    ASSUME NEW T, 0 \in T, \A n \in Nat : n \in T => n + 1 \in T
    PROVE  \A n \in Nat : n \in T
<1> SUFFICES ASSUME Nat \ T # {} PROVE FALSE
  OBVIOUS
<1>1. PICK least \in Nat \ T : \A n \in Nat \ T : ~(n < least)
  BY LeastElement
<1>2. least # 0 /\ least - 1 \in Nat /\ least - 1 < least
  BY <1>1
<1>3. least - 1 \in T
  BY <1>1, <1>2
<1> QED BY <1>1, <1>2, <1>3

\* One more event of the copy.
Kept(all, type, before, n) ==
    IF all[n].type = type THEN Append(before, all[n]) ELSE before

LEMMA FilteredDef ==
    ASSUME NEW all, Len(all) \in Nat, NEW type
    PROVE  /\ Filtered(all, type)[0] = << >>
           /\ \A n \in 1..Len(all) :
                 Filtered(all, type)[n] = Kept(all, type, Filtered(all, type)[n - 1], n)
<1> DEFINE Body(f, n) == IF n = 0 THEN << >> ELSE Kept(all, type, f[n - 1], n)
           Solution(f, m) == f = [n \in 0..m |-> Body(f, n)]
           Solvable == {m \in Nat : \E f : Solution(f, m)}
<1>1. 0 \in Solvable
  <2> DEFINE f == [n \in 0..0 |-> << >>]
  <2>1. \A n \in 0..0 : Body(f, n) = << >>
    OBVIOUS
  <2> HIDE DEF Body
  <2>2. Solution(f, 0)
    BY <2>1
  <2> QED BY <2>2
<1>2. ASSUME NEW m \in Nat, m \in Solvable PROVE m + 1 \in Solvable
  <2>1. PICK f : Solution(f, m)
    BY <1>2
  <2> DEFINE g == [n \in 0..(m + 1) |-> IF n <= m THEN f[n]
                                        ELSE Kept(all, type, f[m], m + 1)]
  <2>2. \A n \in 0..m : g[n] = f[n] /\ f[n] = Body(f, n)
    <3> HIDE DEF Body
    <3> QED BY <2>1
  <2>3. \A n \in 0..(m + 1) : g[n] = Body(g, n)
    <3> SUFFICES ASSUME NEW n \in 0..(m + 1) PROVE g[n] = Body(g, n)
      OBVIOUS
    <3>1. CASE n = 0
      <4>1. n \in 0..m
        BY <3>1
      <4>2. g[n] = f[n] /\ f[n] = Body(f, n)
        BY <2>2, <4>1
      <4> HIDE DEF g
      <4> QED BY <3>1, <4>2
    <3>2. CASE n \in 1..m
      <4>1. n \in 0..m /\ n - 1 \in 0..m /\ n # 0
        BY <3>2
      <4>2. g[n] = f[n] /\ f[n] = Body(f, n) /\ g[n - 1] = f[n - 1]
        BY <2>2, <4>1
      <4> HIDE DEF g
      <4> QED BY <4>1, <4>2
    <3>3. CASE n = m + 1
      <4>1. g[n] = Kept(all, type, f[m], m + 1) /\ n - 1 = m /\ n # 0 /\ g[m] = f[m]
        BY <2>2, <3>3
      <4> HIDE DEF g
      <4> QED BY <3>3, <4>1
    <3> QED BY <3>1, <3>2, <3>3
  <2> HIDE DEF Body
  <2>4. g = [n \in 0..(m + 1) |-> Body(g, n)]
    BY <2>3
  <2> HIDE DEF g
  <2>5. Solution(g, m + 1)
    BY <2>4
  <2> QED BY <2>5
<1> HIDE DEF Solution
<1>3. Len(all) \in Solvable
  <2> HIDE DEF Solvable
  <2> QED BY <1>1, <1>2, SetInduction
<1>4. Filtered(all, type) = CHOOSE f : Solution(f, Len(all))
  BY DEF Filtered, Solution, Kept
<1>5. Solution(Filtered(all, type), Len(all))
  BY <1>3, <1>4
<1> DEFINE F == Filtered(all, type)
<1>6. F = [n \in 0..Len(all) |-> Body(F, n)]
  BY <1>5 DEF Solution
<1> HIDE DEF F
<1>7. \A n \in 0..Len(all) : F[n] = Body(F, n)
  <2> HIDE DEF Body
  <2> QED BY <1>6
<1> QED BY <1>7 DEF F

\* sub lists the events of all at these positions, which ascend.
Picks(sub, all, pos) ==
    /\ pos \in [1..Len(sub) -> 1..Len(all)]
    /\ \A i, k \in 1..Len(sub) : i < k => pos[i] < pos[k]
    /\ \A i \in 1..Len(sub) : sub[i] = all[pos[i]]

OfThisType(event, type) == type \in {AnyType, event.type}

\* The filter keeps exactly the events of its type, in their order.
LEMMA FilterPicks ==
    ASSUME NEW all \in Seq(Events), NEW type
    PROVE  /\ OfType(all, type) \in Seq(Events)
           /\ \E pos : /\ Picks(OfType(all, type), all, pos)
                       /\ \A i \in 1..Len(all) :
                             OfThisType(all[i], type) <=>
                                \E k \in 1..Len(OfType(all, type)) : pos[k] = i
<1> DEFINE F == Filtered(all, type)
           PicksFirst(n, pos) ==
               /\ pos \in [1..Len(F[n]) -> 1..n]
               /\ \A i, k \in 1..Len(F[n]) : i < k => pos[i] < pos[k]
               /\ \A i \in 1..Len(F[n]) : F[n][i] = all[pos[i]]
               /\ \A i \in 1..n :
                     all[i].type = type <=> \E k \in 1..Len(F[n]) : pos[k] = i
           Good == {n \in Nat : n <= Len(all) =>
                       F[n] \in Seq(Events) /\ \E pos : PicksFirst(n, pos)}
<1>1. Len(all) \in Nat
  OBVIOUS
<1>2. /\ F[0] = << >>
      /\ \A n \in 1..Len(all) : F[n] = Kept(all, type, F[n - 1], n)
  BY <1>1, FilteredDef
<1> HIDE DEF F
<1>3. 0 \in Good
  <2>1. F[0] \in Seq(Events) /\ Len(F[0]) = 0
    BY <1>2
  <2>2. [i \in 1..0 |-> 1] \in [1..0 -> 1..0]
    OBVIOUS
  <2>3. PicksFirst(0, [i \in 1..0 |-> 1])
    BY <2>1, <2>2
  <2> HIDE DEF PicksFirst
  <2> QED BY <2>1, <2>3
<1>4. ASSUME NEW n \in Nat, n \in Good PROVE n + 1 \in Good
  <2> HIDE DEF PicksFirst
  <2> SUFFICES ASSUME n + 1 <= Len(all)
               PROVE  F[n + 1] \in Seq(Events) /\ \E pos : PicksFirst(n + 1, pos)
    OBVIOUS
  <2>1. PICK pos : F[n] \in Seq(Events) /\ PicksFirst(n, pos)
    BY <1>1, <1>4
  <2> USE DEF PicksFirst
  <2>2. F[n + 1] = IF all[n + 1].type = type THEN Append(F[n], all[n + 1]) ELSE F[n]
    <3>1. n + 1 \in 1..Len(all) /\ (n + 1) - 1 = n
      BY <1>1
    <3> QED BY <1>2, <3>1 DEF Kept
  <2> DEFINE len == Len(F[n])
  <2>3. len \in Nat /\ all[n + 1] \in Events
    BY <1>1, <2>1
  <2>4. /\ pos \in [1..len -> 1..n]
        /\ \A i, k \in 1..len : i < k => pos[i] < pos[k]
        /\ \A i \in 1..len : F[n][i] = all[pos[i]]
        /\ \A i \in 1..n : all[i].type = type <=> \E k \in 1..len : pos[k] = i
    BY <2>1
  <2>5. CASE all[n + 1].type # type
    <3>1. F[n + 1] = F[n]
      BY <2>2, <2>5
    <3>2. /\ pos \in [1..len -> 1..(n + 1)]
          /\ \A k \in 1..len : pos[k] # n + 1
      BY <2>3, <2>4
    <3>3. \A i \in 1..(n + 1) : all[i].type = type <=> \E k \in 1..len : pos[k] = i
      <4>1. \A i \in 1..(n + 1) : i \in 1..n \/ i = n + 1
        OBVIOUS
      <4> QED BY <2>4, <2>5, <3>2, <4>1
    <3>4. PicksFirst(n + 1, pos)
      BY <2>4, <3>1, <3>2, <3>3
    <3> HIDE DEF PicksFirst
    <3> QED BY <2>1, <3>1, <3>4
  <2>6. CASE all[n + 1].type = type
    <3> DEFINE new == [k \in 1..(len + 1) |-> IF k = len + 1 THEN n + 1 ELSE pos[k]]
    <3>1. /\ F[n + 1] \in Seq(Events) /\ Len(F[n + 1]) = len + 1
          /\ F[n + 1][len + 1] = all[n + 1]
          /\ \A k \in 1..len : F[n + 1][k] = F[n][k]
      BY <2>1, <2>2, <2>3, <2>6
    <3>2. new[len + 1] = n + 1 /\ \A k \in 1..len : new[k] = pos[k] /\ k # len + 1
      BY <2>3
    <3>3. \A k \in 1..(len + 1) : k \in 1..len \/ k = len + 1
      BY <2>3
    <3>4. \A k \in 1..len : pos[k] \in 1..n
      BY <2>4
    <3>5. new \in [1..(len + 1) -> 1..(n + 1)]
      BY <2>3, <3>4
    <3> HIDE DEF new, len
    <3>6. \A i, k \in 1..(len + 1) : i < k => new[i] < new[k]
      BY <2>3, <2>4, <3>2, <3>3, <3>4
    <3>7. \A i \in 1..(len + 1) : F[n + 1][i] = all[new[i]]
      BY <2>4, <3>1, <3>2, <3>3
    <3>8. \A i \in 1..(n + 1) :
             all[i].type = type <=> \E k \in 1..(len + 1) : new[k] = i
      <4>1. \A i \in 1..(n + 1) : i \in 1..n \/ i = n + 1
        OBVIOUS
      <4>2. len + 1 \in 1..(len + 1) /\ \A k \in 1..len : k \in 1..(len + 1)
        BY <2>3
      <4>3. ASSUME NEW i \in 1..n
            PROVE  all[i].type = type <=> \E k \in 1..(len + 1) : new[k] = i
        <5>1. i # n + 1
          OBVIOUS
        <5> QED BY <2>4, <3>2, <3>3, <4>2, <5>1
      <4> QED BY <2>6, <3>2, <4>1, <4>2, <4>3
    <3>9. PicksFirst(n + 1, new)
      BY <3>1, <3>5, <3>6, <3>7, <3>8
    <3> HIDE DEF PicksFirst
    <3> QED BY <3>1, <3>9
  <2> QED BY <2>5, <2>6
<1>5. F[Len(all)] \in Seq(Events) /\ \E pos : PicksFirst(Len(all), pos)
  <2> HIDE DEF Good
  <2>1. Len(all) \in Good
    BY <1>1, <1>3, <1>4, SetInduction
  <2> USE DEF Good
  <2> HIDE DEF PicksFirst
  <2> QED BY <1>1, <2>1
<1>6. CASE type = AnyType
  <2> DEFINE pos == [i \in 1..Len(all) |-> i]
  <2>1. OfType(all, type) = all
    BY <1>6 DEF OfType
  <2>2. Picks(all, all, pos)
    BY <1>1 DEF Picks
  <2>3. \A i \in 1..Len(all) : OfThisType(all[i], type) /\ pos[i] = i
    BY <1>6 DEF OfThisType
  <2> HIDE DEF pos
  <2> QED BY <2>1, <2>2, <2>3
<1>7. CASE type # AnyType
  <2>1. OfType(all, type) = F[Len(all)]
    BY <1>7 DEF OfType, F
  <2>2. PICK pos : PicksFirst(Len(all), pos)
    BY <1>5
  <2>3. \A i : OfThisType(all[i], type) <=> all[i].type = type
    BY <1>7 DEF OfThisType
  <2>4. Picks(OfType(all, type), all, pos)
    BY <2>1, <2>2 DEF Picks
  <2> QED BY <1>5, <2>1, <2>2, <2>3, <2>4
<1> QED BY <1>6, <1>7

-----------------------------------------------------------------------------
(* The reader.                                                             *)

\* The limit keeps the latest events.
LEMMA LimitPicks ==
    ASSUME NEW all \in Seq(Events), NEW limit \in Int
    PROVE  /\ Limited(all, limit) \in Seq(Events)
           /\ \E pos : /\ Picks(Limited(all, limit), all, pos)
                       /\ \A k \in 1..Len(all) :
                             (limit > 0 => Len(all) - k < limit) <=>
                                \E i \in 1..Len(Limited(all, limit)) : pos[i] = k
<1>1. Len(all) \in Nat
  OBVIOUS
<1>2. CASE limit > 0 /\ limit < Len(all)
  <2> DEFINE skip == Len(all) - limit
             last == SubSeq(all, skip + 1, Len(all))
             pos == [i \in 1..limit |-> skip + i]
  <2>1. Limited(all, limit) = last
    BY <1>2 DEF Limited
  <2>2. /\ last \in Seq(Events) /\ Len(last) = limit
        /\ \A i \in 1..limit : last[i] = all[skip + i]
    <3>1. skip + 1 \in 1..Len(all) /\ Len(all) \in 1..Len(all)
      BY <1>1, <1>2
    <3> QED BY <1>1, <1>2, <3>1
  <2>3. pos \in [1..limit -> 1..Len(all)] /\ \A i \in 1..limit : pos[i] = skip + i
    BY <1>1, <1>2
  <2>4. skip \in Nat
    BY <1>1, <1>2
  <2> HIDE DEF last, pos
  <2>5. Picks(last, all, pos)
    <3>1. \A i, k \in 1..limit : i < k => pos[i] < pos[k]
      BY <2>3, <2>4
    <3> QED BY <2>2, <2>3, <3>1 DEF Picks
  <2>6. ASSUME NEW k \in 1..Len(all)
        PROVE  Len(all) - k < limit <=> \E i \in 1..limit : pos[i] = k
    <3>1. ASSUME Len(all) - k < limit PROVE \E i \in 1..limit : pos[i] = k
      <4>1. k - skip \in 1..limit /\ skip + (k - skip) = k
        BY <1>1, <1>2, <3>1
      <4> QED BY <2>3, <4>1
    <3>2. ASSUME NEW i \in 1..limit, pos[i] = k PROVE Len(all) - k < limit
      BY <1>1, <1>2, <2>3, <3>2
    <3> QED BY <3>1, <3>2
  <2> QED BY <1>2, <2>1, <2>2, <2>5, <2>6
<1>3. CASE ~(limit > 0 /\ limit < Len(all))
  <2> DEFINE pos == [i \in 1..Len(all) |-> i]
  <2>1. Limited(all, limit) = all
    BY <1>3 DEF Limited
  <2>2. Picks(all, all, pos)
    BY <1>1 DEF Picks
  <2>3. \A k \in 1..Len(all) : pos[k] = k /\ (limit > 0 => Len(all) - k < limit)
    BY <1>1, <1>3
  <2> HIDE DEF pos
  <2> QED BY <2>1, <2>2, <2>3
<1> QED BY <1>2, <1>3

\* Two events of the sequence were recorded in its order.
Ordered(all) ==
    \A i, j \in DOMAIN all : i < j =>
        \E m, n \in DOMAIN recorded :
            m < n /\ recorded[m] = all[i] /\ recorded[n] = all[j]

LEMMA PicksOrdered ==
    ASSUME NEW sub \in Seq(Events), NEW all \in Seq(Events), NEW pos,
           Picks(sub, all, pos), Ordered(all)
    PROVE  Ordered(sub)
<1>1. \A i \in 1..Len(sub) : pos[i] \in 1..Len(all) /\ sub[i] = all[pos[i]]
  BY DEF Picks
<1>2. \A i, k \in 1..Len(sub) : i < k => pos[i] < pos[k]
  BY DEF Picks
<1>3. DOMAIN sub = 1..Len(sub) /\ DOMAIN all = 1..Len(all)
  OBVIOUS
<1> QED BY <1>1, <1>2, <1>3 DEF Ordered

LEMMA ResultOrdered ==
    ASSUME NEW all \in Seq(Events), NEW r \in Requests, Ordered(all)
    PROVE  Result(all, r) \in Seq(Events) /\ Ordered(Result(all, r))
<1> DEFINE kept == OfType(all, r.type)
<1>1. kept \in Seq(Events) /\ Ordered(kept)
  BY FilterPicks, PicksOrdered
<1>2. r.limit \in Int
  BY LimitAssumption DEF Requests
<1> HIDE DEF kept
<1>3. Limited(kept, r.limit) \in Seq(Events) /\ Ordered(Limited(kept, r.limit))
  BY <1>1, <1>2, LimitPicks, PicksOrdered
<1> QED BY <1>3 DEF Result, kept

\* The copy, event by event.
LEMMA SnapshotValue ==
    ASSUME RingInv
    PROVE  /\ size \in Nat /\ Len(recorded) \in Nat /\ size <= Len(recorded)
           /\ Snapshot \in Seq(Events) /\ Len(Snapshot) = size
           /\ \A i \in 1..size : Snapshot[i] = recorded[Len(recorded) - size + i]
<1>1. recorded \in Seq(Events) /\ MaxSize \in Nat /\ size = Stored(Len(recorded))
  BY SizeAssumption DEF RingInv, RingType
<1>2. size \in Nat /\ Len(recorded) \in Nat /\ size <= Len(recorded)
  BY <1>1 DEF Stored
<1>3. \A i \in 1..size : Snapshot[i] = recorded[Len(recorded) - size + i]
  BY DEF RingInv, Snapshot
<1>4. \A i \in 1..size : Snapshot[i] \in Events
  BY <1>1, <1>2, <1>3
<1>5. Snapshot \in [1..size -> Events]
  BY <1>4 DEF Snapshot
<1>6. Snapshot \in Seq(Events) /\ Len(Snapshot) = size
  BY <1>2, <1>5 DEF Snapshot
<1> QED BY <1>2, <1>3, <1>6

ReaderInv ==
    /\ request \in Requests
    /\ copy \in Seq(Events) /\ Ordered(copy)
    /\ reply \in Seq(Events) /\ Ordered(reply)
    /\ serving \in BOOLEAN

LEMMA ReaderInit == Init => ReaderInv
<1> SUFFICES ASSUME Init PROVE ReaderInv
  OBVIOUS
<1>1. NoRequest \in Requests
  BY LimitAssumption DEF NoRequest, Requests
<1>2. << >> \in Seq(Events) /\ DOMAIN << >> = {}
  OBVIOUS
<1> QED BY <1>1, <1>2 DEF Init, ReaderInv, Ordered

LEMMA ReaderNext == RingInv /\ ReaderInv /\ [Next]_vars => ReaderInv'
<1> SUFFICES ASSUME RingInv, ReaderInv, [Next]_vars PROVE ReaderInv'
  OBVIOUS
<1>1. CASE recorded' = recorded /\ UNCHANGED readerVars
  BY <1>1 DEF readerVars, ReaderInv, Ordered
<1>2. CASE \E event \in inFlight : RecordEvent(event)
  <2>1. PICK event \in inFlight : RecordEvent(event)
    BY <1>2
  <2>2. recorded \in Seq(Events) /\ recorded' = Append(recorded, event)
        /\ UNCHANGED readerVars
    BY <2>1 DEF RecordEvent, RingInv, RingType
  <2>3. /\ DOMAIN recorded \subseteq DOMAIN recorded'
        /\ \A i \in DOMAIN recorded : recorded'[i] = recorded[i]
    BY <2>2
  <2>4. (Ordered(copy) => Ordered(copy)') /\ (Ordered(reply) => Ordered(reply)')
    BY <2>2, <2>3 DEF Ordered, readerVars
  <2> QED BY <2>2, <2>4 DEF ReaderInv, readerVars
<1>3. ASSUME NEW r \in Requests, TakeSnapshot(r) PROVE ReaderInv'
  <2>1. /\ request' = r /\ copy' = Snapshot /\ serving' = TRUE
        /\ reply' = reply /\ recorded' = recorded
    BY <1>3 DEF TakeSnapshot, ringVars
  <2>2. Snapshot \in Seq(Events) /\ Ordered(Snapshot)
    <3>1. DOMAIN recorded = 1..Len(recorded)
      BY DEF RingInv, RingType
    <3>2. DOMAIN Snapshot = 1..size
      BY DEF Snapshot
    <3> QED BY SnapshotValue, <3>1, <3>2 DEF Ordered
  <2>3. Ordered(copy)' /\ Ordered(reply)'
    BY <2>1, <2>2 DEF Ordered, ReaderInv
  <2> QED BY <1>3, <2>1, <2>2, <2>3 DEF ReaderInv
<1>4. CASE Reply
  <2>1. /\ request' = NoRequest /\ copy' = << >> /\ serving' = FALSE
        /\ reply' = Result(copy, request) /\ recorded' = recorded
    BY <1>4 DEF Reply, ringVars
  <2>2. Result(copy, request) \in Seq(Events) /\ Ordered(Result(copy, request))
    BY ResultOrdered DEF ReaderInv
  <2>3. NoRequest \in Requests
    BY LimitAssumption DEF NoRequest, Requests
  <2>4. << >> \in Seq(Events) /\ DOMAIN << >> = {}
    OBVIOUS
  <2>5. Ordered(copy)' /\ Ordered(reply)'
    BY <2>1, <2>2, <2>4 DEF Ordered
  <2> QED BY <2>1, <2>2, <2>3, <2>4, <2>5 DEF ReaderInv
<1> QED BY <1>1, <1>2, <1>3, <1>4 DEF Next, Publish, vars, ringVars

LEMMA ServerInvariant == Spec => [](BusInv /\ RingInv /\ OnceInv /\ ReaderInv)
BY BusInit, BusNext, RingInit, RingNext, OnceInit, OnceNext, ReaderInit, ReaderNext,
   PTL DEF Spec

\* Type correctness: among others, no zero Event of an unused slot ever gets
\* into a copy or a reply.
THEOREM ServerTypeCorrect == Spec => []TypeOK
<1>1. BusInv /\ RingInv /\ ReaderInv => TypeOK
  BY DEF TypeOK, BusInv, RingInv, RingType, ReaderInv
<1> QED BY <1>1, ServerInvariant, PTL

\* Whatever is recorded between the copy and the reply, for any type and any
\* limit, GET /events lists its events in the order they were recorded.
THEOREM RepliesOrdered == Spec => []ReplyInOrder
<1>1. ReaderInv => ReplyInOrder
  BY DEF ReaderInv, Ordered, ReplyInOrder
<1> QED BY <1>1, ServerInvariant, PTL

-----------------------------------------------------------------------------
(* The promise of EventLog.                                                *)

\* The result by its elements: the latest of those of the type.
LEMMA ResultElements ==
    ASSUME NEW all \in Seq(Events), NEW r \in Requests, NEW x
    PROVE  LET kept == OfType(all, r.type)
               result == Result(all, r)
           IN  x \in {result[i] : i \in DOMAIN result} <=>
                  \E k \in 1..Len(kept) :
                     (r.limit > 0 => Len(kept) - k < r.limit) /\ x = kept[k]
<1> DEFINE kept == OfType(all, r.type)
           result == Result(all, r)
<1>1. kept \in Seq(Events) /\ r.limit \in Int
  BY FilterPicks, LimitAssumption DEF Requests
<1>2. result = Limited(kept, r.limit)
  BY DEF Result
<1> HIDE DEF kept, result
<1>3. result \in Seq(Events)
  BY <1>1, <1>2, LimitPicks
<1>4. PICK pos : /\ Picks(result, kept, pos)
                 /\ \A k \in 1..Len(kept) :
                       (r.limit > 0 => Len(kept) - k < r.limit) <=>
                          \E i \in 1..Len(result) : pos[i] = k
  BY <1>1, <1>2, LimitPicks
<1>5. \A i \in 1..Len(result) : pos[i] \in 1..Len(kept) /\ result[i] = kept[pos[i]]
  BY <1>4 DEF Picks
<1>6. DOMAIN result = 1..Len(result)
  BY <1>3
<1>7. x \in {result[i] : i \in DOMAIN result} <=>
         \E k \in 1..Len(kept) :
            (r.limit > 0 => Len(kept) - k < r.limit) /\ x = kept[k]
  <2> DEFINE Asked(k) == r.limit > 0 => Len(kept) - k < r.limit
  <2>1. \A k \in 1..Len(kept) : Asked(k) <=> \E i \in 1..Len(result) : pos[i] = k
    BY <1>4
  <2> HIDE DEF Asked
  <2>2. x \in {result[i] : i \in DOMAIN result} <=> \E i \in 1..Len(result) : x = result[i]
    BY <1>6
  <2>3. (\E i \in 1..Len(result) : x = result[i])
           <=> \E k \in 1..Len(kept) : Asked(k) /\ x = kept[k]
    BY <1>5, <2>1
  <2> QED BY <2>2, <2>3 DEF Asked
<1> QED BY <1>7 DEF kept, result

LEMMA LogCardinality == \A S : Log!Cardinality(S) = Cardinality(S)
BY DEF Log!Cardinality, Cardinality

\* Of n ascending positions, n - k come after the k-th.
LEMMA CountAfter ==
    ASSUME NEW n \in Nat, NEW pos, NEW k \in 1..n, \A m \in 1..n : pos[m] \in Nat,
           \A i, m \in 1..n : i < m => pos[i] < pos[m]
    PROVE  LET after == {pos[m] : m \in {m \in 1..n : pos[m] > pos[k]}}
           IN  IsFiniteSet(after) /\ Cardinality(after) = n - k
<1> DEFINE after == {pos[m] : m \in {m \in 1..n : pos[m] > pos[k]}}
           f == [m \in (k + 1)..n |-> pos[m]]
<1>1. \A m \in 1..n : pos[m] > pos[k] <=> m \in (k + 1)..n
  <2>1. ASSUME NEW m \in 1..n PROVE pos[m] > pos[k] <=> m \in (k + 1)..n
    <3>1. CASE m < k
      BY <3>1
    <3>2. CASE m = k
      BY <3>2
    <3>3. CASE m > k
      BY <3>3
    <3> QED BY <3>1, <3>2, <3>3
  <2> QED BY <2>1
<1>2. \A m \in (k + 1)..n : m \in 1..n
  OBVIOUS
<1>3. after = {pos[m] : m \in (k + 1)..n}
  BY <1>1, <1>2
<1> HIDE DEF after
<1>4. f \in Surjection((k + 1)..n, after)
  BY <1>3 DEF Surjection
<1>5. f \in Injection((k + 1)..n, after)
  <2>1. \A i, m \in (k + 1)..n : i # m => pos[i] # pos[m]
    <3> SUFFICES ASSUME NEW i \in (k + 1)..n, NEW m \in (k + 1)..n, i < m
                 PROVE  pos[i] # pos[m]
      OBVIOUS
    <3>1. pos[i] < pos[m] /\ pos[i] \in Nat /\ pos[m] \in Nat
      BY <1>2
    <3> QED BY <3>1
  <2>2. \A m \in (k + 1)..n : f[m] = pos[m] /\ pos[m] \in after
    BY <1>3
  <2>3. f \in [(k + 1)..n -> after]
    BY <2>2
  <2> HIDE DEF f
  <2>4. \A i, m \in (k + 1)..n : f[i] = f[m] => i = m
    BY <2>1, <2>2
  <2> QED BY <2>3, <2>4 DEF Injection, IsInjective
<1>6. IsFiniteSet((k + 1)..n) /\ Cardinality((k + 1)..n) = n - k
  BY FS_Interval
<1> HIDE DEF f
<1>7. IsFiniteSet(after) /\ Cardinality(after) = n - k
  BY <1>4, <1>5, <1>6, FS_Surjection
<1> QED BY <1>7 DEF after

\* What the reader gets of the copy is what EventLog answers of the history.
LEMMA AnswerOfCopy ==
    ASSUME RingInv, NEW r \in Requests
    PROVE  {Result(Snapshot, r)[i] : i \in DOMAIN Result(Snapshot, r)} = Log!Answer(r)
<1> DEFINE all == Snapshot
           kept == OfType(all, r.type)
           n == Len(kept)
           base == Len(recorded) - size
           Asked(k) == r.limit > 0 => n - k < r.limit
<1>1. /\ recorded \in Seq(Events) /\ MaxSize \in Nat /\ size = Stored(Len(recorded))
      /\ r.limit \in Int
  BY SizeAssumption, LimitAssumption DEF RingInv, RingType, Requests
<1>2. /\ size \in Nat /\ base \in Nat /\ Len(recorded) = base + size
      /\ all \in Seq(Events) /\ Len(all) = size
      /\ \A i \in 1..size : all[i] = recorded[base + i]
  BY SnapshotValue
<1>3. \A j \in 1..Len(recorded) : j > Len(recorded) - MaxSize <=> j > base
  <2>1. Len(recorded) \in Nat
    BY <1>1
  <2>2. CASE Len(recorded) < MaxSize
    <3>1. base = 0
      BY <1>1, <2>1, <2>2 DEF Stored
    <3> QED BY <1>1, <2>1, <2>2, <3>1
  <2>3. CASE ~(Len(recorded) < MaxSize)
    <3>1. base = Len(recorded) - MaxSize
      BY <1>1, <2>3 DEF Stored
    <3> QED BY <3>1
  <2> QED BY <2>2, <2>3
<1>4. PICK pos : /\ Picks(kept, all, pos)
                 /\ \A i \in 1..size :
                       OfThisType(all[i], r.type) <=> \E k \in 1..n : pos[k] = i
  <2>1. PICK pos : /\ Picks(kept, all, pos)
                   /\ \A i \in 1..Len(all) :
                         OfThisType(all[i], r.type) <=> \E k \in 1..n : pos[k] = i
    <3>1. all \in Seq(Events)
      BY <1>2
    <3> HIDE DEF all
    <3> QED BY <3>1, FilterPicks
  <2>2. Len(all) = size
    BY <1>2
  <2> HIDE DEF n, kept, all
  <2> QED BY <2>1, <2>2
<1>5. kept \in Seq(Events) /\ n \in Nat
  BY <1>2, FilterPicks
<1>6. \A x : x \in {Result(all, r)[i] : i \in DOMAIN Result(all, r)} <=>
                \E k \in 1..n : Asked(k) /\ x = kept[k]
  BY <1>2, ResultElements
<1>7. /\ base \in Nat /\ size \in Nat /\ Len(recorded) = base + size
      /\ DOMAIN recorded = 1..(base + size)
  BY <1>1, <1>2
<1> HIDE DEF base, n, kept
<1>8. /\ \A k \in 1..n : pos[k] \in 1..size /\ kept[k] = recorded[base + pos[k]]
      /\ \A i, k \in 1..n : i < k => pos[i] < pos[k]
  BY <1>2, <1>4 DEF Picks, n
<1>9. \A j : Log!Matches(recorded[j], r) <=> OfThisType(recorded[j], r.type)
  BY DEF Log!Matches, OfThisType
\* The recorded events that match, from the copy on, are those kept.
<1>10. ASSUME NEW j \in (base + 1)..(base + size)
       PROVE  Log!Matches(recorded[j], r) <=> \E k \in 1..n : base + pos[k] = j
  <2>1. j - base \in 1..size /\ base + (j - base) = j
    BY <1>7
  <2>2. all[j - base] = recorded[j]
    BY <1>2, <2>1
  <2>3. Log!Matches(recorded[j], r) <=> \E k \in 1..n : pos[k] = j - base
    BY <1>4, <1>9, <2>1, <2>2
  <2>4. \A k \in 1..n : pos[k] = j - base <=> base + pos[k] = j
    BY <1>7, <1>8
  <2> QED BY <2>3, <2>4
<1>11. ASSUME NEW k \in 1..n
       PROVE  Cardinality(Log!LaterMatches(base + pos[k], r)) = n - k
  <2> DEFINE shifted == [m \in 1..n |-> base + pos[m]]
             after == {shifted[m] : m \in {m \in 1..n : shifted[m] > shifted[k]}}
  <2>1. \A m \in 1..n : shifted[m] = base + pos[m] /\ shifted[m] \in Nat
    BY <1>7, <1>8
  <2>2. \A i, m \in 1..n : i < m => shifted[i] < shifted[m]
    BY <1>7, <1>8, <2>1
  <2> HIDE DEF shifted
  <2>3. Cardinality(after) = n - k
    BY <1>5, <2>1, <2>2, CountAfter DEF n
  <2>4. ASSUME NEW j
        PROVE  j \in Log!LaterMatches(base + pos[k], r) <=> j \in after
    <3>1. j \in Log!LaterMatches(base + pos[k], r) <=>
             /\ j \in 1..(base + size) /\ j > base + pos[k]
             /\ Log!Matches(recorded[j], r)
      BY <1>7 DEF Log!LaterMatches
    <3>2. j \in 1..(base + size) /\ j > base + pos[k] => j \in (base + 1)..(base + size)
      BY <1>7, <1>8
    <3>3. \A m \in 1..n : shifted[m] \in 1..(base + size)
      BY <1>7, <1>8, <2>1
    <3>4. j \in after <=> \E m \in 1..n : j = shifted[m] /\ j > shifted[k]
      OBVIOUS
    <3>5. j \in Log!LaterMatches(base + pos[k], r) => j \in after
      BY <1>10, <2>1, <3>1, <3>2, <3>4
    <3>6. ASSUME NEW m \in 1..n, j = shifted[m], j > shifted[k]
          PROVE  j \in Log!LaterMatches(base + pos[k], r)
      <4>1. j \in 1..(base + size) /\ j > base + pos[k]
        BY <2>1, <3>3, <3>6
      <4> QED BY <1>10, <2>1, <3>1, <3>2, <3>6, <4>1
    <3> QED BY <3>4, <3>5, <3>6
  <2>5. Log!LaterMatches(base + pos[k], r) = after
    BY <2>4
  <2> QED BY <2>3, <2>5
<1>12. ASSUME NEW x
       PROVE  x \in Log!Answer(r) <=> \E k \in 1..n : Asked(k) /\ x = kept[k]
  <2> DEFINE Latest(j) == r.limit > 0 =>
                             Log!Cardinality(Log!LaterMatches(j, r)) < r.limit
  <2>1. x \in Log!Answer(r) <=>
           \E j \in DOMAIN recorded :
              /\ j > Len(recorded) - MaxSize /\ Log!Matches(recorded[j], r)
              /\ Latest(j) /\ x = recorded[j]
    BY DEF Log!Answer
  <2>2. \A k \in 1..n : Latest(base + pos[k]) <=> Asked(k)
    BY <1>11, LogCardinality
  <2> HIDE DEF Latest, Asked
  <2>3. \A j \in DOMAIN recorded : j > Len(recorded) - MaxSize <=> j \in (base + 1)..(base + size)
    BY <1>3, <1>7
  <2>4. x \in Log!Answer(r) <=>
           \E j \in (base + 1)..(base + size) :
              Log!Matches(recorded[j], r) /\ Latest(j) /\ x = recorded[j]
    <3>1. \A j \in (base + 1)..(base + size) : j \in DOMAIN recorded
      BY <1>7
    <3> QED BY <2>1, <2>3, <3>1
  <2>5. \A k \in 1..n : base + pos[k] \in (base + 1)..(base + size)
    BY <1>7, <1>8
  <2> QED BY <1>8, <1>10, <2>2, <2>4, <2>5
<1> QED BY <1>6, <1>12

\* Ring buffer, copy, filter and limit together keep the promise of EventLog,
\* step by step: the moment the copy is taken is the moment that counts.
THEOREM ServerImplementsLog == Spec => Log!Init /\ [][Log!Next]_(Log!vars)
<1>1. Init => Log!Init
  BY DEF Init, Log!Init, AnswerNow
<1>2. ASSUME BusInv, RingInv, OnceInv, ReaderInv, [Next]_vars
      PROVE  [Log!Next]_(Log!vars)
  <2>1. ASSUME NEW type \in Types, Publish(type) PROVE Log!Next
    <3>1. Log!Publish(type)
      BY <2>1, LogCardinality DEF Publish, Log!Publish, ringVars, readerVars, AnswerNow
    <3> QED BY <3>1 DEF Log!Next
  <2>2. ASSUME NEW event \in inFlight, RecordEvent(event) PROVE Log!Next
    <3>1. event \in published \ Log!Recorded
      BY <1>2 DEF BusInv, OnceInv, Log!Recorded
    <3>2. Log!Record(event)
      BY <2>2, <3>1 DEF RecordEvent, Log!Record, readerVars, AnswerNow
    <3> QED BY <3>1, <3>2 DEF Log!Next
  <2>3. ASSUME NEW r \in Requests, TakeSnapshot(r) PROVE Log!Next
    <3>1. AnswerNow' = {Result(Snapshot, r)[i] : i \in DOMAIN Result(Snapshot, r)}
      BY <2>3 DEF TakeSnapshot, AnswerNow
    <3>2. Log!Query(r)
      BY <1>2, <2>3, <3>1, AnswerOfCopy DEF TakeSnapshot, Log!Query, ringVars, busVars
    <3>3. r \in Log!Requests
      BY DEF Requests, Log!Requests
    <3> QED BY <3>2, <3>3 DEF Log!Next
  <2>4. CASE Reply
    <3>1. AnswerNow' = AnswerNow
      BY <2>4 DEF Reply, AnswerNow
    <3> QED BY <2>4, <3>1 DEF Reply, ringVars, busVars, Log!vars
  <2>5. CASE UNCHANGED vars
    BY <2>5 DEF vars, ringVars, busVars, readerVars, Log!vars, AnswerNow
  <2> QED BY <1>2, <2>1, <2>2, <2>3, <2>4, <2>5 DEF Next
<1> QED BY <1>1, <1>2, ServerInvariant, PTL DEF Spec

=============================================================================
