------------------------ MODULE KafkaProducerProofs ------------------------
(***************************************************************************)
(* The producer, for any number of records, retries, partitions and queue  *)
(* size: no message is forgotten while the process lives, its copies are   *)
(* bounded by its retries and stay in its partition, and what the          *)
(* generator duplicated stays together.  The argument counts: every        *)
(* attempt of a message is a request under way, a copy in the log, or lost.*)
(* Last comes the order of the topic.                                      *)
(***************************************************************************)
EXTENDS KafkaProducer, FiniteSetTheorems, TLAPS

Request == [id : Msg, awaited : BOOLEAN]

\* The requests of message m.
OnWire(s, m) == {i \in DOMAIN s : s[i].id = m}

\* The list is there before anything is produced, the topic before it is sent.
LoadedInv ==
  /\ list \in Lists \/ (list = <<>> /\ next = 1 /\ phase \in {"start", "dead"})
  /\ phase = "start" => next = 1
  /\ topic = 0 => wire = <<>> /\ \A p \in Partition : log[p] = <<>>

\* A message waits in at most one place, and in one if it has no report.
NotYet ==
  \A m \in Msg : m >= next =>
    m \notin queue /\ OnWire(wire, m) = {} /\ tries[m] = 0 /\ report[m] = "none"
Queued == \A m \in queue : tries[m] <= RETRIES /\ report[m] = "none" /\ phase # "dead"
WaitedFor ==
  \A i \in DOMAIN wire : wire[i].awaited =>
    wire[i].id \notin queue /\ report[wire[i].id] = "none" /\ phase # "dead"
WaitedOnce ==
  \A i, j \in DOMAIN wire :
    wire[i].awaited /\ wire[j].awaited /\ wire[i].id = wire[j].id => i = j
Kept ==
  phase # "dead" =>
    \A m \in 1..next - 1 : report[m] = "none" =>
      m \in queue \/ \E i \in DOMAIN wire : wire[i].id = m /\ wire[i].awaited

PlaceInv == NotYet /\ Queued /\ WaitedFor /\ WaitedOnce /\ Kept

\* Attempts account for requests and copies; copies are where they belong.
CountInv ==
  /\ \A m \in Msg, p \in Partition :
       Cardinality(Copies(m, p)) + Cardinality(OnWire(wire, m)) <= tries[m]
  /\ \A m \in Msg, p \in Partition : Copies(m, p) # {} => p = PartitionOf(m)

IInv == TypeOK /\ LoadedInv /\ PlaceInv /\ CountInv

-----------------------------------------------------------------------------
(* The list and the partitions *)

LEMMA MsgType == Messages \in Nat /\ Msg \subseteq Nat \ {0}
<1>1. DuplicateCount(Records) \in Nat
  BY ProducerAssumption, GeneratorAssumption DEF DuplicateCount
<1> QED
  BY <1>1, ProducerAssumption DEF Messages, Msg

LEMMA RecordHasAccount ==
  ASSUME NEW r, NEW now \in Int, IsRecord(r, now)
  PROVE  r.account_id \in Accounts
<1>1. PICK base : /\ IsBaseTransaction(base, now)
                  /\ r \in {base} \cup InjectNull(base)
  BY DEF IsRecord
<1>2. base.account_id \in Accounts /\ "account_id" \in DOMAIN base
  BY <1>1 DEF IsBaseTransaction
<1>3. ASSUME NEW f \in NullableField, r = [base EXCEPT ![f] = NoValue]
      PROVE  r.account_id = base.account_id
  <2>1. f # "account_id"
    BY <1>3 DEF NullableField
  <2> QED
    BY <1>2, <1>3, <2>1
<1> QED
  BY <1>1, <1>2, <1>3 DEF InjectNull

LEMMA ListType ==
  ASSUME NEW l \in Lists, NEW m \in Msg
  PROVE  m \in DOMAIN l /\ l[m].account_id \in Accounts
<1>1. GenerateTransactions(l, Records, GeneratedAt)
  BY ProducerAssumption
<1>2. GeneratedAt \in Int
  BY ProducerAssumption
<1>3. m \in DOMAIN l /\ \A i \in DOMAIN l : IsRecord(l[i], GeneratedAt)
  BY <1>1 DEF GenerateTransactions, Messages, Msg
<1> QED
  BY <1>2, <1>3, RecordHasAccount

LEMMA PartitionType ==
  ASSUME TypeOK, list \in Lists, topic # 0, NEW m \in Msg
  PROVE  PartitionOf(m) \in Partition
<1>1. Hash[list[m].account_id] \in Nat
  BY ListType, ProducerAssumption
<1>2. topic \in {1, NUM_PARTITIONS} /\ NUM_PARTITIONS \in Nat \ {0}
  BY ProducerAssumption DEF TypeOK
<1>3. \A x \in Nat, n \in Nat \ {0} : x % n \in 0..n - 1
  OBVIOUS
<1>4. PartitionOf(m) \in 0..topic - 1
  BY <1>1, <1>2, <1>3 DEF PartitionOf
<1> QED
  BY <1>2, <1>4 DEF Partition

-----------------------------------------------------------------------------
(* Requests under way *)

LEMMA WireIsFinite ==
  ASSUME NEW S, NEW s \in Seq(S), NEW T \in SUBSET DOMAIN s
  PROVE  IsFiniteSet(T) /\ Cardinality(T) \in Nat
<1>1. DOMAIN s = 1..Len(s) /\ Len(s) \in Nat
  OBVIOUS
<1>2. IsFiniteSet(1..Len(s))
  BY <1>1, FS_Interval
<1> QED
  BY <1>1, <1>2, FS_Subset, FS_CardinalityType

LEMMA WithoutType ==
  ASSUME NEW s \in Seq(Request), NEW i \in DOMAIN s
  PROVE  /\ Without(s, i) \in Seq(Request)
         /\ DOMAIN Without(s, i) = 1..Len(s) - 1
         /\ \A j \in 1..Len(s) - 1 :
              Without(s, i)[j] = IF j < i THEN s[j] ELSE s[j + 1]
<1>1. DOMAIN s = 1..Len(s) /\ Len(s) \in Nat \ {0} /\ \A j \in 1..Len(s) : s[j] \in Request
  OBVIOUS
<1>2. Without(s, i) \in [1..Len(s) - 1 -> Request]
  BY <1>1 DEF Without
<1>3. Len(s) - 1 \in Nat
  BY <1>1
<1>4. Without(s, i) \in Seq(Request)
  BY <1>2, <1>3
<1> QED
  BY <1>2, <1>4 DEF Without

\* Taking request i away leaves the others of each message.
LEMMA OnWireWithout ==
  ASSUME NEW s \in Seq(Request), NEW i \in DOMAIN s, NEW m
  PROVE  Cardinality(OnWire(Without(s, i), m)) = Cardinality(OnWire(s, m) \ {i})
<1> DEFINE Old == OnWire(s, m) \ {i}
           New == OnWire(Without(s, i), m)
           f == [j \in Old |-> IF j < i THEN j ELSE j - 1]
<1>1. DOMAIN s = 1..Len(s) /\ Len(s) \in Nat
  OBVIOUS
<1>2. /\ DOMAIN Without(s, i) = 1..Len(s) - 1
      /\ \A j \in 1..Len(s) - 1 : Without(s, i)[j] = IF j < i THEN s[j] ELSE s[j + 1]
  BY WithoutType
<1>3. IsFiniteSet(Old)
  BY WireIsFinite DEF OnWire
<1>4. \A j \in Old : f[j] \in New
  BY <1>1, <1>2 DEF OnWire
<1>5. \A j, k \in Old : f[j] = f[k] => j = k
  BY <1>1 DEF OnWire
<1>6. \A k \in New : \E j \in Old : f[j] = k
  <2> SUFFICES ASSUME NEW k \in New
               PROVE  \E j \in Old : f[j] = k
    OBVIOUS
  <2>1. k \in 1..Len(s) - 1 /\ Without(s, i)[k].id = m
    BY <1>2 DEF OnWire
  <2>2. CASE k < i
    BY <1>1, <1>2, <2>1, <2>2 DEF OnWire
  <2>3. CASE ~(k < i)
    <3>1. k + 1 \in Old
      BY <1>1, <1>2, <2>1, <2>3 DEF OnWire
    <3>2. f[k + 1] = k
      BY <1>1, <2>1, <2>3, <3>1
    <3> QED
      BY <3>1, <3>2
  <2> QED
    BY <2>2, <2>3
<1>7. f \in Bijection(Old, New)
  <2>1. f \in [Old -> New]
    BY <1>4
  <2> HIDE DEF f, Old, New
  <2> QED
    BY <2>1, <1>5, <1>6 DEF Bijection, Injection, Surjection, IsInjective
<1> QED
  BY <1>3, <1>7, FS_Bijection DEF ExistsBijection

\* Where a request was before request i was taken away.
Back(i, j) == IF j < i THEN j ELSE j + 1

LEMMA WithoutBack ==
  ASSUME NEW s \in Seq(Request), NEW i \in DOMAIN s
  PROVE  /\ \A j \in DOMAIN Without(s, i) :
              Back(i, j) \in DOMAIN s \ {i} /\ Without(s, i)[j] = s[Back(i, j)]
         /\ \A j, k \in DOMAIN Without(s, i) : Back(i, j) = Back(i, k) => j = k
         /\ \A k \in DOMAIN s \ {i} : \E j \in DOMAIN Without(s, i) : Back(i, j) = k
<1>1. DOMAIN s = 1..Len(s) /\ Len(s) \in Nat /\ i \in 1..Len(s)
  OBVIOUS
<1>2. /\ DOMAIN Without(s, i) = 1..Len(s) - 1
      /\ \A j \in 1..Len(s) - 1 : Without(s, i)[j] = IF j < i THEN s[j] ELSE s[j + 1]
  BY WithoutType
<1>3. \A j \in DOMAIN Without(s, i) :
        Back(i, j) \in DOMAIN s \ {i} /\ Without(s, i)[j] = s[Back(i, j)]
  BY <1>1, <1>2 DEF Back
<1>4. \A j, k \in DOMAIN Without(s, i) : Back(i, j) = Back(i, k) => j = k
  BY <1>1, <1>2 DEF Back
<1>5. ASSUME NEW k \in DOMAIN s \ {i}
      PROVE  \E j \in DOMAIN Without(s, i) : Back(i, j) = k
  <2>1. CASE k < i
    BY <1>1, <1>2, <2>1 DEF Back
  <2>2. CASE k > i
    <3>1. k - 1 \in DOMAIN Without(s, i) /\ Back(i, k - 1) = k
      BY <1>1, <1>2, <2>2 DEF Back
    <3> QED
      BY <3>1
  <2> QED
    BY <1>1, <2>1, <2>2
<1> QED
  BY <1>3, <1>4, <1>5

LEMMA OnWireAppend ==
  ASSUME NEW s \in Seq(Request), NEW e \in Request, NEW m
  PROVE  OnWire(Append(s, e), m) = OnWire(s, m) \cup (IF e.id = m THEN {Len(s) + 1} ELSE {})
<1>1. /\ DOMAIN Append(s, e) = 1..Len(s) + 1
      /\ \A i \in 1..Len(s) : Append(s, e)[i] = s[i]
      /\ Append(s, e)[Len(s) + 1] = e
      /\ DOMAIN s = 1..Len(s) /\ Len(s) \in Nat
  OBVIOUS
<1> QED
  BY <1>1 DEF OnWire

LEMMA PositionsAppend ==
  ASSUME NEW S, NEW s \in Seq(S), NEW e \in S, NEW m
  PROVE  {o \in DOMAIN Append(s, e) : Append(s, e)[o] = m}
           = {o \in DOMAIN s : s[o] = m} \cup (IF e = m THEN {Len(s) + 1} ELSE {})
<1>1. /\ DOMAIN Append(s, e) = 1..Len(s) + 1
      /\ \A i \in 1..Len(s) : Append(s, e)[i] = s[i]
      /\ Append(s, e)[Len(s) + 1] = e
      /\ DOMAIN s = 1..Len(s) /\ Len(s) \in Nat
  OBVIOUS
<1> QED
  BY <1>1

\* Giving requests up changes neither how many there are nor whose they are.
LEMMA GivenUp ==
  ASSUME NEW s \in Seq(Request)
  PROVE  /\ [i \in DOMAIN s |-> [s[i] EXCEPT !.awaited = FALSE]] \in Seq(Request)
         /\ \A m : OnWire([i \in DOMAIN s |-> [s[i] EXCEPT !.awaited = FALSE]], m) = OnWire(s, m)
         /\ \A i \in DOMAIN s :
              /\ [s EXCEPT ![i].awaited = FALSE] \in Seq(Request)
              /\ \A m : OnWire([s EXCEPT ![i].awaited = FALSE], m) = OnWire(s, m)
<1>1. DOMAIN s = 1..Len(s) /\ Len(s) \in Nat /\ \A i \in DOMAIN s : s[i] \in Request
  OBVIOUS
<1>2. \A i \in DOMAIN s : [s[i] EXCEPT !.awaited = FALSE] \in Request
                          /\ [s[i] EXCEPT !.awaited = FALSE].id = s[i].id
  BY <1>1 DEF Request
<1> DEFINE a == [i \in DOMAIN s |-> [s[i] EXCEPT !.awaited = FALSE]]
<1>3. a \in [1..Len(s) -> Request] /\ DOMAIN a = DOMAIN s
  BY <1>1, <1>2
<1>4. a \in Seq(Request)
  BY <1>1, <1>3
<1>5. \A m : OnWire(a, m) = OnWire(s, m)
  BY <1>2 DEF OnWire
<1>6. ASSUME NEW i \in DOMAIN s
      PROVE  /\ [s EXCEPT ![i].awaited = FALSE] \in Seq(Request)
             /\ \A m : OnWire([s EXCEPT ![i].awaited = FALSE], m) = OnWire(s, m)
  <2> DEFINE b == [s EXCEPT ![i].awaited = FALSE]
  <2>1. /\ DOMAIN b = DOMAIN s
        /\ \A j \in DOMAIN s : b[j] = IF j = i THEN [s[i] EXCEPT !.awaited = FALSE] ELSE s[j]
    OBVIOUS
  <2>2. b \in [1..Len(s) -> Request]
    BY <1>1, <1>2, <2>1
  <2>3. b \in Seq(Request)
    BY <1>1, <2>2
  <2>4. \A m : OnWire(b, m) = OnWire(s, m)
    BY <1>2, <2>1 DEF OnWire
  <2> QED
    BY <2>3, <2>4
<1> QED
  BY <1>4, <1>5, <1>6

-----------------------------------------------------------------------------
(* Types *)

LEMMA WireType ==
  ASSUME TypeOK
  PROVE  /\ wire \in Seq(Request)
         /\ \A i \in DOMAIN wire : wire[i] \in Request /\ wire[i].id \in Msg
<1>1. wire \in Seq(Request)
  BY DEF TypeOK, Request
<1>2. \A i \in DOMAIN wire : wire[i] \in Request
  BY <1>1
<1> QED
  BY <1>1, <1>2 DEF Request

\* Where there is a request, there are a list, a topic and a partition for it.
LEMMA RequestReady ==
  ASSUME TypeOK, LoadedInv, PlaceInv, NEW i \in DOMAIN wire
  PROVE  /\ wire \in Seq(Request) /\ wire[i] \in Request
         /\ wire[i].id \in Msg /\ wire[i].id < next
         /\ list \in Lists /\ topic # 0
         /\ PartitionOf(wire[i].id) \in Partition
<1>1. wire \in Seq(Request) /\ wire[i] \in Request /\ wire[i].id \in Msg /\ next \in Nat
  BY WireType, MsgType DEF TypeOK
<1>a. wire[i].id \in Nat /\ wire[i].id # 0 /\ next \in Nat
  BY <1>1, MsgType
<1>2. wire[i].id < next
  <2>1. OnWire(wire, wire[i].id) # {}
    BY DEF OnWire
  <2>2. ~(wire[i].id >= next)
    BY <1>1, <2>1 DEF PlaceInv, NotYet
  <2> QED
    BY <1>a, <2>2
<1>3. list \in Lists
  <2>1. next # 1
    BY <1>a, <1>2
  <2> QED
    BY <2>1 DEF LoadedInv, TypeOK
<1>4. topic # 0
  BY DEF LoadedInv
<1> QED
  BY <1>1, <1>2, <1>3, <1>4, PartitionType

LEMMA InitInv == Init => IInv
<1> SUFFICES ASSUME Init PROVE IInv
  OBVIOUS
<1>1. TypeOK
  <2>1. next \in 1..Messages + 1 /\ tries \in [Msg -> 0..RETRIES + 1]
    BY MsgType, ProducerAssumption DEF Init
  <2>2. wire \in Seq([id : Msg, awaited : BOOLEAN]) /\ log \in [Partition -> Seq(Msg)]
    BY DEF Init
  <2>3. report \in [Msg -> {"none", "delivered", "failed"}] /\ queue \subseteq Msg
    BY DEF Init
  <2> QED
    BY <2>1, <2>2, <2>3 DEF Init, TypeOK
<1>2. LoadedInv
  BY DEF Init, LoadedInv
<1>3. PlaceInv
  BY MsgType DEF Init, PlaceInv, NotYet, Queued, WaitedFor, WaitedOnce, Kept, OnWire
<1>4. CountInv
  <2>1. \A m \in Msg, p \in Partition : Copies(m, p) = {} /\ OnWire(wire, m) = {} /\ tries[m] = 0
    BY DEF Init, Copies, OnWire
  <2> QED
    BY <2>1, FS_EmptySet DEF CountInv
<1> QED
  BY <1>1, <1>2, <1>3, <1>4 DEF IInv

LEMMA TypeStep ==
  ASSUME TypeOK, LoadedInv, PlaceInv, [Next]_vars
  PROVE  TypeOK'
<1>0. Messages \in Nat /\ Msg \subseteq Nat \ {0} /\ NUM_PARTITIONS \in Nat \ {0} /\ RETRIES \in Nat
  BY MsgType, ProducerAssumption
<1>1. CASE EnsureTopic
  BY <1>1 DEF EnsureTopic, TypeOK, client
<1>2. CASE Produce
  <2>1. next \in Msg /\ next + 1 \in 1..Messages + 1
    BY <1>0, <1>2 DEF Produce, TypeOK, Msg
  <2> QED
    BY <1>2, <2>1 DEF Produce, TypeOK
<1>3. ASSUME Die PROVE TypeOK'
  <2>1. wire' \in Seq(Request)
    <3>1. wire \in Seq(Request)
      BY DEF TypeOK, Request
    <3> QED
      BY <1>3, <3>1, GivenUp DEF Die
  <2> QED
    BY <1>3, <2>1 DEF Die, TypeOK, Request
<1>4. CASE Flush
  BY <1>4 DEF Flush, TypeOK, client
<1>5. CASE FlushReturns
  BY <1>5 DEF FlushReturns, TypeOK, client
<1>6. CASE CreateTopic
  BY <1>6 DEF CreateTopic, TypeOK, client
<1>7. CASE AutoCreateTopic
  BY <1>7 DEF AutoCreateTopic, TypeOK, client
<1>8. ASSUME NEW m \in Msg, Send(m)
      PROVE  TypeOK'
  <2>1. tries[m] + 1 \in 0..RETRIES + 1
    BY <1>0, <1>8 DEF Send, PlaceInv, Queued, TypeOK
  <2>2. tries' \in [Msg -> 0..RETRIES + 1]
    BY <1>8, <2>1 DEF Send, TypeOK
  <2>3. wire' \in Seq([id : Msg, awaited : BOOLEAN])
    BY <1>8 DEF Send, TypeOK
  <2> QED
    BY <1>8, <2>2, <2>3 DEF Send, TypeOK
<1>9. ASSUME NEW m \in Msg, GiveUp(m)
      PROVE  TypeOK'
  BY <1>9 DEF GiveUp, Fail, TypeOK
<1>10. ASSUME NEW i \in DOMAIN wire, Handle(i)
       PROVE  TypeOK'
  <2>1. wire' \in Seq(Request)
    BY <1>10, RequestReady, WithoutType DEF Handle
  <2>2. log' \in [Partition -> Seq(Msg)]
    <3>1. /\ log' = [log EXCEPT ![PartitionOf(wire[i].id)] = Append(@, wire[i].id)]
          /\ wire[i].id \in Msg /\ PartitionOf(wire[i].id) \in Partition
      BY <1>10, RequestReady DEF Handle, AppendToLog
    <3> QED
      BY <3>1 DEF TypeOK
  <2>3. report' \in [Msg -> {"none", "delivered", "failed"}]
    BY <1>10 DEF Handle, TypeOK
  <2> QED
    BY <1>10, <2>1, <2>2, <2>3 DEF Handle, TypeOK, Request
<1>11. ASSUME NEW i \in DOMAIN wire, Drop(i)
       PROVE  TypeOK'
  <2>1. wire' \in Seq(Request)
    BY <1>11, RequestReady, WithoutType DEF Drop
  <2> QED
    BY <1>11, <2>1 DEF Drop, TypeOK, Request
<1>12. ASSUME NEW i \in DOMAIN wire, Lose(i)
       PROVE  TypeOK'
  <2>1. wire' \in Seq(Request) /\ wire[i].id \in Msg
    BY <1>12, RequestReady, GivenUp DEF Lose
  <2> QED
    BY <1>12, <2>1 DEF Lose, Fail, TypeOK, Request
<1>13. CASE UNCHANGED vars
  BY <1>13 DEF vars, client, TypeOK
<1> QED
  BY <1>1, <1>2, <1>3, <1>4, <1>5, <1>6, <1>7, <1>8, <1>9, <1>10, <1>11, <1>12, <1>13
  DEF Next, BufferFull, Crash

LEMMA LoadedStep ==
  ASSUME TypeOK, LoadedInv, PlaceInv, [Next]_vars
  PROVE  LoadedInv'
<1>0. /\ Messages \in Nat /\ next \in Nat /\ NUM_PARTITIONS # 0
      /\ \A m \in Msg : m \in Nat \ {0}
  BY MsgType, ProducerAssumption DEF TypeOK
<1>1. CASE EnsureTopic
  BY <1>1 DEF EnsureTopic, LoadedInv, client
<1>2. CASE Produce
  BY <1>2 DEF Produce, LoadedInv
<1>3. ASSUME Die, phase # "start" PROVE LoadedInv'
  <2>1. list \in Lists \/ (list = <<>> /\ next = 1)
    BY DEF LoadedInv
  <2>2. topic = 0 => wire' = <<>>
    <3>1. topic = 0 => DOMAIN wire = {}
      BY DEF LoadedInv
    <3> QED
      BY <1>3, <3>1 DEF Die
  <2> QED
    BY <1>3, <2>1, <2>2 DEF Die, LoadedInv
<1>4. ASSUME Die, phase = "start" PROVE LoadedInv'
  <2>1. topic = 0 => wire' = <<>>
    <3>1. topic = 0 => DOMAIN wire = {}
      BY DEF LoadedInv
    <3> QED
      BY <1>4, <3>1 DEF Die
  <2> QED
    BY <1>4, <2>1 DEF Die, LoadedInv
<1>5. CASE Flush \/ FlushReturns
  BY <1>5 DEF Flush, FlushReturns, LoadedInv, client
<1>6. CASE CreateTopic \/ AutoCreateTopic
  BY <1>0, <1>6 DEF CreateTopic, AutoCreateTopic, LoadedInv, client
<1>7. ASSUME NEW m \in Msg, Send(m) \/ GiveUp(m)
      PROVE  LoadedInv'
  BY <1>7 DEF Send, GiveUp, LoadedInv
<1>8. ASSUME NEW i \in DOMAIN wire, Handle(i) \/ Drop(i) \/ Lose(i)
      PROVE  LoadedInv'
  <2>1. topic # 0 /\ topic' = topic /\ list' = list /\ next' = next /\ phase' = phase
    BY <1>8, RequestReady DEF Handle, Drop, Lose
  <2> QED
    BY <2>1 DEF LoadedInv
<1>9. CASE UNCHANGED vars
  BY <1>9 DEF vars, client, LoadedInv
<1> QED
  BY <1>1, <1>2, <1>3, <1>4, <1>5, <1>6, <1>7, <1>8, <1>9
  DEF Next, BufferFull, Crash

-----------------------------------------------------------------------------
(* The place of a message *)

LEMMA PlaceWhenProduced ==
  ASSUME TypeOK, PlaceInv, Produce
  PROVE  PlaceInv'
<1>0. Messages \in Nat /\ next \in Nat \ {0} /\ next \in Msg /\ RETRIES \in Nat
  BY MsgType, ProducerAssumption DEF Produce, TypeOK, Msg
<1>1. next' = next + 1 /\ queue' = queue \cup {next} /\ wire' = wire /\ tries' = tries
      /\ report' = report /\ phase' = phase /\ phase = "producing"
  BY DEF Produce
<1>2. \A m \in Msg : m \in Nat
  BY MsgType
<1>3. NotYet'
  BY <1>0, <1>1, <1>2 DEF NotYet, PlaceInv
<1>4. Queued'
  <2>1. tries[next] = 0 /\ report[next] = "none"
    BY <1>0 DEF PlaceInv, NotYet
  <2> QED
    BY <1>0, <1>1, <2>1 DEF Queued, PlaceInv
<1>5. WaitedFor'
  <2>1. \A i \in DOMAIN wire : wire[i].id # next
    BY <1>0 DEF PlaceInv, NotYet, OnWire
  <2> QED
    BY <1>1, <2>1 DEF WaitedFor, PlaceInv
<1>6. WaitedOnce'
  BY <1>1 DEF WaitedOnce, PlaceInv
<1>7. Kept'
  <2>1. \A m \in 1..next' - 1 : m \in 1..next - 1 \/ m = next
    BY <1>0, <1>1
  <2> QED
    BY <1>1, <2>1 DEF Kept, PlaceInv
<1> QED
  BY <1>3, <1>4, <1>5, <1>6, <1>7
  DEF PlaceInv

LEMMA PlaceWhenDead ==
  ASSUME TypeOK, PlaceInv, Die
  PROVE  PlaceInv'
<1>1. wire \in Seq(Request)
  BY WireType
<1>2. /\ phase' = "dead" /\ queue' = {} /\ next' = next /\ tries' = tries /\ report' = report
      /\ wire' = [i \in DOMAIN wire |-> [wire[i] EXCEPT !.awaited = FALSE]]
  BY DEF Die
<1>3. \A m : OnWire(wire', m) = OnWire(wire, m)
  BY <1>1, <1>2, GivenUp
<1>4. DOMAIN wire' = DOMAIN wire
  BY <1>2
<1>5. \A i \in DOMAIN wire' : wire'[i].awaited = FALSE
  <2> SUFFICES ASSUME NEW i \in DOMAIN wire PROVE wire'[i].awaited = FALSE
    BY <1>4
  <2>1. wire[i] \in Request
    BY <1>1
  <2>2. wire'[i] = [wire[i] EXCEPT !.awaited = FALSE]
    BY <1>2
  <2> QED
    BY <2>1, <2>2 DEF Request
<1>6. NotYet'
  BY <1>2, <1>3 DEF NotYet, PlaceInv
<1>7. Queued' /\ WaitedFor' /\ WaitedOnce' /\ Kept'
  BY <1>2, <1>5 DEF Queued, WaitedFor, WaitedOnce, Kept
<1> QED
  BY <1>6, <1>7 DEF PlaceInv

LEMMA PlaceWhenSent ==
  ASSUME TypeOK, PlaceInv, NEW m \in Msg, Send(m)
  PROVE  PlaceInv'
<1>0. wire \in Seq(Request) /\ [id |-> m, awaited |-> TRUE] \in Request /\ next \in Nat /\ m \in Nat
  BY MsgType DEF TypeOK, Request
<1>1. /\ m \in queue /\ queue' = queue \ {m} /\ next' = next /\ report' = report /\ phase' = phase
      /\ wire' = Append(wire, [id |-> m, awaited |-> TRUE])
      /\ tries' = [tries EXCEPT ![m] = @ + 1]
  BY DEF Send
<1>2. m < next /\ report[m] = "none" /\ phase # "dead"
  BY <1>0, <1>1 DEF PlaceInv, Queued, NotYet, Send
<1>3. /\ DOMAIN wire' = 1..Len(wire) + 1 /\ DOMAIN wire = 1..Len(wire) /\ Len(wire) \in Nat
      /\ \A i \in DOMAIN wire : wire'[i] = wire[i]
      /\ wire'[Len(wire) + 1] = [id |-> m, awaited |-> TRUE]
  BY <1>0, <1>1
<1>4. \A i \in DOMAIN wire' : i \in DOMAIN wire \/ i = Len(wire) + 1
  BY <1>3
<1>5. \A k \in Msg \ {m} : OnWire(wire', k) = OnWire(wire, k) /\ tries'[k] = tries[k]
  BY <1>3, <1>4, <1>1 DEF OnWire, TypeOK
<1>6. NotYet'
  BY <1>0, <1>1, <1>2, <1>5 DEF NotYet, PlaceInv
<1>7. Queued'
  BY <1>1, <1>5 DEF Queued, PlaceInv, TypeOK
<1>8. WaitedFor'
  BY <1>1, <1>2, <1>3, <1>4 DEF WaitedFor, PlaceInv
<1>9. WaitedOnce'
  <2>1. \A i \in DOMAIN wire : wire[i].awaited => wire[i].id # m
    BY <1>1 DEF PlaceInv, WaitedFor
  <2> QED
    BY <1>3, <1>4, <2>1 DEF WaitedOnce, PlaceInv
<1>10. Kept'
  BY <1>1, <1>3, <1>4 DEF Kept, PlaceInv
<1> QED
  BY <1>6, <1>7, <1>8, <1>9, <1>10 DEF PlaceInv

\* A request is gone: it was answered, or nobody waited for it.
LEMMA PlaceWhenGone ==
  ASSUME TypeOK, PlaceInv, NEW i \in DOMAIN wire, wire' = Without(wire, i),
         UNCHANGED <<phase, next, queue, tries>>,
         report' = IF wire[i].awaited THEN [report EXCEPT ![wire[i].id] = "delivered"] ELSE report
  PROVE  PlaceInv'
<1>0. wire \in Seq(Request)
  BY DEF TypeOK, Request
<1>1. /\ \A j \in DOMAIN wire' : Back(i, j) \in DOMAIN wire \ {i} /\ wire'[j] = wire[Back(i, j)]
      /\ \A j, k \in DOMAIN wire' : Back(i, j) = Back(i, k) => j = k
      /\ \A k \in DOMAIN wire \ {i} : \E j \in DOMAIN wire' : Back(i, j) = k
  BY <1>0, WithoutBack
<1>2. \A m : OnWire(wire, m) = {} => OnWire(wire', m) = {}
  BY <1>1 DEF OnWire
<1>3. wire[i].id \in Msg
  BY WireType
<1>4. ~(wire[i].id >= next)
  BY <1>3 DEF PlaceInv, NotYet, OnWire
<1>5. \A m \in Msg : m # wire[i].id \/ ~wire[i].awaited => report'[m] = report[m]
  BY DEF TypeOK
<1>6. NotYet'
  BY <1>2, <1>4, <1>5 DEF NotYet, PlaceInv
<1>7. Queued'
  <2>1. queue \subseteq Msg /\ (wire[i].awaited => wire[i].id \notin queue)
    BY DEF TypeOK, PlaceInv, WaitedFor
  <2> QED
    BY <1>5, <2>1 DEF Queued, PlaceInv
<1>8. WaitedFor'
  <2> SUFFICES ASSUME NEW j \in DOMAIN wire', wire'[j].awaited
               PROVE  wire'[j].id \notin queue /\ report'[wire'[j].id] = "none" /\ phase # "dead"
    BY DEF WaitedFor
  <2>1. /\ Back(i, j) \in DOMAIN wire /\ Back(i, j) # i
        /\ wire'[j] = wire[Back(i, j)] /\ wire[Back(i, j)].awaited
    BY <1>1
  <2>2. wire[Back(i, j)].id \in Msg
    BY <2>1, WireType
  <2>3. wire[i].awaited => wire[Back(i, j)].id # wire[i].id
    BY <2>1 DEF PlaceInv, WaitedOnce
  <2> QED
    BY <1>5, <2>1, <2>2, <2>3 DEF PlaceInv, WaitedFor
<1>9. WaitedOnce'
  BY <1>1 DEF WaitedOnce, PlaceInv
<1>10. Kept'
  <2> SUFFICES ASSUME phase # "dead", NEW m \in 1..next - 1, report'[m] = "none"
               PROVE  m \in queue \/ \E j \in DOMAIN wire' : wire'[j].id = m /\ wire'[j].awaited
    BY DEF Kept
  <2>1. m \in Msg
    BY MsgType DEF TypeOK, Msg
  <2>2. report[m] = "none" /\ (m # wire[i].id \/ ~wire[i].awaited)
    BY <1>3, <1>5, <2>1 DEF TypeOK
  <2>3. CASE m \in queue
    BY <2>3
  <2>4. CASE m \notin queue
    <3>1. PICK k \in DOMAIN wire : wire[k].id = m /\ wire[k].awaited
      BY <2>2, <2>4 DEF PlaceInv, Kept
    <3>2. k # i
      BY <2>2, <3>1
    <3> QED
      BY <1>1, <3>1, <3>2
  <2> QED
    BY <2>3, <2>4
<1> QED
  BY <1>6, <1>7, <1>8, <1>9, <1>10 DEF PlaceInv

\* A request is given up: its message is queued again, or has failed.
LEMMA PlaceWhenLost ==
  ASSUME TypeOK, PlaceInv, NEW i \in DOMAIN wire, Lose(i)
  PROVE  PlaceInv'
<1>0. wire \in Seq(Request) /\ wire[i].id \in Msg
  BY WireType
<1> DEFINE m == wire[i].id
<1>1. /\ wire[i].awaited /\ wire' = [wire EXCEPT ![i].awaited = FALSE]
      /\ \/ tries[m] <= RETRIES /\ queue' = queue \cup {m} /\ report' = report
         \/ queue' = queue /\ report' = [report EXCEPT ![m] = "failed"]
      /\ phase' = phase /\ next' = next /\ tries' = tries
  BY DEF Lose, MayRetry, Fail
<1>2. \A k : OnWire(wire', k) = OnWire(wire, k)
  BY <1>0, <1>1, GivenUp
<1>3. /\ DOMAIN wire' = DOMAIN wire
      /\ \A j \in DOMAIN wire : wire'[j].id = wire[j].id
      /\ \A j \in DOMAIN wire : j # i => wire'[j] = wire[j]
      /\ ~wire'[i].awaited
  <2>1. wire[i] \in Request
    BY <1>0
  <2> QED
    BY <1>1, <2>1 DEF Request
<1>4. ~(m >= next)
  BY <1>0 DEF PlaceInv, NotYet, OnWire
<1>5. m \notin queue /\ report[m] = "none" /\ phase # "dead"
  BY <1>1 DEF PlaceInv, WaitedFor
<1>6. \A k \in Msg : k # m => report'[k] = report[k] /\ (k \in queue' <=> k \in queue)
  BY <1>1 DEF TypeOK
<1>7. NotYet'
  BY <1>1, <1>2, <1>4, <1>6 DEF NotYet, PlaceInv
<1>8. Queued'
  BY <1>0, <1>1, <1>5, <1>6 DEF Queued, PlaceInv, TypeOK
<1>9. \A j \in DOMAIN wire' : wire'[j].awaited => j # i /\ wire[j].awaited /\ wire[j].id # m
  BY <1>1, <1>3 DEF PlaceInv, WaitedOnce
<1>10. WaitedFor'
  <2>1. \A j \in DOMAIN wire : wire[j].id \in Msg
    BY WireType
  <2> QED
    BY <1>1, <1>3, <1>6, <1>9, <2>1 DEF WaitedFor, PlaceInv
<1>11. WaitedOnce'
  BY <1>3, <1>9 DEF WaitedOnce, PlaceInv
<1>12. Kept'
  <2> SUFFICES ASSUME NEW k \in 1..next - 1, report'[k] = "none"
               PROVE  k \in queue' \/ \E j \in DOMAIN wire' : wire'[j].id = k /\ wire'[j].awaited
    BY <1>1 DEF Kept
  <2>1. k \in Msg
    BY MsgType DEF TypeOK, Msg
  <2>2. CASE k = m
    BY <1>0, <1>1, <2>2 DEF TypeOK
  <2>3. CASE k # m
    <3>1. report[k] = "none"
      BY <1>6, <2>1, <2>3
    <3>2. k \in queue \/ \E j \in DOMAIN wire : wire[j].id = k /\ wire[j].awaited
      BY <1>5, <3>1 DEF PlaceInv, Kept
    <3> QED
      BY <1>3, <1>6, <2>1, <2>3, <3>2
  <2> QED
    BY <2>2, <2>3
<1> QED
  BY <1>7, <1>8, <1>10, <1>11, <1>12 DEF PlaceInv

LEMMA PlaceWhenGivenUp ==
  ASSUME TypeOK, PlaceInv, NEW m \in Msg, GiveUp(m)
  PROVE  PlaceInv'
<1>1. /\ m \in queue /\ queue' = queue \ {m} /\ report' = [report EXCEPT ![m] = "failed"]
      /\ wire' = wire /\ tries' = tries /\ next' = next /\ phase' = phase
  BY DEF GiveUp, Fail
<1>2. /\ \A k \in Msg : k # m => report'[k] = report[k]
      /\ report'[m] = "failed" /\ ~(m >= next)
  BY <1>1 DEF TypeOK, PlaceInv, NotYet
<1>3. NotYet'
  BY <1>1, <1>2 DEF NotYet, PlaceInv
<1>4. Queued'
  BY <1>1, <1>2 DEF Queued, PlaceInv, TypeOK
<1>5. WaitedFor'
  <2>1. \A i \in DOMAIN wire : wire[i].id \in Msg
    BY WireType
  <2> QED
    BY <1>1, <1>2, <2>1 DEF WaitedFor, PlaceInv
<1>6. WaitedOnce'
  BY <1>1 DEF WaitedOnce, PlaceInv
<1>7. Kept'
  <2>1. \A k \in 1..next - 1 : k \in Msg
    BY MsgType DEF TypeOK, Msg
  <2> QED
    BY <1>1, <1>2, <2>1 DEF Kept, PlaceInv
<1> QED
  BY <1>3, <1>4, <1>5, <1>6, <1>7 DEF PlaceInv

LEMMA PlaceStep ==
  ASSUME TypeOK, PlaceInv, [Next]_vars
  PROVE  PlaceInv'
<1>1. ASSUME UNCHANGED <<next, client>>, phase' # "dead" <=> phase # "dead"
      PROVE  PlaceInv'
  BY <1>1 DEF client, PlaceInv, NotYet, Queued, WaitedFor, WaitedOnce, Kept
<1>2. CASE EnsureTopic \/ Flush \/ FlushReturns \/ CreateTopic \/ AutoCreateTopic \/ UNCHANGED vars
  BY <1>1, <1>2 DEF EnsureTopic, Flush, FlushReturns, CreateTopic, AutoCreateTopic, vars
<1>3. CASE Produce
  BY <1>3, PlaceWhenProduced
<1>4. CASE BufferFull \/ Crash
  BY <1>4, PlaceWhenDead DEF BufferFull, Crash
<1>5. ASSUME NEW m \in Msg, Send(m) \/ GiveUp(m)
      PROVE  PlaceInv'
  BY <1>5, PlaceWhenSent, PlaceWhenGivenUp
<1>6. ASSUME NEW i \in DOMAIN wire, Handle(i)
      PROVE  PlaceInv'
  BY <1>6, PlaceWhenGone DEF Handle
<1>7. ASSUME NEW i \in DOMAIN wire, Drop(i)
      PROVE  PlaceInv'
  BY <1>7, PlaceWhenGone DEF Drop
<1>8. ASSUME NEW i \in DOMAIN wire, Lose(i)
      PROVE  PlaceInv'
  BY <1>8, PlaceWhenLost
<1> QED
  BY <1>2, <1>3, <1>4, <1>5, <1>6, <1>7, <1>8 DEF Next

-----------------------------------------------------------------------------
(* Attempts, requests and copies *)

LEMMA CountType ==
  ASSUME TypeOK, NEW m \in Msg, NEW p \in Partition
  PROVE  /\ IsFiniteSet(Copies(m, p)) /\ Cardinality(Copies(m, p)) \in Nat
         /\ IsFiniteSet(OnWire(wire, m)) /\ Cardinality(OnWire(wire, m)) \in Nat
         /\ tries[m] \in Nat /\ tries[m] <= RETRIES + 1
<1>1. log[p] \in Seq(Msg) /\ wire \in Seq(Request)
  BY WireType DEF TypeOK
<1>2. Copies(m, p) \in SUBSET DOMAIN log[p] /\ OnWire(wire, m) \in SUBSET DOMAIN wire
  BY DEF Copies, OnWire
<1>3. tries[m] \in 0..RETRIES + 1
  BY DEF TypeOK
<1> QED
  BY <1>1, <1>2, <1>3, WireIsFinite, ProducerAssumption

\* What was never sent has no copy.
LEMMA NoCopyYet ==
  ASSUME TypeOK, CountInv, NEW m \in Msg, NEW p \in Partition, tries[m] = 0
  PROVE  Copies(m, p) = {}
BY CountType, FS_EmptySet DEF CountInv

LEMMA CountUnchanged ==
  ASSUME TypeOK, CountInv, log' = log, tries' = tries,
         \A m \in Msg : OnWire(wire', m) = OnWire(wire, m),
         \A m \in Msg, p \in Partition :
           Copies(m, p) # {} => list' = list /\ topic' = topic
  PROVE  CountInv'
<1>1. \A m, p : Copies(m, p)' = Copies(m, p)
  BY DEF Copies
<1>2. \A m \in Msg, p \in Partition :
        Cardinality(Copies(m, p)') + Cardinality(OnWire(wire', m)) <= tries'[m]
  BY <1>1 DEF CountInv
<1>3. \A m \in Msg, p \in Partition : Copies(m, p)' # {} => p = PartitionOf(m)'
  BY <1>1 DEF CountInv, PartitionOf
<1> QED
  BY <1>2, <1>3 DEF CountInv

LEMMA CountWhenSent ==
  ASSUME TypeOK, CountInv, NEW m \in Msg, Send(m)
  PROVE  CountInv'
<1>0. wire \in Seq(Request) /\ [id |-> m, awaited |-> TRUE] \in Request
  BY WireType DEF Request
<1>1. /\ log' = log /\ list' = list /\ topic' = topic
      /\ wire' = Append(wire, [id |-> m, awaited |-> TRUE])
      /\ tries' = [tries EXCEPT ![m] = @ + 1]
  BY DEF Send
<1>2. \A k, p : Copies(k, p)' = Copies(k, p)
  BY <1>1 DEF Copies
<1>3. ASSUME NEW k \in Msg, NEW p \in Partition
      PROVE  Cardinality(Copies(k, p)') + Cardinality(OnWire(wire', k)) <= tries'[k]
  <2>1. Cardinality(Copies(k, p)) + Cardinality(OnWire(wire, k)) <= tries[k]
    BY DEF CountInv
  <2>2. CASE k = m
    <3>1. OnWire(wire', k) = OnWire(wire, k) \cup {Len(wire) + 1}
      BY <1>0, <1>1, <2>2, OnWireAppend
    <3>2. Len(wire) + 1 \notin OnWire(wire, k)
      BY <1>0 DEF OnWire
    <3>3. Cardinality(OnWire(wire', k)) = Cardinality(OnWire(wire, k)) + 1
      BY <3>1, <3>2, CountType, FS_AddElement
    <3>4. tries'[k] = tries[k] + 1
      BY <1>1, <2>2 DEF TypeOK
    <3> QED
      BY <1>2, <2>1, <3>3, <3>4, CountType
  <2>3. CASE k # m
    <3>1. OnWire(wire', k) = OnWire(wire, k)
      <4>1. OnWire(wire', k) =
              OnWire(wire, k) \cup
                (IF [id |-> m, awaited |-> TRUE].id = k THEN {Len(wire) + 1} ELSE {})
        BY <1>0, <1>1, OnWireAppend
      <4>2. [id |-> m, awaited |-> TRUE].id # k
        BY <2>3
      <4> QED
        BY <4>1, <4>2
    <3>2. tries'[k] = tries[k]
      BY <1>1, <2>3 DEF TypeOK
    <3> QED
      BY <1>2, <2>1, <3>1, <3>2
  <2> QED
    BY <2>2, <2>3
<1>4. \A k \in Msg, p \in Partition : Copies(k, p)' # {} => p = PartitionOf(k)'
  BY <1>1, <1>2 DEF CountInv, PartitionOf
<1> QED
  BY <1>3, <1>4 DEF CountInv

\* With request i one attempt of its message less is under way.
LEMMA OneLess ==
  ASSUME TypeOK, NEW i \in DOMAIN wire, wire' = Without(wire, i), NEW k \in Msg, NEW p \in Partition
  PROVE  /\ Cardinality(OnWire(wire', k)) \in Nat
         /\ Cardinality(OnWire(wire', k)) =
              Cardinality(OnWire(wire, k)) - (IF wire[i].id = k THEN 1 ELSE 0)
<1>1. wire \in Seq(Request)
  BY WireType
<1>2. Cardinality(OnWire(wire', k)) = Cardinality(OnWire(wire, k) \ {i})
  BY <1>1, OnWireWithout
<1>3. i \in OnWire(wire, k) <=> wire[i].id = k
  BY DEF OnWire
<1>4. IsFiniteSet(OnWire(wire, k) \ {i})
  BY CountType, FS_RemoveElement
<1> QED
  BY <1>2, <1>3, <1>4, CountType, FS_RemoveElement, FS_CardinalityType

LEMMA CountWhenDropped ==
  ASSUME TypeOK, CountInv, NEW i \in DOMAIN wire, Drop(i)
  PROVE  CountInv'
<1>1. log' = log /\ list' = list /\ topic' = topic /\ tries' = tries /\ wire' = Without(wire, i)
  BY DEF Drop
<1>2. \A k, p : Copies(k, p)' = Copies(k, p)
  BY <1>1 DEF Copies
<1>3. ASSUME NEW k \in Msg, NEW p \in Partition
      PROVE  Cardinality(Copies(k, p)') + Cardinality(OnWire(wire', k)) <= tries'[k]
  <2>1. Cardinality(Copies(k, p)) + Cardinality(OnWire(wire, k)) <= tries[k]
    BY DEF CountInv
  <2> QED
    BY <1>1, <1>2, <2>1, OneLess, CountType
<1>4. \A k \in Msg, p \in Partition : Copies(k, p)' # {} => p = PartitionOf(k)'
  BY <1>1, <1>2 DEF CountInv, PartitionOf
<1> QED
  BY <1>3, <1>4 DEF CountInv

LEMMA CountWhenHandled ==
  ASSUME TypeOK, LoadedInv, PlaceInv, CountInv, NEW i \in DOMAIN wire, Handle(i)
  PROVE  CountInv'
<1>p. PICK m \in Msg : m = wire[i].id
  BY RequestReady
<1>q. PICK q \in Partition : q = PartitionOf(m)
  BY <1>p, RequestReady
<1>0. m \in Msg /\ q \in Partition
  OBVIOUS
<1>1. /\ log' = [log EXCEPT ![q] = Append(@, m)]
      /\ list' = list /\ topic' = topic /\ tries' = tries /\ wire' = Without(wire, i)
  BY <1>p, <1>q DEF Handle, AppendToLog
<1>2. ASSUME NEW k \in Msg, NEW p \in Partition, k # m \/ p # q
      PROVE  Copies(k, p)' = Copies(k, p)
  <2>1. CASE p # q
    BY <1>1, <2>1 DEF Copies, TypeOK
  <2>2. CASE p = q /\ k # m
    <3>1. log'[p] = Append(log[p], m) /\ log[p] \in Seq(Msg)
      BY <1>0, <1>1, <2>2 DEF TypeOK
    <3> QED
      BY <1>0, <2>2, <3>1, PositionsAppend DEF Copies
  <2> QED
    BY <1>2, <2>1, <2>2
<1>3. Cardinality(Copies(m, q)') = Cardinality(Copies(m, q)) + 1
  <2>1. log'[q] = Append(log[q], m) /\ log[q] \in Seq(Msg)
    BY <1>0, <1>1 DEF TypeOK
  <2>2. Copies(m, q)' = Copies(m, q) \cup {Len(log[q]) + 1}
    BY <1>0, <2>1, PositionsAppend DEF Copies
  <2>3. Len(log[q]) + 1 \notin Copies(m, q)
    BY <2>1 DEF Copies
  <2> QED
    BY <1>0, <2>2, <2>3, CountType, FS_AddElement
<1>4. ASSUME NEW k \in Msg, NEW p \in Partition
      PROVE  Cardinality(Copies(k, p)') + Cardinality(OnWire(wire', k)) <= tries'[k]
  <2>1. Cardinality(Copies(k, p)) + Cardinality(OnWire(wire, k)) <= tries[k]
    BY DEF CountInv
  <2>2. CASE k = m /\ p = q
    <3>1. Cardinality(OnWire(wire', k)) = Cardinality(OnWire(wire, k)) - 1
      BY <1>1, <1>p, <2>2, OneLess
    <3>2. Cardinality(Copies(k, p)') = Cardinality(Copies(k, p)) + 1
      BY <1>3, <2>2
    <3> QED
      BY <1>1, <2>1, <3>1, <3>2, CountType
  <2>3. CASE k # m \/ p # q
    BY <1>1, <1>2, <1>p, <2>1, <2>3, OneLess, CountType
  <2> QED
    BY <2>2, <2>3
<1>5. \A k \in Msg, p \in Partition : Copies(k, p)' # {} => p = PartitionOf(k)'
  BY <1>1, <1>2, <1>q DEF CountInv, PartitionOf
<1> QED
  BY <1>4, <1>5 DEF CountInv

LEMMA CountStep ==
  ASSUME TypeOK, LoadedInv, PlaceInv, CountInv, [Next]_vars
  PROVE  CountInv'
<1>1. CASE EnsureTopic
  <2>1. \A m \in Msg : m >= next
    BY <1>1, MsgType DEF EnsureTopic, LoadedInv
  <2>2. \A m \in Msg, p \in Partition : Copies(m, p) = {}
    BY <2>1, NoCopyYet DEF PlaceInv, NotYet
  <2> QED
    BY <1>1, <2>2, CountUnchanged DEF EnsureTopic, client
<1>2. CASE Produce \/ Flush \/ FlushReturns \/ UNCHANGED vars
  BY <1>2, CountUnchanged DEF Produce, Flush, FlushReturns, vars, client
<1>3. ASSUME Die PROVE CountInv'
  BY <1>3, WireType, GivenUp, CountUnchanged DEF Die
<1>4. CASE CreateTopic \/ AutoCreateTopic
  <2>1. topic = 0
    BY <1>4 DEF CreateTopic, AutoCreateTopic
  <2>2. \A m \in Msg, p \in Partition : Copies(m, p) = {}
    BY <2>1 DEF LoadedInv, Copies
  <2> QED
    BY <1>4, <2>2, CountUnchanged DEF CreateTopic, AutoCreateTopic, client
<1>5. ASSUME NEW m \in Msg, Send(m)
      PROVE  CountInv'
  BY <1>5, CountWhenSent
<1>6. ASSUME NEW m \in Msg, GiveUp(m)
      PROVE  CountInv'
  BY <1>6, CountUnchanged DEF GiveUp
<1>7. ASSUME NEW i \in DOMAIN wire, Handle(i) \/ Drop(i)
      PROVE  CountInv'
  BY <1>7, CountWhenHandled, CountWhenDropped
<1>8. ASSUME NEW i \in DOMAIN wire, Lose(i)
      PROVE  CountInv'
  BY <1>8, WireType, GivenUp, CountUnchanged DEF Lose
<1> QED
  BY <1>1, <1>2, <1>3, <1>4, <1>5, <1>6, <1>7, <1>8 DEF Next, BufferFull, Crash

-----------------------------------------------------------------------------
(* The theorems *)

LEMMA Invariance == Spec => []IInv
<1>1. Init => IInv
  BY InitInv
<1>2. IInv /\ [Next]_vars => IInv'
  BY TypeStep, LoadedStep, PlaceStep, CountStep DEF IInv
<1> QED
  BY <1>1, <1>2, PTL DEF Spec

\* The producer's variables keep their types in every run of produce().
THEOREM ProducerTypes == Spec => []TypeOK
<1>1. IInv => TypeOK
  BY DEF IInv
<1> QED
  BY <1>1, Invariance, PTL

\* However the client library's thread, the broker and a loss interleave: while
\* the process lives, every message produced has its one report, or waits in the
\* queue, or is waited for in exactly one request, so flush() knows of it.
THEOREM NoMessageForgotten == Spec => []NoneForgotten
<1>1. IInv => NoneForgotten
  <2> SUFFICES ASSUME IInv, phase # "dead", NEW m \in 1..next - 1
               PROVE  LET awaited == {i \in DOMAIN wire : wire[i].id = m /\ wire[i].awaited} IN
                        /\ Cardinality(awaited) <= 1
                        /\ (report[m] = "none") <=> (m \in queue \/ awaited # {})
    BY DEF NoneForgotten
  <2> DEFINE awaited == {i \in DOMAIN wire : wire[i].id = m /\ wire[i].awaited}
  <2>1. TypeOK /\ Queued /\ WaitedFor /\ WaitedOnce /\ Kept
    BY DEF IInv, PlaceInv
  <2>2. Cardinality(awaited) <= 1
    <3>1. CASE awaited = {}
      BY <3>1, FS_EmptySet
    <3>2. CASE awaited # {}
      <4>1. PICK i \in awaited : TRUE
        BY <3>2
      <4>2. awaited = {i}
        BY <2>1, <4>1 DEF WaitedOnce
      <4>3. Cardinality({i}) = 1
        BY FS_Singleton
      <4> HIDE DEF awaited
      <4> QED
        BY <4>2, <4>3
    <3> QED
      BY <3>1, <3>2
  <2>3. (report[m] = "none") => (m \in queue \/ awaited # {})
    BY <2>1 DEF Kept
  <2>4. (m \in queue \/ awaited # {}) => (report[m] = "none")
    BY <2>1 DEF Queued, WaitedFor
  <2> QED
    BY <2>2, <2>3, <2>4
<1> QED
  BY <1>1, Invariance, PTL

\* Without idempotence a retry may duplicate, but the topic holds at most one
\* copy per attempt, "retries" + 1 of them, and all in the message's partition.
THEOREM CopiesStayBounded == Spec => []CopiesAreBounded
<1>1. IInv => CopiesAreBounded
  <2> SUFFICES ASSUME IInv, NEW p \in Partition, NEW m \in Msg
               PROVE  /\ Cardinality(Copies(m, p)) <= RETRIES + 1
                      /\ Copies(m, p) # {} => p = PartitionOf(m)
    BY DEF CopiesAreBounded
  <2>1. Cardinality(Copies(m, p)) + Cardinality(OnWire(wire, m)) <= tries[m]
    BY DEF IInv, CountInv
  <2>2. tries[m] \in 0..RETRIES + 1
    BY DEF IInv, TypeOK
  <2>3. Cardinality(Copies(m, p)) \in Nat /\ Cardinality(OnWire(wire, m)) \in Nat
    BY CountType DEF IInv
  <2>4. Cardinality(Copies(m, p)) <= RETRIES + 1
    BY <2>1, <2>2, <2>3, ProducerAssumption
  <2> QED
    BY <2>4 DEF IInv, CountInv
<1> QED
  BY <1>1, Invariance, PTL

\* The generator's copies of a transaction carry its account_id, the key of
\* produce(), and the topic never changes its number of partitions: they all
\* end in one partition.
THEOREM DuplicatesStayTogether == Spec => []DuplicatesShareAPartition
<1>1. IInv => DuplicatesShareAPartition
  <2> SUFFICES ASSUME IInv, NEW p \in Partition, NEW q \in Partition,
                      NEW i \in DOMAIN log[p], NEW j \in DOMAIN log[q],
                      list[log[p][i]] = list[log[q][j]]
               PROVE  p = q
    BY DEF DuplicatesShareAPartition
  <2>1. log[p][i] \in Msg /\ log[q][j] \in Msg
    BY DEF IInv, TypeOK
  <2>2. i \in Copies(log[p][i], p) /\ j \in Copies(log[q][j], q)
    BY DEF Copies
  <2>3. p = PartitionOf(log[p][i]) /\ q = PartitionOf(log[q][j])
    BY <2>1, <2>2 DEF IInv, CountInv
  <2> QED
    BY <2>3 DEF PartitionOf
<1> QED
  BY <1>1, Invariance, PTL

-----------------------------------------------------------------------------
(* The order of the topic: what the broker acknowledged at the first       *)
(* attempt has not been overtaken.  The argument: while a message awaits   *)
(* its first answer, every later one of its partition is behind it on the  *)
(* wire.                                                                   *)

\* k is produced after m, for the same partition.
Later(k, m) == m < k /\ PartitionOf(k) = PartitionOf(m)

UnsentInv == topic = 0 => \A m \in Msg : tries[m] = 0

\* Nothing is sent past a message that has not been sent yet,
FirstInv ==
  \A m \in queue : tries[m] = 0 => \A k \in Msg : tries[k] # 0 => ~Later(k, m)

\* nor gets past one that awaits the answer to its first attempt.
FrontWire ==
  \A i, j \in DOMAIN wire :
    wire[i].awaited /\ tries[wire[i].id] = 1 /\ Later(wire[j].id, wire[i].id)
      => i < j /\ wire[j].awaited
FrontLog ==
  \A i \in DOMAIN wire, p \in Partition : \A o \in DOMAIN log[p] :
    wire[i].awaited /\ tries[wire[i].id] = 1 => ~Later(log[p][o], wire[i].id)

\* A message delivered at the first attempt is not on its way again.
DeliveredOnce ==
  \A m \in Msg : tries[m] = 1 /\ report[m] = "delivered" => OnWire(wire, m) = {}

OrderInv == UnsentInv /\ FirstInv /\ FrontWire /\ FrontLog /\ DeliveredOnce /\ NotOvertaken

-----------------------------------------------------------------------------
(* Attempts *)

LEMMA OnlyAttempt ==
  ASSUME TypeOK, CountInv, NEW i \in DOMAIN wire, NEW m \in Msg, wire[i].id = m
  PROVE  /\ tries[m] # 0
         /\ tries[m] = 1 => /\ OnWire(wire, m) = {i}
                            /\ \A p \in Partition : Copies(m, p) = {}
<1>1. \A p \in Partition :
        Cardinality(Copies(m, p)) + Cardinality(OnWire(wire, m)) <= tries[m]
  BY DEF CountInv
<1>2. 0 \in Partition
  BY ProducerAssumption DEF Partition
<1>3. IsFiniteSet(OnWire(wire, m)) /\ Cardinality(OnWire(wire, m)) \in Nat
  BY <1>2, CountType
<1>4. {i} \in SUBSET OnWire(wire, m)
  BY DEF OnWire
<1>5. Cardinality({i}) = 1
  BY FS_Singleton
<1>6. /\ 1 <= Cardinality(OnWire(wire, m))
      /\ Cardinality(OnWire(wire, m)) = 1 => OnWire(wire, m) = {i}
  BY <1>3, <1>4, <1>5, FS_Subset
<1>7. tries[m] # 0
  BY <1>1, <1>2, <1>6, CountType
<1>8. ASSUME tries[m] = 1, NEW p \in Partition
      PROVE  OnWire(wire, m) = {i} /\ Copies(m, p) = {}
  <2>1. Cardinality(Copies(m, p)) = 0 /\ Cardinality(OnWire(wire, m)) = 1
    BY <1>1, <1>6, <1>8, CountType
  <2> QED
    BY <1>6, <2>1, CountType, FS_EmptySet
<1> QED
  BY <1>2, <1>7, <1>8

LEMMA Arrived ==
  ASSUME TypeOK, CountInv, NEW m \in Msg, NEW p \in Partition, Copies(m, p) # {}
  PROVE  /\ tries[m] # 0
         /\ tries[m] = 1 => OnWire(wire, m) = {}
<1>1. Cardinality(Copies(m, p)) + Cardinality(OnWire(wire, m)) <= tries[m]
  BY DEF CountInv
<1>2. Cardinality(Copies(m, p)) # 0
  BY CountType, FS_EmptySet
<1>3. tries[m] # 0
  BY <1>1, <1>2, CountType
<1>4. tries[m] = 1 => Cardinality(OnWire(wire, m)) = 0
  BY <1>1, <1>2, CountType
<1> QED
  BY <1>3, <1>4, CountType, FS_EmptySet

-----------------------------------------------------------------------------
(* The steps *)

\* Before anything is sent there is no order to keep.
LEMMA OrderVacuous ==
  ASSUME TypeOK, CountInv, \A m \in Msg : tries[m] = 0, UNCHANGED <<client, log>>
  PROVE  OrderInv'
<1>1. \A i \in DOMAIN wire : FALSE
  BY OnlyAttempt, WireType
<1>2. ASSUME NEW p \in Partition, NEW o \in DOMAIN log[p] PROVE FALSE
  <2>1. log[p][o] \in Msg
    BY DEF TypeOK
  <2>2. o \in Copies(log[p][o], p)
    BY DEF Copies
  <2> QED
    BY <2>1, <2>2, Arrived
<1>3. \A m \in Msg : tries'[m] = 0
  BY DEF client
<1>4. queue \subseteq Msg
  BY DEF TypeOK
<1> QED
  BY <1>1, <1>2, <1>3, <1>4
  DEF OrderInv, UnsentInv, FirstInv, FrontWire, FrontLog, DeliveredOnce, NotOvertaken, client

\* Messages enter the queue last or for another attempt, and requests are given
\* up from the first: the order does not change.
LEMMA OrderKept ==
  ASSUME TypeOK, OrderInv, UNCHANGED <<list, topic, tries, log>>,
         DOMAIN wire' = DOMAIN wire,
         \A i \in DOMAIN wire : wire'[i].id = wire[i].id,
         \A i \in DOMAIN wire : wire'[i].awaited => wire[i].awaited,
         \A i, j \in DOMAIN wire :
           i < j /\ wire'[i].awaited /\ wire[j].awaited => wire'[j].awaited,
         \A m \in queue' : \/ m \in queue \/ tries[m] # 0
                           \/ \A k \in Msg : m < k => tries[k] = 0,
         \A m \in Msg : report'[m] = "delivered" => report[m] = "delivered"
  PROVE  OrderInv'
<1>1. \A k, m : Later(k, m)' <=> Later(k, m)
  BY DEF Later, PartitionOf
<1>2. UnsentInv'
  BY DEF OrderInv, UnsentInv
<1>3. FirstInv'
  BY <1>1 DEF OrderInv, FirstInv, Later
<1>4. FrontWire'
  <2>1. \A i, j \in DOMAIN wire :
          wire'[i].awaited /\ tries[wire[i].id] = 1 /\ Later(wire[j].id, wire[i].id)
            => i < j /\ wire'[j].awaited
    BY DEF OrderInv, FrontWire
  <2> QED
    BY <1>1, <2>1 DEF FrontWire
<1>5. FrontLog'
  BY <1>1 DEF OrderInv, FrontLog
<1>6. DeliveredOnce'
  BY DEF OrderInv, DeliveredOnce, OnWire
<1>7. NotOvertaken'
  <2>1. \A p \in Partition : \A o \in DOMAIN log[p] : log[p][o] \in Msg
    BY DEF TypeOK
  <2> QED
    BY <2>1 DEF OrderInv, NotOvertaken
<1> QED
  BY <1>2, <1>3, <1>4, <1>5, <1>6, <1>7 DEF OrderInv

LEMMA OrderWhenSent ==
  ASSUME TypeOK, PlaceInv, CountInv, OrderInv, NEW m \in Msg, Send(m)
  PROVE  OrderInv'
<1>0. /\ wire \in Seq(Request) /\ [id |-> m, awaited |-> TRUE] \in Request
      /\ \A i \in DOMAIN wire : wire[i].id \in Msg
  BY WireType DEF Request
<1>1. /\ UNCHANGED <<list, topic, log, report>> /\ topic # 0
      /\ queue' = queue \ {m} /\ m \in queue /\ FirstQueued(m)
      /\ wire' = Append(wire, [id |-> m, awaited |-> TRUE])
      /\ tries' = [tries EXCEPT ![m] = @ + 1]
  BY DEF Send
<1>2. \A k, n : Later(k, n)' <=> Later(k, n)
  BY <1>1 DEF Later, PartitionOf
<1>3. /\ DOMAIN wire' = 1..Len(wire) + 1 /\ DOMAIN wire = 1..Len(wire) /\ Len(wire) \in Nat
      /\ \A i \in DOMAIN wire : wire'[i] = wire[i]
      /\ wire'[Len(wire) + 1] = [id |-> m, awaited |-> TRUE]
  BY <1>0, <1>1
<1>4. \A k \in Msg : tries'[k] = (IF k = m THEN tries[k] + 1 ELSE tries[k]) /\ tries[k] \in Nat
  BY <1>1, ProducerAssumption DEF TypeOK
<1>5. \A i \in DOMAIN wire : tries[wire[i].id] # 0
  BY <1>0, OnlyAttempt
<1>6. ASSUME NEW p \in Partition, NEW o \in DOMAIN log[p]
      PROVE  log[p][o] \in Msg /\ tries[log[p][o]] # 0
  <2>1. log[p][o] \in Msg
    BY DEF TypeOK
  <2>2. o \in Copies(log[p][o], p)
    BY DEF Copies
  <2> QED
    BY <2>1, <2>2, Arrived
\* A request already under way is for another message, or tries is 2 by now.
<1>7. ASSUME NEW i \in DOMAIN wire, tries'[wire[i].id] = 1
      PROVE  wire[i].id # m /\ tries[wire[i].id] = 1
  BY <1>0, <1>4, <1>5, <1>7
<1>8. ASSUME tries'[m] = 1
      PROVE  \A k \in Msg : tries[k] # 0 => ~Later(k, m)
  BY <1>1, <1>4, <1>8 DEF OrderInv, FirstInv
<1>9. report[m] = "none"
  BY <1>1 DEF PlaceInv, Queued
<1>10. UnsentInv'
  BY <1>1 DEF UnsentInv
<1>11. FirstInv'
  <2> SUFFICES ASSUME NEW n \in queue, n # m, tries'[n] = 0, NEW k \in Msg, tries'[k] # 0
               PROVE  ~Later(k, n)
    BY <1>1, <1>2 DEF FirstInv
  <2>0. n \in Msg /\ n \in Nat /\ m \in Nat /\ tries[n] = 0
    BY <1>4, MsgType DEF TypeOK
  <2>1. CASE k = m
    BY <1>1, <2>0, <2>1 DEF FirstQueued, Later
  <2>2. CASE k # m
    BY <1>4, <2>0, <2>2 DEF OrderInv, FirstInv
  <2> QED
    BY <2>1, <2>2
<1>12. FrontWire'
  <2> SUFFICES ASSUME NEW i \in DOMAIN wire', NEW j \in DOMAIN wire', wire'[i].awaited,
                      tries'[wire'[i].id] = 1, Later(wire'[j].id, wire'[i].id)
               PROVE  i < j /\ wire'[j].awaited
    BY <1>2 DEF FrontWire
  <2>1. CASE i \in DOMAIN wire /\ j \in DOMAIN wire
    BY <1>3, <1>7, <2>1 DEF OrderInv, FrontWire
  <2>2. CASE i \in DOMAIN wire /\ j = Len(wire) + 1
    BY <1>3, <2>2
  <2>3. CASE i = Len(wire) + 1 /\ j \in DOMAIN wire
    BY <1>0, <1>3, <1>5, <1>8, <2>3
  <2>4. CASE i = Len(wire) + 1 /\ j = Len(wire) + 1
    BY <1>3, <2>4, MsgType DEF Later
  <2> QED
    BY <1>3, <2>1, <2>2, <2>3, <2>4
<1>13. FrontLog'
  <2> SUFFICES ASSUME NEW i \in DOMAIN wire', NEW p \in Partition, NEW o \in DOMAIN log[p],
                      wire'[i].awaited, tries'[wire'[i].id] = 1
               PROVE  ~Later(log[p][o], wire'[i].id)
    BY <1>1, <1>2 DEF FrontLog
  <2>1. CASE i \in DOMAIN wire
    BY <1>3, <1>7, <2>1 DEF OrderInv, FrontLog
  <2>2. CASE i = Len(wire) + 1
    BY <1>3, <1>6, <1>8, <2>2
  <2> QED
    BY <1>3, <2>1, <2>2
<1>14. DeliveredOnce'
  <2> SUFFICES ASSUME NEW n \in Msg, tries'[n] = 1, report[n] = "delivered"
               PROVE  OnWire(wire', n) = {}
    BY <1>1 DEF DeliveredOnce
  <2>1. n # m /\ tries[n] = 1
    BY <1>4, <1>9
  <2>2. OnWire(wire, n) = {}
    BY <2>1 DEF OrderInv, DeliveredOnce
  <2> QED
    BY <1>3, <2>1, <2>2 DEF OnWire
<1>15. NotOvertaken'
  BY <1>1, <1>4, <1>6, <1>9 DEF OrderInv, NotOvertaken
<1> QED
  BY <1>10, <1>11, <1>12, <1>13, <1>14, <1>15 DEF OrderInv

\* With request i gone the others keep their order.
LEMMA FrontWhenGone ==
  ASSUME TypeOK, FrontWire, NEW i \in DOMAIN wire, wire' = Without(wire, i),
         UNCHANGED <<list, topic, tries>>
  PROVE  FrontWire'
<1>1. \A k, m : Later(k, m)' <=> Later(k, m)
  BY DEF Later, PartitionOf
<1>2. \A j \in DOMAIN wire' : Back(i, j) \in DOMAIN wire /\ wire'[j] = wire[Back(i, j)]
  BY WireType, WithoutBack
<1>3. \A j, k \in DOMAIN wire' : Back(i, j) < Back(i, k) => j < k
  <2>1. DOMAIN wire' \subseteq Int /\ i \in Int
    BY WireType, WithoutType
  <2> QED
    BY <2>1 DEF Back
<1> QED
  BY <1>1, <1>2, <1>3 DEF FrontWire

LEMMA OnWireWhenGone ==
  ASSUME TypeOK, NEW i \in DOMAIN wire, wire' = Without(wire, i), NEW m,
         OnWire(wire, m) \subseteq {i}
  PROVE  OnWire(wire', m) = {}
<1>1. \A j \in DOMAIN wire' : Back(i, j) \in DOMAIN wire \ {i} /\ wire'[j] = wire[Back(i, j)]
  BY WireType, WithoutBack
<1> QED
  BY <1>1 DEF OnWire

LEMMA OrderWhenDropped ==
  ASSUME TypeOK, OrderInv, NEW i \in DOMAIN wire, Drop(i)
  PROVE  OrderInv'
<1>1. wire' = Without(wire, i) /\ UNCHANGED <<list, topic, queue, tries, report, log>>
  BY DEF Drop
<1>2. \A k, m : Later(k, m)' <=> Later(k, m)
  BY <1>1 DEF Later, PartitionOf
<1>3. UnsentInv' /\ FirstInv' /\ NotOvertaken'
  BY <1>1, <1>2 DEF OrderInv, UnsentInv, FirstInv, NotOvertaken
<1>4. FrontWire'
  BY <1>1, FrontWhenGone DEF OrderInv
<1>5. FrontLog'
  <2>1. \A j \in DOMAIN wire' : Back(i, j) \in DOMAIN wire /\ wire'[j] = wire[Back(i, j)]
    BY <1>1, WireType, WithoutBack
  <2> QED
    BY <1>1, <1>2, <2>1 DEF OrderInv, FrontLog
<1>6. DeliveredOnce'
  BY <1>1, OnWireWhenGone DEF OrderInv, DeliveredOnce
<1> QED
  BY <1>3, <1>4, <1>5, <1>6 DEF OrderInv

\* The broker takes the first request awaited, or one nobody waits for: neither
\* passes a message that awaits its first answer.
LEMMA OrderWhenHandled ==
  ASSUME TypeOK, LoadedInv, PlaceInv, CountInv, OrderInv, NEW i \in DOMAIN wire, Handle(i)
  PROVE  OrderInv'
<1>p. PICK m \in Msg : m = wire[i].id
  BY RequestReady
<1>q. PICK q \in Partition : q = PartitionOf(m)
  BY <1>p, RequestReady
<1>1. /\ log' = [log EXCEPT ![q] = Append(@, m)] /\ wire' = Without(wire, i)
      /\ UNCHANGED <<list, topic, queue, tries>> /\ Reachable(i)
      /\ report' = IF wire[i].awaited THEN [report EXCEPT ![m] = "delivered"] ELSE report
  BY <1>p, <1>q DEF Handle, AppendToLog
<1>2. \A k, n : Later(k, n)' <=> Later(k, n)
  BY <1>1 DEF Later, PartitionOf
<1>3. \A j \in DOMAIN wire' : Back(i, j) \in DOMAIN wire \ {i} /\ wire'[j] = wire[Back(i, j)]
  BY <1>1, WireType, WithoutBack
<1>4. /\ log[q] \in Seq(Msg) /\ DOMAIN log[q] = 1..Len(log[q]) /\ Len(log[q]) \in Nat
      /\ \A p \in Partition : p # q => log'[p] = log[p]
      /\ DOMAIN log'[q] = 1..Len(log[q]) + 1
      /\ \A o \in DOMAIN log[q] : log'[q][o] = log[q][o]
      /\ log'[q][Len(log[q]) + 1] = m
  <2>1. log[q] \in Seq(Msg) /\ log'[q] = Append(log[q], m)
    BY <1>1 DEF TypeOK
  <2>2. \A p \in Partition : p # q => log'[p] = log[p]
    BY <1>1 DEF TypeOK
  <2> QED
    BY <2>1, <2>2
<1>5. tries[m] = 1 => OnWire(wire, m) = {i} /\ \A p \in Partition : Copies(m, p) = {}
  BY <1>p, OnlyAttempt
\* Where the log is new, and where it is not.
<1>6. \A p \in Partition : \A o \in DOMAIN log'[p] :
        \/ o \in DOMAIN log[p] /\ log'[p][o] = log[p][o]
        \/ p = q /\ o = Len(log[q]) + 1 /\ log'[p][o] = m
  BY <1>4
<1>7. UnsentInv' /\ FirstInv'
  BY <1>1, <1>2 DEF OrderInv, UnsentInv, FirstInv
<1>8. FrontWire'
  BY <1>1, FrontWhenGone DEF OrderInv
<1>9. FrontLog'
  <2> SUFFICES ASSUME NEW j \in DOMAIN wire \ {i}, NEW p \in Partition, NEW o \in DOMAIN log'[p],
                      wire[j].awaited, tries[wire[j].id] = 1, Later(log'[p][o], wire[j].id)
               PROVE  FALSE
    BY <1>1, <1>2, <1>3 DEF FrontLog
  <2>1. ~(o \in DOMAIN log[p] /\ log'[p][o] = log[p][o])
    BY DEF OrderInv, FrontLog
  <2>2. Later(m, wire[j].id)
    BY <1>6, <2>1
  <2>3. j < i /\ wire[i].awaited
    BY <1>p, <2>2 DEF OrderInv, FrontWire
  <2>4. j \in 1..i - 1
    BY <2>3, WireType
  <2> QED
    BY <1>1, <2>3, <2>4 DEF Reachable
<1>10. DeliveredOnce'
  <2> SUFFICES ASSUME NEW n \in Msg, tries[n] = 1, report'[n] = "delivered"
               PROVE  OnWire(wire', n) = {}
    BY <1>1 DEF DeliveredOnce
  <2>1. CASE report[n] = "delivered"
    BY <1>1, <2>1, OnWireWhenGone DEF OrderInv, DeliveredOnce
  <2>2. CASE report[n] # "delivered"
    <3>1. n = m
      BY <1>1, <2>2 DEF TypeOK
    <3> QED
      BY <1>1, <1>5, <3>1, OnWireWhenGone
  <2> QED
    BY <2>1, <2>2
<1>11. NotOvertaken'
  <2> SUFFICES ASSUME NEW p \in Partition, NEW a \in DOMAIN log'[p], NEW b \in DOMAIN log'[p],
                      a < b, tries[log'[p][b]] = 1, report'[log'[p][b]] = "delivered"
               PROVE  log'[p][a] < log'[p][b]
    BY <1>1 DEF NotOvertaken
  <2>0. log[p] \in Seq(Msg) /\ DOMAIN log[p] = 1..Len(log[p])
    BY DEF TypeOK
  <2>1. CASE b \in DOMAIN log[p] /\ log'[p][b] = log[p][b]
    <3>1. a \in DOMAIN log[p] /\ log'[p][a] = log[p][a]
      BY <1>4, <1>6, <2>0, <2>1
    <3>2. log[p][b] \in Msg
      BY <2>0, <2>1
    <3>3. log[p][b] # m
      BY <1>5, <2>1 DEF Copies
    <3>4. report[log[p][b]] = "delivered"
      BY <1>1, <2>1, <3>2, <3>3 DEF TypeOK
    <3> QED
      BY <2>1, <3>1, <3>4 DEF OrderInv, NotOvertaken
  <2>2. CASE p = q /\ b = Len(log[q]) + 1 /\ log'[p][b] = m
    <3>1. a \in DOMAIN log[q] /\ log'[q][a] = log[q][a] /\ log[q][a] \in Msg
      BY <1>4, <2>2
    <3>2. wire[i].awaited
      <4>1. OnWire(wire, m) # {}
        BY <1>p DEF OnWire
      <4>2. report[m] # "delivered"
        BY <2>2, <4>1 DEF OrderInv, DeliveredOnce
      <4> QED
        BY <1>1, <2>2, <4>2
    <3>3. ~Later(log[q][a], m)
      BY <1>p, <2>2, <3>1, <3>2 DEF OrderInv, FrontLog
    <3>4. a \in Copies(log[q][a], q)
      BY <3>1 DEF Copies
    <3>5. PartitionOf(log[q][a]) = q
      BY <3>1, <3>4 DEF CountInv
    <3>6. log[q][a] # m
      BY <1>5, <2>2, <3>4
    <3> QED
      BY <1>q, <2>2, <3>1, <3>3, <3>5, <3>6, MsgType DEF Later
  <2> QED
    BY <1>6, <2>1, <2>2
<1> QED
  BY <1>7, <1>8, <1>9, <1>10, <1>11 DEF OrderInv

LEMMA OrderWhenLost ==
  ASSUME TypeOK, PlaceInv, CountInv, OrderInv, NEW i \in DOMAIN wire, Lose(i)
  PROVE  OrderInv'
<1>1. /\ wire' = [wire EXCEPT ![i].awaited = FALSE] /\ wire[i].awaited /\ Reachable(i)
      /\ UNCHANGED <<list, topic, tries, log>>
      /\ queue' = queue \cup {wire[i].id} \/ queue' = queue
      /\ report' = report \/ report' = [report EXCEPT ![wire[i].id] = "failed"]
  BY DEF Lose, Fail
<1>2. wire \in Seq(Request) /\ \A j \in DOMAIN wire : wire[j] \in Request
  BY WireType
<1>3. /\ DOMAIN wire' = DOMAIN wire
      /\ \A j \in DOMAIN wire :
           wire'[j] = IF j = i THEN [wire[i] EXCEPT !.awaited = FALSE] ELSE wire[j]
  BY <1>1, <1>2
<1>4. /\ [wire[i] EXCEPT !.awaited = FALSE].id = wire[i].id
      /\ ~[wire[i] EXCEPT !.awaited = FALSE].awaited
  BY <1>2 DEF Request
<1>5. \A j \in DOMAIN wire : /\ wire'[j].id = wire[j].id
                             /\ wire'[j].awaited => wire[j].awaited /\ j # i
  BY <1>3, <1>4
<1>6. ASSUME NEW j \in DOMAIN wire, NEW k \in DOMAIN wire,
             j < k, wire'[j].awaited, wire[k].awaited
      PROVE  wire'[k].awaited
  <2>1. CASE k = i
    <3>1. j \in 1..i - 1
      BY <1>2, <1>6, <2>1
    <3> QED
      BY <1>1, <1>5, <1>6, <3>1 DEF Reachable
  <2>2. CASE k # i
    BY <1>3, <1>6, <2>2
  <2> QED
    BY <2>1, <2>2
<1>7. \A n \in queue' : n \in queue \/ tries[n] # 0
  BY <1>1, WireType, OnlyAttempt
<1>8. \A n \in Msg : report'[n] = "delivered" => report[n] = "delivered"
  BY <1>1 DEF TypeOK
<1> QED
  BY <1>1, <1>3, <1>5, <1>6, <1>7, <1>8, OrderKept

LEMMA OrderStep ==
  ASSUME IInv, OrderInv, [Next]_vars
  PROVE  OrderInv'
<1>0. TypeOK /\ LoadedInv /\ PlaceInv /\ CountInv
  BY DEF IInv
<1>1. CASE EnsureTopic
  <2>1. \A m \in Msg : m >= next
    <3>1. next = 1
      BY <1>0, <1>1 DEF EnsureTopic, LoadedInv
    <3> QED
      BY <3>1, MsgType
  <2>2. \A m \in Msg : tries[m] = 0
    BY <1>0, <2>1 DEF PlaceInv, NotYet
  <2> QED
    BY <1>0, <1>1, <2>2, OrderVacuous DEF EnsureTopic, client
<1>2. CASE CreateTopic \/ AutoCreateTopic
  <2>1. \A m \in Msg : tries[m] = 0
    BY <1>2 DEF CreateTopic, AutoCreateTopic, OrderInv, UnsentInv
  <2> QED
    BY <1>0, <1>2, <2>1, OrderVacuous DEF CreateTopic, AutoCreateTopic, client
<1>3. CASE Produce
  <2>1. \A m \in queue' : m \in queue \/ \A k \in Msg : m < k => tries[k] = 0
    <3>1. queue' = queue \cup {next} /\ next \in Nat
      BY <1>0, <1>3, MsgType DEF Produce, TypeOK
    <3>2. \A k \in Msg : next < k => tries[k] = 0
      BY <1>0, <3>1, MsgType DEF PlaceInv, NotYet
    <3> QED
      BY <3>1, <3>2
  <2> QED
    BY <1>0, <1>3, <2>1, OrderKept DEF Produce
<1>4. CASE Flush \/ FlushReturns \/ UNCHANGED vars
  BY <1>0, <1>4, OrderKept DEF Flush, FlushReturns, vars, client
<1>5. ASSUME Die PROVE OrderInv'
  <2>1. \A i \in DOMAIN wire : /\ wire'[i].id = wire[i].id
                               /\ ~wire'[i].awaited
    <3>1. \A i \in DOMAIN wire : wire[i] \in Request
      BY <1>0, WireType
    <3> QED
      BY <1>5, <3>1 DEF Die, Request
  <2> QED
    BY <1>0, <1>5, <2>1, OrderKept DEF Die
<1>6. ASSUME NEW m \in Msg, Send(m)
      PROVE  OrderInv'
  BY <1>0, <1>6, OrderWhenSent
<1>7. ASSUME NEW m \in Msg, GiveUp(m)
      PROVE  OrderInv'
  <2>1. /\ UNCHANGED <<list, topic, tries, log, wire>> /\ queue' \subseteq queue
        /\ \A n \in Msg : report'[n] = "delivered" => report[n] = "delivered"
    BY <1>0, <1>7 DEF GiveUp, Fail, TypeOK
  <2> QED
    BY <1>0, <2>1, OrderKept
<1>8. ASSUME NEW i \in DOMAIN wire, Handle(i) \/ Drop(i) \/ Lose(i)
      PROVE  OrderInv'
  BY <1>0, <1>8, OrderWhenHandled, OrderWhenDropped, OrderWhenLost
<1> QED
  BY <1>1, <1>2, <1>3, <1>4, <1>5, <1>6, <1>7, <1>8 DEF Next, BufferFull, Crash

-----------------------------------------------------------------------------
(* The theorem *)

\* Whatever is lost, late or repeated: a message that was sent once and reported
\* as delivered has only earlier messages before it in its partition, so the
\* order of produce() is lost to retries and to requests given up, to nothing else.
THEOREM DeliveredInOrder == Spec => []NotOvertaken
<1>1. Init => OrderInv
  <2> SUFFICES ASSUME Init PROVE OrderInv
    OBVIOUS
  <2>1. queue = {} /\ DOMAIN wire = {} /\ \A m \in Msg : tries[m] = 0 /\ report[m] = "none"
    BY DEF Init
  <2>2. \A p \in Partition : DOMAIN log[p] = {}
    BY DEF Init
  <2> QED
    BY <2>1, <2>2
    DEF OrderInv, UnsentInv, FirstInv, FrontWire, FrontLog, DeliveredOnce, NotOvertaken
<1>2. IInv /\ OrderInv /\ [Next]_vars => OrderInv'
  BY OrderStep
<1>3. OrderInv => NotOvertaken
  BY DEF OrderInv
<1> QED
  BY <1>1, <1>2, <1>3, Invariance, PTL DEF Spec
=============================================================================
