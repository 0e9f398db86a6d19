------------------------ MODULE DebugConsumerProofs ------------------------
(***************************************************************************)
(* The debug consumers, for any group, topic and limits and any number of  *)
(* starts, losses and rebalances: nothing retained is skipped, and the     *)
(* committed offsets never go back.  What makes it work is the order of    *)
(* three offsets of a partition - committed, under way, position - and     *)
(* that a rebalance throws the middle ones away.                           *)
(***************************************************************************)
EXTENDS DebugConsumer, TLAPS

Request == {r \in [partition : Partition, offset : Nat] : r.offset <= End(r.partition)}

\* TypeOK, and which sets the functions and sequences come from.
TypeInv ==
  /\ TypeOK
  /\ position \in [Partition -> Nat] /\ committed \in [Partition -> Nat]
  /\ head \in [Partition -> Nat]
  /\ commits \in Seq(Request)

\* Everything of p before offset n is in the statistics or has expired.
Covered(p, n) == \A o \in Nat : head[p] <= o /\ o < n => <<p, o>> \in seen

\* Committed offsets, those under way in their order, and the position.
OffsetInv ==
  /\ \A p \in Partition : committed[p] <= position[p]
  /\ \A i \in DOMAIN commits :
       /\ committed[commits[i].partition] <= commits[i].offset
       /\ commits[i].offset <= position[commits[i].partition]
  /\ \A i, j \in DOMAIN commits :
       i < j /\ commits[i].partition = commits[j].partition
         => commits[i].offset <= commits[j].offset

\* After a poison message the position is past something nobody has seen, but
\* its owner is gone, and the next one starts from what is committed.
CoverInv ==
  /\ \A p \in Partition : Covered(p, committed[p])
  /\ \A i \in DOMAIN commits : Covered(commits[i].partition, commits[i].offset)
  /\ \A p \in Partition : owner[p] \in Alive \cap members => Covered(p, position[p])

IInv == TypeInv /\ OffsetInv /\ CoverInv

-----------------------------------------------------------------------------
(* Requests *)

LEMMA EndType == \A p \in Partition : End(p) \in Nat /\ Content[p] \in Seq(Message)
BY ConsumerAssumption DEF End

LEMMA CommitType ==
  ASSUME TypeInv, NEW p \in Partition, position[p] < End(p)
  PROVE  /\ position[p] \in Nat /\ position[p] + 1 <= End(p)
         /\ \/ Commit(p, position[p]) = <<>>
            \/ Commit(p, position[p]) = <<[partition |-> p, offset |-> position[p] + 1]>>
         /\ [partition |-> p, offset |-> position[p] + 1] \in Request
         /\ commits \o Commit(p, position[p]) \in Seq(Request)
<1>1. position[p] \in Nat /\ End(p) \in Nat
  BY EndType DEF TypeInv
<1>2. [partition |-> p, offset |-> position[p] + 1] \in Request
  BY <1>1 DEF Request
<1>3. Commit(p, position[p]) \in Seq(Request)
  BY <1>2 DEF Commit
<1> QED
  BY <1>1, <1>2, <1>3 DEF Commit, TypeInv

\* What is under way after the owner of p has moved on.
LEMMA CommitsGrow ==
  ASSUME TypeInv, NEW p \in Partition, position[p] < End(p),
         commits' = commits \o Commit(p, position[p])
  PROVE  \A i \in DOMAIN commits' :
           \/ i \in DOMAIN commits /\ commits'[i] = commits[i]
           \/ /\ commits'[i] = [partition |-> p, offset |-> position[p] + 1]
              /\ i = Len(commits) + 1
<1>1. commits \in Seq(Request) /\ DOMAIN commits = 1..Len(commits) /\ Len(commits) \in Nat
  BY DEF TypeInv
<1>2. CASE Commit(p, position[p]) = <<>>
  BY <1>1, <1>2
<1>3. CASE Commit(p, position[p]) = <<[partition |-> p, offset |-> position[p] + 1]>>
  <2> DEFINE r == [partition |-> p, offset |-> position[p] + 1]
  <2>1. r \in Request
    BY CommitType
  <2> HIDE DEF r
  <2>2. commits' = commits \o <<r>>
    BY <1>3 DEF r
  <2>3. \A i \in DOMAIN commits' :
          \/ i \in DOMAIN commits /\ commits'[i] = commits[i]
          \/ i = Len(commits) + 1 /\ commits'[i] = r
    BY <1>1, <2>1, <2>2
  <2> QED
    BY <2>3 DEF r
<1> QED
  BY <1>2, <1>3, CommitType

\* What is under way after the first commit has arrived or is lost.
LEMMA CommitsShrink ==
  ASSUME TypeInv, commits # <<>>, commits' = Tail(commits)
  PROVE  /\ commits' \in Seq(Request)
         /\ 1 \in DOMAIN commits /\ Head(commits) = commits[1] /\ commits[1] \in Request
         /\ \A i \in DOMAIN commits' :
              i \in Nat /\ i + 1 \in DOMAIN commits /\ commits'[i] = commits[i + 1]
<1>1. commits \in Seq(Request)
  BY DEF TypeInv
<1> QED
  BY <1>1

-----------------------------------------------------------------------------
(* Types *)

LEMMA InitInv == Init => IInv
<1> SUFFICES ASSUME Init PROVE IInv
  OBVIOUS
<1>1. TypeOK
  <2>1. \A p \in Partition : {position[p], committed[p], head[p]} \subseteq Offset(p)
    BY EndType DEF Init, Offset
  <2>2. starts \in 0..MaxStarts /\ owner \in [Partition -> Consumer]
    <3>1. PICK d : d \in Consumer
      BY ConsumerAssumption
    <3>2. (CHOOSE c \in Consumer : TRUE) \in Consumer
      BY <3>1
    <3> DEFINE any == CHOOSE c \in Consumer : TRUE
    <3>3. owner = [p \in Partition |-> any]
      BY DEF Init
    <3>4. any \in Consumer
      BY <3>2
    <3> HIDE DEF any
    <3>5. owner \in [Partition -> Consumer]
      BY <3>3, <3>4
    <3>6. starts \in 0..MaxStarts
      BY ConsumerAssumption DEF Init
    <3> QED
      BY <3>5, <3>6
  <2>3. \A c \in Consumer : MaxMessages[c] > 0 => count[c] <= MaxMessages[c]
    BY ConsumerAssumption DEF Init
  <2>4. DOMAIN commits = {} /\ seen = {}
    BY DEF Init
  <2>5. /\ phase \in [Consumer -> {"off", "polling"}] /\ running \in [Consumer -> BOOLEAN]
        /\ count \in [Consumer -> Nat] /\ members \subseteq Consumer
    BY DEF Init
  <2> QED
    BY <2>1, <2>2, <2>3, <2>4, <2>5 DEF TypeOK
<1>2. TypeInv /\ OffsetInv
  BY <1>1 DEF Init, TypeInv, OffsetInv
<1>3. CoverInv
  BY DEF Init, CoverInv, Covered, Alive
<1> QED
  BY <1>2, <1>3 DEF IInv

\* The processes and offsets keep their types if the offsets stay in the topic.
LEMMA Offsets ==
  ASSUME TypeInv, NEW p \in Partition
  PROVE  /\ position[p] \in 0..End(p) /\ committed[p] \in 0..End(p) /\ head[p] \in 0..End(p)
         /\ position[p] \in Nat /\ committed[p] \in Nat /\ head[p] \in Nat
BY DEF TypeInv, TypeOK, Offset

LEMMA CommitsInTopic ==
  ASSUME NEW s \in Seq(Request)
  PROVE  \A i \in DOMAIN s : /\ s[i].partition \in Partition /\ s[i].offset \in Nat
                             /\ s[i].offset \in Offset(s[i].partition)
<1>1. \A i \in DOMAIN s : s[i] \in Request
  OBVIOUS
<1> QED
  BY <1>1, EndType DEF Request, Offset

LEMMA ExitType ==
  ASSUME TypeInv, NEW c \in Consumer, Exit(c)
  PROVE  /\ phase' \in [Consumer -> {"off", "polling"}] /\ running' \in [Consumer -> BOOLEAN]
         /\ count' \in [Consumer -> Nat]
         /\ \A d \in Consumer : MaxMessages[d] > 0 => count'[d] <= MaxMessages[d]
<1>1. MaxMessages \in [Consumer -> Nat] /\ TypeOK
  BY ConsumerAssumption DEF TypeInv
<1>2. phase' \in [Consumer -> {"off", "polling"}] /\ running' \in [Consumer -> BOOLEAN]
  BY <1>1 DEF Exit, TypeOK
<1>3. count' = [count EXCEPT ![c] = 0] /\ count \in [Consumer -> Nat]
  BY <1>1 DEF Exit, TypeOK
<1>4. \A d \in Consumer : count'[d] = (IF d = c THEN 0 ELSE count[d])
  BY <1>3
<1>5. \A d \in Consumer : MaxMessages[d] > 0 => count'[d] <= MaxMessages[d]
  BY <1>1, <1>4 DEF TypeOK
<1> QED
  BY <1>2, <1>3, <1>5

LEMMA TypeStep ==
  ASSUME TypeInv, [Next]_vars
  PROVE  TypeInv'
<1>0. /\ TypeOK /\ MaxStarts \in Nat /\ MaxMessages \in [Consumer -> Nat]
      /\ \A p \in Partition : End(p) \in Nat
  BY ConsumerAssumption, EndType DEF TypeInv
<1>1. ASSUME NEW c \in Consumer, Start(c)
      PROVE  TypeInv'
  BY <1>0, <1>1 DEF Start, TypeInv, TypeOK
<1>2. ASSUME NEW c \in Consumer, HandleSignal(c)
      PROVE  TypeInv'
  BY <1>0, <1>2 DEF HandleSignal, group, TypeInv, TypeOK
<1>3. ASSUME NEW c \in Consumer, Close(c) \/ Die(c)
      PROVE  TypeInv'
  <2>1. Exit(c) /\ UNCHANGED <<group, commits, committed, head, starts, seen>>
    BY <1>3 DEF Close, Die
  <2> QED
    BY <1>0, <2>1, ExitType DEF TypeInv, TypeOK, group
<1>4. ASSUME NEW c \in Consumer, NEW p \in Partition, Consume(c, p)
      PROVE  TypeInv'
  <2>1. /\ position[p] < End(p) /\ UNCHANGED <<members, owner, committed, head, starts>>
        /\ position' = [position EXCEPT ![p] = position[p] + 1]
        /\ commits' = commits \o Commit(p, position[p])
        /\ seen' = seen \/ seen' = seen \cup {<<p, position[p]>>}
    BY <1>4 DEF Consume
  <2>2. /\ phase' \in [Consumer -> {"off", "polling"}] /\ running' \in [Consumer -> BOOLEAN]
        /\ count' \in [Consumer -> Nat]
        /\ \A d \in Consumer : MaxMessages[d] > 0 => count'[d] <= MaxMessages[d]
    <3>1. CASE phase' = phase /\ running' = running /\ count' = count
      BY <1>0, <3>1 DEF TypeOK
    <3>2. CASE phase' = phase /\ running' = running /\ count' = [count EXCEPT ![c] = @ + 1]
      <4>1. MaxMessages[c] = 0 \/ count[c] < MaxMessages[c]
        BY <1>4 DEF Consume, Continues
      <4> QED
        BY <1>0, <3>2, <4>1 DEF TypeOK
    <3>3. CASE Exit(c)
      BY <3>3, ExitType
    <3> QED
      BY <1>4, <3>1, <3>2, <3>3 DEF Consume
  <2>3. commits' \in Seq(Request)
    BY <2>1, CommitType
  <2>4. position' \in [Partition -> Nat] /\ \A q \in Partition : position'[q] \in Offset(q)
    BY <1>0, <2>1, Offsets DEF TypeInv, Offset
  <2>5. \A s \in seen' : s[1] \in Partition /\ s[2] \in 0..End(s[1]) - 1
    <3>1. position[p] \in 0..End(p) - 1
      BY <1>0, <2>1, Offsets
    <3> QED
      BY <1>0, <2>1, <3>1 DEF TypeOK
  <2> QED
    BY <1>0, <2>1, <2>2, <2>3, <2>4, <2>5, CommitsInTopic DEF TypeInv, TypeOK
<1>5. ASSUME NEW p \in Partition, ResetPosition(p) \/ Expire(p)
      PROVE  TypeInv'
  <2>1. /\ UNCHANGED <<process, members, owner, commits, committed, starts, seen>>
        /\ \/ position' = [position EXCEPT ![p] = head[p]] /\ head' = head
           \/ head[p] < End(p) /\ head' = [head EXCEPT ![p] = @ + 1] /\ position' = position
    BY <1>5 DEF ResetPosition, Expire, group
  <2>2. /\ position' \in [Partition -> Nat]
        /\ \A q \in Partition : position'[q] \in 0..End(q)
    <3>1. position \in [Partition -> Nat] /\ \A q \in Partition : position[q] \in 0..End(q)
      BY Offsets DEF TypeInv
    <3>2. head[p] \in 0..End(p) /\ head[p] \in Nat
      BY Offsets
    <3> QED
      BY <2>1, <3>1, <3>2
  <2>3. /\ head' \in [Partition -> Nat]
        /\ \A q \in Partition : head'[q] \in 0..End(q)
    <3>1. head \in [Partition -> Nat] /\ \A q \in Partition : head[q] \in 0..End(q)
      BY Offsets DEF TypeInv
    <3>2. End(p) \in Nat
      BY <1>0
    <3> QED
      BY <2>1, <3>1, <3>2
  <2> QED
    BY <1>0, <2>1, <2>2, <2>3, CommitsInTopic DEF TypeInv, TypeOK, process, Offset
<1>6. CASE Rebalance
  <2>1. /\ UNCHANGED <<process, committed, head, starts, seen>>
        /\ members' = Alive /\ owner' \in [Partition -> Alive] /\ commits' = <<>>
        /\ position' = [p \in Partition |-> committed[p]]
    BY <1>6 DEF Rebalance, FirstPosition, RemainingCommits
  <2>2. Alive \subseteq Consumer
    BY DEF Alive
  <2> QED
    BY <1>0, <2>1, <2>2 DEF TypeInv, TypeOK, process, Offset
<1>7. CASE CommitArrives \/ CommitLost
  <2>1. /\ UNCHANGED <<process, group, head, starts, seen>>
        /\ commits # <<>> /\ commits' = Tail(commits)
        /\ \/ committed' = committed
           \/ committed' = [committed EXCEPT ![Head(commits).partition] = Head(commits).offset]
    BY <1>7 DEF CommitArrives, CommitLost
  <2>2. /\ commits' \in Seq(Request) /\ Head(commits) = commits[1] /\ 1 \in DOMAIN commits
        /\ commits[1].partition \in Partition /\ commits[1].offset \in Nat
        /\ commits[1].offset \in Offset(commits[1].partition)
    BY <2>1, CommitsShrink, CommitsInTopic DEF TypeInv
  <2>3. committed' \in [Partition -> Nat] /\ \A p \in Partition : committed'[p] \in Offset(p)
    BY <1>0, <2>1, <2>2, Offsets DEF TypeInv, Offset
  <2> QED
    BY <1>0, <2>1, <2>2, <2>3, CommitsInTopic DEF TypeInv, TypeOK, process, group
<1>8. CASE UNCHANGED vars
  BY <1>0, <1>8 DEF vars, process, group, TypeInv, TypeOK
<1> QED
  BY <1>1, <1>2, <1>3, <1>4, <1>5, <1>6, <1>7, <1>8 DEF Next

-----------------------------------------------------------------------------
(* Offsets *)

LEMMA OffsetStep ==
  ASSUME TypeInv, OffsetInv, [Next]_vars
  PROVE  OffsetInv'
<1>1. CASE UNCHANGED <<committed, commits, position>>
  BY <1>1 DEF OffsetInv
<1>2. ASSUME NEW c \in Consumer, NEW p \in Partition, Consume(c, p)
      PROVE  OffsetInv'
  <2>1. /\ position[p] < End(p) /\ committed' = committed
        /\ position' = [position EXCEPT ![p] = position[p] + 1]
        /\ commits' = commits \o Commit(p, position[p])
    BY <1>2 DEF Consume
  <2>2. \A q \in Partition : /\ position'[q] = (IF q = p THEN position[p] + 1 ELSE position[q])
                             /\ position[q] \in Nat /\ committed[q] \in Nat
    BY <2>1, Offsets DEF TypeInv
  <2>3. \A q \in Partition : committed[q] <= position'[q] /\ position[q] <= position'[q]
    BY <2>2 DEF OffsetInv
  <2>4. \A i \in DOMAIN commits' :
          \/ i \in DOMAIN commits /\ commits'[i] = commits[i]
          \/ /\ commits'[i].partition = p /\ commits'[i].offset = position[p] + 1
             /\ i = Len(commits) + 1
    <3>1. \A i \in DOMAIN commits' :
            \/ i \in DOMAIN commits /\ commits'[i] = commits[i]
            \/ /\ commits'[i] = [partition |-> p, offset |-> position[p] + 1]
               /\ i = Len(commits) + 1
      BY <2>1, CommitsGrow
    <3> QED
      BY <3>1
  <2>5. /\ commits \in Seq(Request) /\ DOMAIN commits = 1..Len(commits) /\ Len(commits) \in Nat
        /\ \A i \in DOMAIN commits : commits[i].partition \in Partition /\ commits[i].offset \in Nat
    BY CommitsInTopic DEF TypeInv
  <2>6. ASSUME NEW i \in DOMAIN commits'
        PROVE  /\ committed[commits'[i].partition] <= commits'[i].offset
               /\ commits'[i].offset <= position'[commits'[i].partition]
    <3>1. CASE i \in DOMAIN commits /\ commits'[i] = commits[i]
      <4>1. /\ committed[commits[i].partition] <= commits[i].offset
            /\ commits[i].offset <= position[commits[i].partition]
            /\ commits[i].partition \in Partition /\ commits[i].offset \in Nat
        BY <2>5, <3>1 DEF OffsetInv
      <4> QED
        BY <2>2, <3>1, <4>1
    <3>2. CASE commits'[i].partition = p /\ commits'[i].offset = position[p] + 1
      BY <2>2, <2>3, <3>2
    <3> QED
      BY <2>4, <3>1, <3>2
  <2>7. ASSUME NEW i \in DOMAIN commits', NEW j \in DOMAIN commits', i < j,
               commits'[i].partition = commits'[j].partition
        PROVE  commits'[i].offset <= commits'[j].offset
    <3>1. i \in DOMAIN commits /\ commits'[i] = commits[i]
      <4>1. i # Len(commits) + 1
        BY <1>2, <2>4, <2>5, <2>7
      <4> QED
        BY <2>4, <4>1
    <3>2. CASE j \in DOMAIN commits /\ commits'[j] = commits[j]
      BY <2>7, <3>1, <3>2 DEF OffsetInv
    <3>3. CASE commits'[j].partition = p /\ commits'[j].offset = position[p] + 1
      <4>1. commits[i].offset <= position[p] /\ commits[i].offset \in Nat
        BY <2>5, <2>7, <3>1, <3>3 DEF OffsetInv
      <4> QED
        BY <2>2, <3>1, <3>3, <4>1
    <3> QED
      BY <2>4, <3>2, <3>3
  <2> QED
    BY <2>1, <2>3, <2>6, <2>7 DEF OffsetInv
<1>3. ASSUME NEW p \in Partition, ResetPosition(p)
      PROVE  OffsetInv'
  <2>1. /\ committed' = committed /\ commits' = commits
        /\ position' = [position EXCEPT ![p] = head[p]] /\ position[p] < head[p]
    BY <1>3 DEF ResetPosition
  <2>2. \A q \in Partition : /\ position'[q] = (IF q = p THEN head[p] ELSE position[q])
                             /\ position[q] \in Nat /\ committed[q] \in Nat /\ head[q] \in Nat
    BY <2>1, Offsets DEF TypeInv
  <2>3. \A q \in Partition : position[q] <= position'[q]
    BY <2>1, <2>2
  <2>4. \A i \in DOMAIN commits : commits[i].partition \in Partition /\ commits[i].offset \in Nat
    BY CommitsInTopic DEF TypeInv
  <2>5. \A i \in DOMAIN commits : commits[i].offset <= position'[commits[i].partition]
    BY <2>2, <2>3, <2>4 DEF OffsetInv
  <2>6. \A q \in Partition : committed[q] <= position'[q]
    BY <2>2, <2>3 DEF OffsetInv
  <2> QED
    BY <2>1, <2>5, <2>6 DEF OffsetInv
<1>4. CASE Rebalance
  <2>1. /\ committed' = committed /\ commits' = <<>>
        /\ position' = [p \in Partition |-> committed[p]]
    BY <1>4 DEF Rebalance, FirstPosition, RemainingCommits
  <2>2. DOMAIN commits' = {} /\ \A p \in Partition : committed'[p] <= position'[p]
    BY <2>1, Offsets
  <2> QED
    BY <2>2 DEF OffsetInv
<1>5. CASE CommitArrives \/ CommitLost
  <2>1. /\ position' = position /\ commits # <<>> /\ commits' = Tail(commits)
        /\ \/ committed' = committed
           \/ committed' = [committed EXCEPT ![commits[1].partition] = commits[1].offset]
    BY <1>5 DEF CommitArrives, CommitLost, group
  <2>2. /\ 1 \in DOMAIN commits
        /\ \A i \in DOMAIN commits' :
             i \in Nat /\ i + 1 \in DOMAIN commits /\ 1 < i + 1 /\ commits'[i] = commits[i + 1]
    <3>1. \A i \in DOMAIN commits' : 1 < i + 1
      BY <2>1, CommitsShrink
    <3> QED
      BY <2>1, <3>1, CommitsShrink
  <2>3. \A q \in Partition : \/ committed'[q] = committed[q]
                             \/ commits[1].partition = q /\ committed'[q] = commits[1].offset
    BY <2>1 DEF TypeInv
  <2>4. \A i \in DOMAIN commits : commits[i].partition \in Partition
    BY CommitsInTopic DEF TypeInv
  <2>5. \A q \in Partition : committed'[q] <= position[q]
    BY <2>2, <2>3 DEF OffsetInv
  <2>6. \A i \in DOMAIN commits' : committed'[commits'[i].partition] <= commits'[i].offset
    BY <2>2, <2>3, <2>4 DEF OffsetInv
  <2>7. \A i \in DOMAIN commits' : commits'[i].offset <= position[commits'[i].partition]
    BY <2>2 DEF OffsetInv
  <2>8. ASSUME NEW i \in DOMAIN commits', NEW j \in DOMAIN commits', i < j,
               commits'[i].partition = commits'[j].partition
        PROVE  commits'[i].offset <= commits'[j].offset
    <3>1. i + 1 < j + 1
      BY <2>2, <2>8
    <3> QED
      BY <2>2, <2>8, <3>1 DEF OffsetInv
  <2> QED
    BY <2>1, <2>5, <2>6, <2>7, <2>8 DEF OffsetInv
<1> QED
  BY <1>1, <1>2, <1>3, <1>4, <1>5
  DEF Next, Start, HandleSignal, Close, Die, Expire, group, vars

-----------------------------------------------------------------------------
(* What is covered *)

LEMMA CoveredKept ==
  ASSUME TypeInv, TypeInv', seen \subseteq seen', \A p \in Partition : head[p] <= head'[p]
  PROVE  \A p \in Partition, n \in Nat : Covered(p, n) => Covered(p, n)'
<1>1. \A p \in Partition : head[p] \in Nat /\ head'[p] \in Nat
  BY DEF TypeInv
<1> QED
  BY <1>1 DEF Covered

\* Steps that cover no more and read no further.
LEMMA CoverUnchanged ==
  ASSUME TypeInv, TypeInv', CoverInv, seen \subseteq seen',
         \A p \in Partition : head[p] <= head'[p],
         UNCHANGED <<committed, position, owner>>,
         \A i \in DOMAIN commits' : \E j \in DOMAIN commits : commits'[i] = commits[j],
         Alive' \cap members' \subseteq Alive \cap members
  PROVE  CoverInv'
<1>1. \A p \in Partition, n \in Nat : Covered(p, n) => Covered(p, n)'
  BY CoveredKept
<1>2. \A p \in Partition : position[p] \in Nat /\ committed[p] \in Nat
  BY Offsets
<1>3. \A i \in DOMAIN commits : commits[i].partition \in Partition /\ commits[i].offset \in Nat
  BY CommitsInTopic DEF TypeInv
<1>4. \A p \in Partition : Covered(p, committed[p])'
  BY <1>1, <1>2 DEF CoverInv, Covered
<1>5. \A i \in DOMAIN commits' : Covered(commits[i].partition, commits[i].offset)'
  <2> SUFFICES ASSUME NEW i \in DOMAIN commits'
               PROVE  Covered(commits[i].partition, commits[i].offset)'
    OBVIOUS
  <2>1. PICK j \in DOMAIN commits : commits'[i] = commits[j]
    OBVIOUS
  <2>2. PICK p \in Partition, n \in Nat : p = commits[j].partition /\ n = commits[j].offset
    BY <1>3
  <2>3. Covered(p, n)'
    BY <1>1, <2>2 DEF CoverInv
  <2> QED
    BY <2>1, <2>2, <2>3 DEF Covered
<1>6. \A p \in Partition : owner'[p] \in Alive' \cap members' => Covered(p, position[p])'
  BY <1>1, <1>2 DEF CoverInv, Covered
<1> QED
  BY <1>4, <1>5, <1>6 DEF CoverInv

LEMMA CoverWhenConsumed ==
  ASSUME TypeInv, TypeInv', CoverInv, NEW c \in Consumer, NEW p \in Partition, Consume(c, p)
  PROVE  CoverInv'
<1>o. PICK o \in Nat : o = position[p]
  BY Offsets
<1>1. /\ position[p] < End(p) /\ UNCHANGED <<members, owner, committed, head>>
      /\ position' = [position EXCEPT ![p] = o + 1]
      /\ commits' = commits \o Commit(p, position[p])
      /\ phase[c] = "polling" /\ c \in members /\ owner[p] = c
      /\ \/ Content[p][o + 1] = "poison" /\ Exit(c) /\ seen' = seen
         \/ seen' = seen \cup {<<p, o>>} /\ phase' = phase
  BY <1>o DEF Consume
<1>2. seen \subseteq seen' /\ \A q \in Partition : head[q] <= head'[q]
  BY <1>1, Offsets
<1>3. \A q \in Partition, n \in Nat : Covered(q, n) => Covered(q, n)'
  BY <1>2, CoveredKept
<1>4. \A q \in Partition : committed[q] \in Nat /\ position[q] \in Nat
  BY Offsets
<1>5. \A q \in Partition : position'[q] = (IF q = p THEN o + 1 ELSE position[q])
  BY <1>1 DEF TypeInv
<1>6. Covered(p, o)
  BY <1>o, <1>1 DEF CoverInv, Alive
<1>7. seen' = seen \cup {<<p, o>>} => Covered(p, o + 1)'
  BY <1>3, <1>6 DEF Covered
<1>8. \A q \in Partition : Covered(q, committed[q])'
  BY <1>1, <1>3, <1>4 DEF CoverInv, Covered
<1>9. ASSUME NEW i \in DOMAIN commits'
      PROVE  Covered(commits[i].partition, commits[i].offset)'
  <2>1. CASE i \in DOMAIN commits /\ commits'[i] = commits[i]
    <3>1. PICK q \in Partition, n \in Nat : q = commits[i].partition /\ n = commits[i].offset
      BY <2>1, CommitsInTopic DEF TypeInv
    <3>2. Covered(q, n)'
      BY <1>3, <2>1, <3>1 DEF CoverInv
    <3> QED
      BY <2>1, <3>1, <3>2 DEF Covered
  <2>2. CASE ~(i \in DOMAIN commits /\ commits'[i] = commits[i])
    <3>1. commits'[i] = [partition |-> p, offset |-> o + 1]
      BY <1>o, <1>1, <2>2, CommitsGrow
    <3>2. commits'[i].partition = p /\ commits'[i].offset = o + 1
      BY <3>1
    <3>3. Content[p][o + 1] = "record"
      <4>1. Commit(p, position[p]) # <<>>
        <5>1. commits \in Seq(Request)
          BY DEF TypeInv
        <5>2. commits \o <<>> = commits
          BY <5>1
        <5> QED
          BY <1>1, <2>2, <5>2
      <4> QED
        BY <1>o, <4>1 DEF Commit
    <3>4. Covered(p, o + 1)'
      BY <1>1, <1>7, <3>3
    <3> QED
      BY <3>2, <3>4 DEF Covered
  <2> QED
    BY <2>1, <2>2
<1>10. ASSUME NEW q \in Partition, owner'[q] \in Alive' \cap members'
       PROVE  Covered(q, position[q])'
  <2>1. owner[q] \in Alive \cap members
    BY <1>1, <1>10 DEF Alive, Exit, TypeInv, TypeOK
  <2>2. CASE q # p
    <3>1. PICK n \in Nat : n = position[q]
      BY <1>4
    <3>2. Covered(q, n)'
      BY <1>3, <2>1, <3>1 DEF CoverInv
    <3> QED
      BY <1>5, <2>2, <3>1, <3>2 DEF Covered
  <2>3. CASE q = p
    <3>1. ~Exit(c)
      BY <1>1, <1>10, <2>3 DEF Alive, Exit, TypeInv, TypeOK
    <3>2. Covered(p, o + 1)'
      BY <1>1, <1>7, <3>1
    <3> QED
      BY <1>5, <2>3, <3>2 DEF Covered
  <2> QED
    BY <2>2, <2>3
<1> QED
  BY <1>8, <1>9, <1>10 DEF CoverInv

LEMMA CoverStep ==
  ASSUME TypeInv, TypeInv', CoverInv, [Next]_vars
  PROVE  CoverInv'
<1>0. /\ \A p \in Partition : head[p] <= head[p] /\ head[p] \in Nat /\ committed[p] \in Nat
      /\ \A i \in DOMAIN commits : commits[i].partition \in Partition /\ commits[i].offset \in Nat
  BY Offsets, CommitsInTopic DEF TypeInv
<1>1. ASSUME NEW c \in Consumer, Start(c) \/ HandleSignal(c) \/ Close(c) \/ Die(c)
      PROVE  CoverInv'
  <2>1. UNCHANGED <<owner, position, commits, committed, head, seen>>
    BY <1>1 DEF Start, HandleSignal, Close, Die, group
  <2>2. Alive' \cap members' \subseteq Alive \cap members
    BY <1>1 DEF Start, HandleSignal, Close, Die, Exit, group, Alive, TypeInv, TypeOK
  <2> QED
    BY <1>0, <2>1, <2>2, CoverUnchanged
<1>2. ASSUME NEW c \in Consumer, NEW p \in Partition, Consume(c, p)
      PROVE  CoverInv'
  BY <1>2, CoverWhenConsumed
<1>3. ASSUME NEW p \in Partition, ResetPosition(p)
      PROVE  CoverInv'
  <2>1. /\ UNCHANGED <<phase, members, owner, commits, committed, head, seen>>
        /\ position' = [position EXCEPT ![p] = head[p]]
    BY <1>3 DEF ResetPosition, process
  <2>2. \A q \in Partition : position'[q] = (IF q = p THEN head[p] ELSE position[q])
    BY <2>1 DEF TypeInv
  <2>3. \A q \in Partition : owner[q] \in Alive \cap members => Covered(q, position[q])'
    BY <1>0, <2>1, <2>2 DEF CoverInv, Covered
  <2>4. /\ \A q \in Partition : Covered(q, committed[q])'
        /\ \A i \in DOMAIN commits' : Covered(commits[i].partition, commits[i].offset)'
    BY <2>1 DEF CoverInv, Covered
  <2> QED
    BY <2>1, <2>3, <2>4 DEF CoverInv, Alive
<1>4. ASSUME NEW p \in Partition, Expire(p)
      PROVE  CoverInv'
  <2>1. UNCHANGED <<phase, members, owner, position, commits, committed, seen>>
        /\ head' = [head EXCEPT ![p] = @ + 1]
    BY <1>4 DEF Expire, process, group
  <2>2. \A q \in Partition : head[q] <= head'[q]
    BY <1>0, <2>1 DEF TypeInv
  <2> QED
    BY <2>1, <2>2, CoverUnchanged DEF Alive
<1>5. CASE Rebalance
  <2>1. /\ UNCHANGED <<committed, head, seen>> /\ commits' = <<>>
        /\ position' = [p \in Partition |-> committed[p]]
    BY <1>5 DEF Rebalance, FirstPosition, RemainingCommits
  <2>2. DOMAIN commits' = {} /\ \A p \in Partition : position'[p] = committed[p]
    BY <2>1
  <2>3. \A p \in Partition : Covered(p, committed[p])' /\ Covered(p, position[p])'
    BY <2>1, <2>2 DEF CoverInv, Covered
  <2> QED
    BY <2>2, <2>3 DEF CoverInv
<1>6. CASE CommitArrives
  <2>1. /\ UNCHANGED <<phase, members, owner, position, head, seen>>
        /\ commits # <<>> /\ commits' = Tail(commits)
        /\ committed' = [committed EXCEPT ![commits[1].partition] = commits[1].offset]
    <3>1. commits # <<>> /\ commits' = Tail(commits)
      BY <1>6 DEF CommitArrives
    <3>2. Head(commits) = commits[1]
      BY <3>1, CommitsShrink
    <3> QED
      BY <1>6, <3>1, <3>2 DEF CommitArrives, process, group
  <2>2. /\ 1 \in DOMAIN commits
        /\ \A i \in DOMAIN commits' : i + 1 \in DOMAIN commits /\ commits'[i] = commits[i + 1]
    BY <2>1, CommitsShrink
  <2>3. \A q \in Partition : \/ committed'[q] = committed[q]
                             \/ commits[1].partition = q /\ committed'[q] = commits[1].offset
    BY <2>1 DEF TypeInv
  <2>4. \A q \in Partition : Covered(q, committed[q])'
    BY <2>1, <2>2, <2>3 DEF CoverInv, Covered
  <2>5. \A i \in DOMAIN commits' : Covered(commits[i].partition, commits[i].offset)'
    BY <2>1, <2>2 DEF CoverInv, Covered
  <2>6. \A q \in Partition : owner'[q] \in Alive' \cap members' => Covered(q, position[q])'
    BY <2>1 DEF CoverInv, Covered, Alive
  <2> QED
    BY <2>4, <2>5, <2>6 DEF CoverInv
<1>7. CASE CommitLost
  <2>1. /\ UNCHANGED <<phase, members, owner, position, committed, head, seen>>
        /\ commits # <<>> /\ commits' = Tail(commits)
    BY <1>7 DEF CommitLost, process, group
  <2>2. \A i \in DOMAIN commits' : \E j \in DOMAIN commits : commits'[i] = commits[j]
    BY <2>1, CommitsShrink
  <2> QED
    BY <1>0, <2>1, <2>2, CoverUnchanged DEF Alive
<1>8. CASE UNCHANGED vars
  BY <1>0, <1>8, CoverUnchanged DEF vars, process, group, Alive
<1> QED
  BY <1>1, <1>2, <1>3, <1>4, <1>5, <1>6, <1>7, <1>8 DEF Next

-----------------------------------------------------------------------------
(* The theorems *)

LEMMA Invariance == Spec => []IInv
<1>1. IInv /\ [Next]_vars => IInv'
  <2> SUFFICES ASSUME IInv, [Next]_vars PROVE IInv'
    OBVIOUS
  <2>1. TypeInv /\ OffsetInv /\ CoverInv
    BY DEF IInv
  <2>2. TypeInv' /\ OffsetInv'
    BY <2>1, TypeStep, OffsetStep
  <2>3. CoverInv'
    BY <2>1, <2>2, CoverStep
  <2> QED
    BY <2>2, <2>3 DEF IInv
<1> QED
  BY <1>1, InitInv, PTL DEF Spec

\* The group's state keeps its types, no process counts past --max-messages, and
\* no offset leaves the topic.
THEOREM GroupTypes == Spec => []TypeOK
<1>1. IInv => TypeOK
  BY DEF IInv, TypeInv
<1> QED
  BY <1>1, Invariance, PTL

\* Manual commits: whatever crashes, is lost, arrives late or changes hands, the
\* group leaves behind only what somebody has seen or what has expired.
THEOREM GroupSkipsNothing == Spec => []NoneSkipped
<1>1. IInv => NoneSkipped
  <2> SUFFICES ASSUME IInv, NEW p \in Partition, NEW o \in 0..committed[p] - 1, o >= head[p]
               PROVE  <<p, o>> \in seen
    BY DEF NoneSkipped
  <2>1. committed[p] \in Nat /\ head[p] \in Nat
    BY Offsets DEF IInv
  <2>2. o \in Nat /\ head[p] <= o /\ o < committed[p]
    BY <2>1
  <2>3. Covered(p, committed[p])
    BY DEF IInv, CoverInv
  <2> QED
    BY <2>2, <2>3 DEF Covered
<1> QED
  BY <1>1, Invariance, PTL

\* Asynchronous commits, taken over and repeated by other consumers, never move
\* the group's offset of a partition back.
THEOREM GroupMovesForward == Spec => CommitsMoveForward
<1>1. IInv /\ [Next]_vars => [\A p \in Partition : committed'[p] >= committed[p]]_vars
  <2> SUFFICES ASSUME IInv, [Next]_vars, NEW p \in Partition
               PROVE  committed'[p] >= committed[p]
    OBVIOUS
  <2>0. committed[p] \in Nat /\ commits \in Seq(Request) /\ committed \in [Partition -> Nat]
    BY Offsets DEF IInv, TypeInv
  <2>1. CASE committed' = committed
    BY <2>0, <2>1
  <2>2. CASE CommitArrives
    <3>1. /\ commits # <<>>
          /\ committed' = [committed EXCEPT ![commits[1].partition] = commits[1].offset]
      <4>1. Head(commits) = commits[1]
        OBVIOUS
      <4> QED
        BY <2>2, <4>1 DEF CommitArrives
    <3>2. 1 \in DOMAIN commits /\ commits[1].offset \in Nat
      <4>1. 1 \in DOMAIN commits
        BY <2>0, <3>1
      <4> QED
        BY <2>0, <4>1, CommitsInTopic
    <3>3. committed[commits[1].partition] <= commits[1].offset
      BY <3>2 DEF IInv, OffsetInv
    <3>4. committed'[p] = (IF p = commits[1].partition THEN commits[1].offset ELSE committed[p])
      BY <2>0, <3>1
    <3> QED
      BY <2>0, <3>2, <3>3, <3>4
  <2> QED
    BY <2>1, <2>2
    DEF Next, Start, HandleSignal, Close, Die, Consume, ResetPosition, Expire, Rebalance,
        CommitLost, vars
<1> QED
  BY <1>1, Invariance, PTL DEF Spec, CommitsMoveForward
=============================================================================
