---------------------------- MODULE DebugConsumer ----------------------------
(***************************************************************************)
(* kafka/consumer.py: debug consumers of one consumer group reading the    *)
(* transaction topic.  A consumer commits each record it has parsed,       *)
(* asynchronously; offsets are 0-based and the committed offset of a       *)
(* partition is the next one to read.  Expiry is Kafka's, membership and   *)
(* assignment the group coordinator's.                                     *)
(***************************************************************************)
EXTENDS Naturals, Sequences

CONSTANTS
  Consumer,     \* the processes
  MaxMessages,  \* --max-messages of each, 0 for unlimited
  Partition,
  Content,      \* for each partition, the messages in it
  MaxStarts     \* bound: processes started

\* "record" is a JSON object, "malformed" no JSON; a "poison" message raises
\* anything but JSONDecodeError: no value, no UTF-8, or JSON that is no object.
Message == {"record", "malformed", "poison"}

ASSUME ConsumerAssumption ==
  /\ Consumer # {} /\ MaxMessages \in [Consumer -> Nat]
  /\ Content \in [Partition -> Seq(Message)]
  /\ MaxStarts \in Nat

VARIABLES
  phase,      \* of each process
  running,    \* _running of each process
  count,      \* message_count of each process
  members,    \* the group as the coordinator last saw it
  owner,      \* whom it assigned each partition to
  position,   \* the offset the owner reads next
  commits,    \* OffsetCommit requests under way, in the order sent
  committed,  \* the group's offsets
  head,       \* first offset of each partition that has not expired
  starts,
  seen        \* history: the messages that went into somebody's statistics

process == <<phase, running, count>>
group == <<members, owner, position>>
vars == <<process, group, commits, committed, head, starts, seen>>

End(p) == Len(Content[p])
Offset(p) == 0..End(p)

TypeOK ==
  /\ phase \in [Consumer -> {"off", "polling"}]
  /\ running \in [Consumer -> BOOLEAN]
  /\ count \in [Consumer -> Nat]
  /\ \A c \in Consumer : MaxMessages[c] > 0 => count[c] <= MaxMessages[c]
  /\ members \subseteq Consumer
  /\ owner \in [Partition -> Consumer]
  /\ \A p \in Partition : {position[p], committed[p], head[p]} \subseteq Offset(p)
  /\ \A i \in DOMAIN commits : commits[i].partition \in Partition
                            /\ commits[i].offset \in Offset(commits[i].partition)
  /\ starts \in 0..MaxStarts
  /\ \A s \in seen : s[1] \in Partition /\ s[2] \in 0..End(s[1]) - 1

Init ==
  /\ phase = [c \in Consumer |-> "off"]
  /\ running = [c \in Consumer |-> TRUE]
  /\ count = [c \in Consumer |-> 0]
  /\ members = {}
  /\ owner = [p \in Partition |-> CHOOSE c \in Consumer : TRUE]
  /\ position = [p \in Partition |-> 0]
  /\ commits = <<>>
  /\ committed = [p \in Partition |-> 0]
  /\ head = [p \in Partition |-> 0]
  /\ starts = 0
  /\ seen = {}

Alive == {c \in Consumer : phase[c] = "polling"}

-----------------------------------------------------------------------------
(* Processes *)

\* A new process is a new member, which has yet to join.
Start(c) ==
  /\ phase[c] = "off" /\ starts < MaxStarts
  /\ phase' = [phase EXCEPT ![c] = "polling"]
  /\ starts' = starts + 1
  /\ members' = members \ {c}
  /\ UNCHANGED <<running, count, owner, position, commits, committed, head, seen>>

\* SIGINT or SIGTERM.  One that comes during poll() is one that comes after the
\* message poll() returns.
HandleSignal(c) ==
  /\ phase[c] = "polling"
  /\ running' = [running EXCEPT ![c] = FALSE]
  /\ UNCHANGED <<phase, count, group, commits, committed, head, starts, seen>>

Continues(c) == running[c] /\ (MaxMessages[c] = 0 \/ count[c] < MaxMessages[c])

\* With the process its memory goes.
Exit(c) ==
  /\ phase' = [phase EXCEPT ![c] = "off"]
  /\ running' = [running EXCEPT ![c] = TRUE]
  /\ count' = [count EXCEPT ![c] = 0]

Close(c) ==
  /\ phase[c] = "polling" /\ ~Continues(c)
  /\ Exit(c)
  /\ UNCHANGED <<group, commits, committed, head, starts, seen>>

\* A kill, or an error poll() returns and the loop raises.
Die(c) ==
  /\ phase[c] = "polling"
  /\ Exit(c)
  /\ UNCHANGED <<group, commits, committed, head, starts, seen>>

CommitAtOnce(p, o) == <<[partition |-> p, offset |-> o + 1]>>
CommitNext(p, o) ==
  IF Content[p][o + 1] = "record" THEN <<[partition |-> p, offset |-> o + 2]>> ELSE <<>>

\* Only a record is counted and committed; a malformed message is counted as a
\* parse error; on a poison message the process closes its consumer and fails.
Commit(p, o) ==
  IF Content[p][o + 1] = "record" THEN <<[partition |-> p, offset |-> o + 1]>> ELSE <<>>

Consume(c, p) ==
  LET o == position[p]
      message == Content[p][o + 1] IN
    /\ phase[c] = "polling" /\ Continues(c)
    /\ c \in members /\ owner[p] = c
    /\ o < End(p) /\ o >= head[p]
    /\ position' = [position EXCEPT ![p] = o + 1]
    /\ commits' = commits \o Commit(p, o)
    /\ \/ message = "poison" /\ Exit(c) /\ seen' = seen
       \/ /\ message # "poison"
          /\ seen' = seen \cup {<<p, o>>}
          /\ count' = IF message = "record" THEN [count EXCEPT ![c] = @ + 1] ELSE count
          /\ UNCHANGED <<phase, running>>
    /\ UNCHANGED <<members, owner, committed, head, starts>>

\* auto.offset.reset: the offset has expired.
ResetPosition(p) ==
  /\ owner[p] \in Alive \cap members /\ position[p] < head[p]
  /\ position' = [position EXCEPT ![p] = head[p]]
  /\ UNCHANGED <<process, members, owner, commits, committed, head, starts, seen>>

-----------------------------------------------------------------------------
(* The group coordinator and the broker *)

\* auto.offset.reset = earliest; nothing committed is 0 here.
FromLatest(p) == IF committed[p] = 0 THEN End(p) ELSE committed[p]
FirstPosition(p) == committed[p]

AllCommits == commits
RemainingCommits == <<>>

\* A join, a leave or a session timeout: a new generation.  Every partition is
\* read from its committed offset; commits of the old generation are refused.
Rebalance ==
  /\ Alive # {}
  /\ members # Alive \/ \E p \in Partition : owner[p] \notin members
  /\ members' = Alive
  /\ owner' \in [Partition -> Alive]
  /\ position' = [p \in Partition |-> FirstPosition(p)]
  /\ commits' = RemainingCommits
  /\ UNCHANGED <<process, committed, head, starts, seen>>

CommitArrives ==
  /\ commits # <<>>
  /\ committed' = [committed EXCEPT ![Head(commits).partition] = Head(commits).offset]
  /\ commits' = Tail(commits)
  /\ UNCHANGED <<process, group, head, starts, seen>>

\* Nobody looks at the result of commit(msg).
CommitLost ==
  /\ commits # <<>>
  /\ commits' = Tail(commits)
  /\ UNCHANGED <<process, group, committed, head, starts, seen>>

Expire(p) ==
  /\ head[p] < End(p)
  /\ head' = [head EXCEPT ![p] = @ + 1]
  /\ UNCHANGED <<process, group, commits, committed, starts, seen>>

-----------------------------------------------------------------------------
Next ==
  \/ \E c \in Consumer : Start(c) \/ HandleSignal(c) \/ Close(c) \/ Die(c)
  \/ \E c \in Consumer, p \in Partition : Consume(c, p)
  \/ \E p \in Partition : ResetPosition(p) \/ Expire(p)
  \/ Rebalance \/ CommitArrives \/ CommitLost

Spec == Init /\ [][Next]_vars

\* The loop goes on while its process lives, and the coordinator notices who
\* joined and who left.
Fairness ==
  /\ \A c \in Consumer : WF_vars(Close(c)) /\ WF_vars(\E p \in Partition : Consume(c, p))
  /\ \A p \in Partition : WF_vars(ResetPosition(p))
  /\ WF_vars(Rebalance)

FairSpec == Spec /\ Fairness

-----------------------------------------------------------------------------
(* Safety *)

\* "manual commit for safety": what the group has put behind it went into
\* somebody's statistics or had expired - whoever crashed, whatever commit was
\* lost or late, whoever got the partition.
NoneSkipped ==
  \A p \in Partition : \A o \in 0..committed[p] - 1 : o >= head[p] => <<p, o>> \in seen

\* The group's offsets never go back, though consumers that take a partition
\* over read records again and commit them again.
CommitsMoveForward ==
  [][\A p \in Partition : committed'[p] >= committed[p]]_vars

-----------------------------------------------------------------------------
(* Liveness *)

\* A consumer that stays means that everything is read or expires first.  (Where
\* a poison message is, nobody stays.)
StayingReadsAll ==
  \A c \in Consumer :
    <>[](phase[c] = "polling") =>
      <>(\A p \in Partition : \A o \in 0..End(p) - 1 : o < head[p] \/ <<p, o>> \in seen)
=============================================================================
