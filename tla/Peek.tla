-------------------------------- MODULE Peek --------------------------------
(***************************************************************************)
(* What an owner sees of a stream's content: streams/peek.py, as           *)
(* GET /api/streams/{id}/peek and the flow badges call it, while Cribl     *)
(* writes to the stream and its consumer reads it.                         *)
(*                                                                         *)
(* A Kinesis peek pages through the shard from its oldest record; the      *)
(* producer writes and old records go, between any two of its calls.       *)
(* An SQS peek receives messages that the consumer is waiting for.         *)
(***************************************************************************)
EXTENDS Naturals, Sequences, FiniteSets, SequencesExt

CONSTANTS
    Bodies,       \* what a record may hold: sequences of lines, in turn
    Limits,       \* the limits that the callers ask for (5 and 50)
    MaxPages,     \* GetRecords calls of one peek (5)
    PageSize,     \* records of one call at most (1000)
    MaxMessages,  \* messages of one ReceiveMessage at most (10)
    MaxRecords

Line == {"header", "blank", "event", "junk"}

ASSUME PeekAssumption ==
    /\ Bodies \in Seq(Seq(Line)) /\ Bodies # <<>>
    /\ Limits \subseteq Nat \ {0} /\ Limits # {}
    /\ MaxPages \in Nat \ {0}
    /\ PageSize \in Nat /\ MaxMessages \in Nat /\ MaxRecords \in Nat

VARIABLES
    type,         \* the stream's type
    gone,         \* the stream has been deleted
    oldest,       \* Kinesis: the shard holds the records oldest..newest
    newest,
    queue,        \* SQS: the messages
    hidden,       \* those in flight: <<message, who received it>>
    peek          \* the call of peek

vars == <<type, gone, oldest, newest, queue, hidden, peek>>
streamVars == <<type, gone, oldest, newest, queue, hidden>>

Records == 1..MaxRecords

\* The events of a record: the header of a batch and blank lines are dropped,
\* a line that is no JSON is kept as it is.
DecodeEvents(r) ==
    LET body == Bodies[1 + (r % Len(Bodies))]
    IN FlattenSeq([k \in 1..Len(body) |->
                     IF body[k] \in {"event", "junk"} THEN << <<r, k>> >> ELSE <<>>])

\* The events of some records, in order.
EventsOf(records) ==
    FlattenSeq([r \in 1..MaxRecords |->
                  IF r \in records THEN DecodeEvents(r) ELSE <<>>])

Events == Records \X Nat

\* Mutant: events[-limit - 1:].
LastButOne(s, n) == IF Len(s) <= n THEN s ELSE SubSeq(s, Len(s) - n, Len(s))

\* events[-limit:]
LastOf(s, n) == IF Len(s) <= n THEN s ELSE SubSeq(s, Len(s) - n + 1, Len(s))

Peeking == [pc: {"idle", "describe", "iterator", "read", "receive", "answer", "failed"},
            limit: Limits,
            next: Nat,              \* the iterator: the record it stands at
            left: 0..MaxPages,      \* calls left (a peek without a bound
                                    \* would count them round and round)
            events: Seq(Events),
            seen: SUBSET Records]   \* history: the shard at the last call
Idle == [pc |-> "idle", limit |-> CHOOSE n \in Limits : TRUE, next |-> 0,
         left |-> MaxPages, events |-> <<>>, seen |-> {}]

TypeOK ==
    /\ type \in {"kinesis", "sqs"}
    /\ gone \in BOOLEAN
    /\ oldest \in 1..(MaxRecords + 1) /\ newest \in 0..MaxRecords
    /\ queue \subseteq Records
    /\ hidden \subseteq queue \X {"consumer", "peek"}
    /\ peek \in Peeking
    /\ peek.pc = "answer" => Len(peek.events) <= peek.limit

Init ==
    /\ type \in {"kinesis", "sqs"}
    /\ gone = FALSE
    /\ oldest = 1 /\ newest = 0
    /\ queue = {} /\ hidden = {}
    /\ peek = Idle

At(pc) == peek.pc = pc
Shard == oldest..newest
Visible == queue \ {h[1] : h \in hidden}

-----------------------------------------------------------------------------
(* The call of peek *)

Start(n) ==
    /\ At("idle")
    /\ peek' = [Idle EXCEPT !.limit = n,
                  !.pc = IF type = "kinesis" THEN "describe" ELSE "receive"]
    /\ UNCHANGED streamVars

DescribeStream ==
    /\ At("describe") /\ ~gone
    /\ peek' = [peek EXCEPT !.pc = "iterator"]
    /\ UNCHANGED streamVars

\* TRIM_HORIZON
GetShardIterator ==
    /\ At("iterator") /\ ~gone
    /\ peek' = [peek EXCEPT !.pc = "read", !.next = oldest]
    /\ UNCHANGED streamVars

Larger(a, b) == IF a > b THEN a ELSE b

\* Mutants: a page without records ends the loop; the loop has no bound; each
\* page is asked for with the first iterator.
UntilEmpty(n, behind) == n > 0 /\ behind /\ peek.left > 1
Unbounded(n, behind) == behind
FromTheStart(r) == peek.next

\* The loop goes on while there is more to read, for MaxPages calls.
GoesOn(n, behind) == behind /\ peek.left > 1
\* NextShardIterator
After(r) == r

\* Up to PageSize records, perhaps fewer or none although there are more;
\* MillisBehindLatest tells whether there are.  A shard that is closed has no
\* next iterator at its end, which ends the loop as well.
GetRecords ==
    /\ At("read") /\ ~gone
    /\ \E n \in 0..PageSize :
         LET from == Larger(peek.next, oldest)
             behind == from + n <= newest
         IN /\ from + n <= newest + 1
            /\ peek' = [peek EXCEPT
                 !.pc = IF GoesOn(n, behind) THEN "read" ELSE "answer",
                 !.next = After(from + n),
                 !.left = IF @ = 0 THEN MaxPages ELSE @ - 1,
                 !.seen = Shard,
                 !.events = LET all == @ \o EventsOf(from..(from + n - 1))
                            IN IF GoesOn(n, behind) THEN all
                               ELSE LastOf(all, peek.limit)]
    /\ UNCHANGED streamVars

\* Mutant: ReceiveMessage with the queue's own visibility timeout.
Hide(got) == hidden' = hidden \cup (got \X {"peek"})

\* VisibilityTimeout = 0
LeaveVisible(got) == UNCHANGED hidden

\* Some of the messages that nobody has in flight.
ReceiveMessage ==
    /\ At("receive") /\ ~gone
    /\ \E got \in SUBSET Visible :
         /\ Cardinality(got) <= MaxMessages /\ Cardinality(got) <= peek.limit
         /\ peek' = [peek EXCEPT !.pc = "answer",
                       !.events = LastOf(EventsOf(got), peek.limit)]
         /\ LeaveVisible(got)
    /\ UNCHANGED <<type, gone, oldest, newest, queue>>

\* Any of the calls fails, as each does once the stream is gone: a 502.
Fails ==
    /\ peek.pc \in {"describe", "iterator", "read", "receive"}
    /\ peek' = [Idle EXCEPT !.pc = "failed"]
    /\ UNCHANGED streamVars

Return ==
    /\ At("answer") \/ At("failed")
    /\ peek' = Idle
    /\ UNCHANGED streamVars

-----------------------------------------------------------------------------
(* The stream: Cribl writes, the consumer reads, the owner deletes it *)

Write ==
    /\ ~gone /\ newest < MaxRecords
    /\ newest' = newest + 1
    /\ queue' = IF type = "sqs" THEN queue \cup {newest + 1} ELSE queue
    /\ UNCHANGED <<type, gone, oldest, hidden, peek>>

\* A Kinesis record reaches the end of its retention.
Trim ==
    /\ type = "kinesis" /\ oldest <= newest
    /\ oldest' = oldest + 1
    /\ UNCHANGED <<type, gone, newest, queue, hidden, peek>>

Consume(m) ==
    /\ m \in Visible
    /\ hidden' = hidden \cup {<<m, "consumer">>}
    /\ UNCHANGED <<type, gone, oldest, newest, queue, peek>>

Delete(m) ==
    /\ <<m, "consumer">> \in hidden
    /\ queue' = queue \ {m} /\ hidden' = hidden \ {<<m, "consumer">>}
    /\ UNCHANGED <<type, gone, oldest, newest, peek>>

\* Nobody has deleted it in time.
Reappear(m) ==
    /\ m \in queue \ Visible
    /\ hidden' = {h \in hidden : h[1] # m}
    /\ UNCHANGED <<type, gone, oldest, newest, queue, peek>>

DeleteStream ==
    /\ ~gone
    /\ gone' = TRUE
    /\ queue' = {} /\ hidden' = {}
    /\ UNCHANGED <<type, oldest, newest, peek>>

Step == DescribeStream \/ GetShardIterator \/ GetRecords \/ ReceiveMessage \/ Return

Next ==
    \/ \E n \in Limits : Start(n)
    \/ Step \/ Fails
    \/ Write \/ Trim \/ DeleteStream
    \/ \E m \in Records : Consume(m) \/ Delete(m) \/ Reappear(m)

Spec == Init /\ [][Next]_vars

\* The request's thread runs, and a call on a stream that is gone does fail; no
\* other failure can be counted on.  The consumer polls, and does not fail for
\* ever on a message that it gets again and again.
FairSpec ==
    /\ Spec
    /\ WF_vars(Step \/ (gone /\ Fails))
    /\ \A m \in Records : WF_vars(Consume(m)) /\ SF_vars(Delete(m))

-----------------------------------------------------------------------------
(* Properties *)

Suffix(s, t) == Len(s) <= Len(t) /\ \A i \in 1..Len(s) : s[i] = t[Len(t) - Len(s) + i]

\* A Kinesis peek that stops before its last page ends with the latest events
\* that the shard held at its last call: empty pages, batches without events,
\* records that came or went meanwhile make no difference.
LatestShown ==
    (At("answer") /\ type = "kinesis" /\ peek.left > 0) =>
        Suffix(LastOf(EventsOf(peek.seen), peek.limit), peek.events)

\* However the pages fell, the events are shown in their order, none of them
\* twice, and none is missing between two that are shown unless it is gone.
Before(e, f) == e[1] < f[1] \/ (e[1] = f[1] /\ e[2] < f[2])
Shown == {peek.events[i] : i \in DOMAIN peek.events}
NoGaps ==
    (At("answer") /\ type = "kinesis") =>
        /\ \A i, j \in DOMAIN peek.events :
             i < j => Before(peek.events[i], peek.events[j])
        /\ \A r \in Shard : \A i \in DOMAIN DecodeEvents(r) :
             LET e == DecodeEvents(r)[i]
             IN (\E d, f \in Shown : Before(d, e) /\ Before(e, f)) => e \in Shown

\* Every peek is answered, also when a shard has pages without end to give.
PeekEnds == ~At("idle") ~> At("idle")

\* Owners who watch a queue without end keep no message from its consumer.
ConsumerNotStarved == \A m \in Records : m \in queue ~> m \notin queue
=============================================================================
