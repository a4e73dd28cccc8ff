---------------------------- MODULE Ip4Fragments ----------------------------
(***************************************************************************)
(* js/core/net/ip4-fragments.js: the fragments of IP datagrams arrive in   *)
(* any order, overlapping and duplicated, and are put together again.      *)
(* A datagram is named by its hash; unit k of its payload is k.  Every     *)
(* fragment carries a part of the payload, and those that reach the end    *)
(* say that no more follow.  A hash is in Reused if its 16 bits of         *)
(* identification are used again while fragments of an earlier datagram    *)
(* may still be there: the lengths of its datagrams differ.                *)
(*                                                                         *)
(* A fragment in a queue is [begin, len, next, first]: the buffer of the   *)
(* packet it came in starts with unit first, and what is used of it starts *)
(* next units into the buffer.                                             *)
(***************************************************************************)
EXTENDS Integers, Sequences, FiniteSetsExt

CONSTANTS Datagram, Reused,
          Lengths,     \* of payloads, in units
          MAX_COUNT,   \* FRAGMENT_QUEUE_MAX_COUNT, 100 in the code
          NONE

MaxEnd == 65535   \* 0xffff, line 66

ASSUME FragmentAssumption ==
  /\ Reused \subseteq Datagram
  /\ Lengths # {} /\ Lengths \subseteq 1 .. MaxEnd
  /\ MAX_COUNT \in Nat \ {0}

Fragment == [begin : Int, len : Int, next : Int, first : Int]

FragmentQueue ==
  [receivedLength : Int, totalLength : Int, fragments : Seq(Fragment \cup {NONE})]

\* What is left of the fragment that arrived: units offset .. end - 1, the first
\* of them next units into its buffer
Part == [offset : Int, end : Int, next : Int]

ASSUME NullAssumption == NONE \notin Fragment \cup FragmentQueue \cup Part

VARIABLES queue,     \* intf.fragments; NONE when there is no queue
          delivered  \* what ip4receive was called with in this step, or NONE

fragmentVars == <<queue, delivered>>

LengthsOf(d) == IF d \in Reused THEN Lengths ELSE {Max(Lengths)}

Queues == {d \in Datagram : queue[d] # NONE}

FragmentsInit == queue = [d \in Datagram |-> NONE] /\ delivered = NONE

EmptyQueue == [receivedLength |-> 0, totalLength |-> 0, fragments |-> <<>>]

End(f) == f.begin + f.len

\* Mutant: the data offset does not follow the trimmed front.
CutFront_KeepsNext(new, end) == [new EXCEPT !.offset = end]

\* Lines 93-96
CutFront(new, end) == [new EXCEPT !.offset = end, !.next = @ + (end - new.offset)]

\* One round of lines 75-102; NONE says that addFragment has returned.
Trim(new, f) ==
  LET overlapOffset == new.offset >= f.begin /\ new.offset <= End(f)
      overlapEnd == new.end >= f.begin /\ new.end <= End(f)
      front == IF overlapOffset /\ new.offset < End(f) THEN CutFront(new, End(f)) ELSE new
  IN  IF new = NONE \/ f = NONE THEN new
      ELSE IF overlapOffset /\ overlapEnd THEN NONE
      ELSE IF overlapEnd /\ new.end > f.begin THEN [front EXCEPT !.end = f.begin]
      ELSE front

\* The new fragment after each round
TrimRounds(new, fragments) ==
  LET after[i \in 0 .. Len(fragments)] ==
        IF i = 0 THEN new ELSE Trim(after[i - 1], fragments[i])
  IN  after

\* Mutant: old fragments that reach to the end of the new one are kept.
Covers_Strictly(new, f) ==
  /\ f # NONE
  /\ f.begin >= new.offset /\ f.begin <= new.end
  /\ End(f) >= new.offset /\ End(f) < new.end

\* Line 119
Covers(new, f) ==
  /\ f # NONE
  /\ f.begin >= new.offset /\ f.begin <= new.end
  /\ End(f) >= new.offset /\ End(f) <= new.end

\* One round of lines 109-125; r has the queue, and the last place that became free.
RemoveOne(r, new, i) ==
  LET f == r.q.fragments[i] IN
  IF ~Covers(new, f) THEN r
  ELSE [q |-> [r.q EXCEPT !.fragments[i] = NONE, !.receivedLength = @ - f.len],
        removedIndex |-> i]

\* The queue after each round
RemoveRounds(q, new) ==
  LET after[i \in 0 .. Len(q.fragments)] ==
        IF i = 0 THEN [q |-> q, removedIndex |-> 0] ELSE RemoveOne(after[i - 1], new, i)
  IN  after

\* Mutant: what was removed still counts.
Stored_Counts(q, new, first) ==
  [q EXCEPT !.fragments = Append(@, [begin |-> new.offset, len |-> new.end - new.offset,
                                     next |-> new.next, first |-> first]),
            !.receivedLength = @ + new.end - new.offset]

\* Lines 107-138
Stored(q, new, first) ==
  LET rest == RemoveRounds(q, new)[Len(q.fragments)]
      fragment == [begin |-> new.offset, len |-> new.end - new.offset,
                   next |-> new.next, first |-> first]
  IN  [rest.q EXCEPT !.fragments = IF rest.removedIndex = 0 THEN Append(@, fragment)
                                   ELSE [@ EXCEPT ![rest.removedIndex] = fragment],
                     !.receivedLength = @ + fragment.len]

\* Lines 154-167: the units of the new buffer; the last fragment written wins.
Assembled(q) ==
  [k \in 0 .. q.totalLength - 1 |->
     LET covering == {i \in DOMAIN q.fragments :
                        /\ q.fragments[i] # NONE
                        /\ k \in q.fragments[i].begin .. End(q.fragments[i]) - 1}
         f == q.fragments[Max(covering)]
     IN  IF covering = {} THEN NONE ELSE f.first + f.next + (k - f.begin)]

\* Line 153
Complete(q) == q.totalLength = q.receivedLength

\* Uint8Array.set (line 166) throws a RangeError for a fragment after the end.
Throws(q) ==
  \E i \in DOMAIN q.fragments :
    q.fragments[i] # NONE /\ End(q.fragments[i]) > q.totalLength

\* Lines 140-171
Finish(d, q, end, isMoreFragments) ==
  LET sized == IF isMoreFragments THEN q ELSE [q EXCEPT !.totalLength = end] IN
  IF ~isMoreFragments /\ q.totalLength > end   \* Wrong len
  THEN /\ queue' = IF queue[d] = NONE THEN queue ELSE [queue EXCEPT ![d] = q]
       /\ delivered' = NONE
  ELSE IF Complete(sized) /\ ~Throws(sized)
  THEN /\ queue' = [queue EXCEPT ![d] = NONE]
       /\ delivered' = [datagram |-> d, units |-> Assembled(sized)]
  ELSE queue' = [queue EXCEPT ![d] = sized] /\ delivered' = NONE

\* Line 45
MayStart == Cardinality(Queues) < MAX_COUNT

addFragment(d, fragmentOffset, fragmentEnd, isMoreFragments) ==
  LET q == IF queue[d] = NONE THEN EmptyQueue ELSE queue[d]
      whole == [offset |-> fragmentOffset, end |-> fragmentEnd, next |-> 0]
      new == TrimRounds(whole, q.fragments)[Len(q.fragments)]
  IN  IF (queue[d] = NONE /\ ~MayStart) \/ new = NONE
      THEN delivered' = NONE /\ UNCHANGED queue
      ELSE Finish(d, Stored(q, new, fragmentOffset), fragmentEnd, isMoreFragments)

\* The queues in old are older than FRAGMENT_QUEUE_MAX_AGE_MS.
tick(old) ==
  /\ old # {}
  /\ queue' = [d \in Datagram |-> IF d \in old THEN NONE ELSE queue[d]]
  /\ delivered' = NONE

FragmentsNext ==
  \/ \E d \in Datagram : \E size \in LengthsOf(d) :
       \E from \in 0 .. size - 1 : \E to \in from + 1 .. size :
         addFragment(d, from, to, to # size)
  \/ \E old \in SUBSET Queues : tick(old)

FragmentsSpec == FragmentsInit /\ [][FragmentsNext]_fragmentVars

-----------------------------------------------------------------------------
UnitsOf(f) == f.begin .. End(f) - 1

Held(d) == {queue[d].fragments[i] : i \in DOMAIN queue[d].fragments} \ {NONE}

Covered(d) == UNION {UnitsOf(f) : f \in Held(d)}

\* Unless its identification is used again: whatever the order of arrival, the overlaps and the duplicates, a datagram
\* that is passed on (line 170) is the one that was sent, without a gap and every
\* unit taken from the right place of the right packet.
DeliveredIntact ==
  (delivered # NONE /\ delivered.datagram \notin Reused) =>
    delivered.units = [k \in 0 .. Max(Lengths) - 1 |-> k]

\* The fragments kept for a datagram never overlap and receivedLength is what
\* they cover, so that line 153 may compare two numbers to see that all is there;
\* this also when fragments of datagrams of different lengths meet in a queue.
ReceivedLengthExact ==
  \A d \in Queues :
    /\ \A f, g \in Held(d) : f # g => UnitsOf(f) \cap UnitsOf(g) = {}
    /\ queue[d].receivedLength = Cardinality(Covered(d))

\* Unless its identification is used again, no datagram waits although all of it
\* has arrived: it would be dropped by the timer (lines 180-191).
NoCompleteQueueWaits == \A d \in Queues \ Reused : Covered(d) # 0 .. Max(Lengths) - 1
=============================================================================
