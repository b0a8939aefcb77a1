--------------------------- MODULE LivePollProofs ---------------------------
(***************************************************************************)
(* Theorems about LivePoll, for a log of any length and any page ends: the  *)
(* scan and the polling loop process every mapped message once and in       *)
(* order, in rounds, and so implement IngestRounds.                         *)
(***************************************************************************)
EXTENDS LivePoll, SortedSeqProofs

-----------------------------------------------------------------------------
(* The inductive invariant.  What was read is cut at b: the messages up to  *)
(* b were given to the round, in order, those beyond it are prefetched.     *)

MappedIn(a, b) == {i \in a .. b : i \in DOMAIN log /\ log[i]}

RoundCut ==
    IF snapshot_last_seq # None /\ snapshot_last_seq < next_seq
    THEN snapshot_last_seq ELSE next_seq - 1

CutAt(b) ==
    /\ handled \o current_messages = Sorted(MappedIn(1, b))
    /\ prefetched_messages = IF pc = "scan" THEN <<>>
                             ELSE Sorted(MappedIn(b + 1, next_seq - 1))
    /\ snapshot_last_seq # None => b = RoundCut

PagesInv ==
    /\ \E b \in 0 .. next_seq - 1 : CutAt(b)
    /\ snapshot_last_seq = None => current_messages = <<>>
    /\ prefetched_last_seq # None => next_seq - 1 <= prefetched_last_seq
    /\ pc = "start" => /\ next_seq = 1 /\ snapshot_last_seq = None
                       /\ prefetched_last_seq = None
    /\ pc = "scan" => snapshot_last_seq # None /\ prefetched_last_seq = None
    /\ pc = "stopped" /\ snapshot_last_seq # None
         => next_seq <= snapshot_last_seq
    /\ pc = "failed" /\ snapshot_last_seq # None
         => next_seq <= snapshot_last_seq

PollInv == TypeOK /\ PagesInv

-----------------------------------------------------------------------------
(* Mapped messages between two positions, as sets and as sequences.        *)

LEMMA LogFacts ==
    ASSUME TypeOK
    PROVE  /\ Len(log) \in Nat /\ DOMAIN log = 1 .. Len(log)
           /\ next_seq \in Nat /\ 1 <= next_seq /\ next_seq <= Len(log) + 1
           /\ snapshot_last_seq # None =>
                /\ snapshot_last_seq \in Nat
                /\ snapshot_last_seq <= Len(log)
           /\ prefetched_last_seq # None =>
                /\ prefetched_last_seq \in Nat
                /\ prefetched_last_seq <= Len(log)
           /\ None \notin Nat
<1>1. Len(log) \in Nat /\ DOMAIN log = 1 .. Len(log)
  BY LenProperties DEF TypeOK
<1> QED
  BY <1>1, LivePollAssumption DEF TypeOK

LEMMA MappedFinite ==
    ASSUME TypeOK, NEW a \in Nat, NEW b \in Nat
    PROVE  /\ MappedIn(a, b) \in SUBSET Nat /\ IsFiniteSet(MappedIn(a, b))
           /\ MappedIn(a, b) \in SUBSET DOMAIN log
           /\ Sorted(MappedIn(a, b)) \in Seq(DOMAIN log)
<1>1. DOMAIN log \in SUBSET Nat /\ IsFiniteSet(DOMAIN log)
  BY LogFacts, FS_Interval
<1>2. MappedIn(a, b) \in SUBSET DOMAIN log
  BY DEF MappedIn
<1>3. MappedIn(a, b) \in SUBSET Nat /\ IsFiniteSet(MappedIn(a, b))
  BY <1>1, <1>2, FS_Subset
<1>4. Sorted(MappedIn(a, b)) \in Seq(MappedIn(a, b))
  BY <1>3, SortedProperties
<1> QED
  BY <1>2, <1>3, <1>4, SeqMonotonic

LEMMA MappedSplit ==
    ASSUME TypeOK, NEW a \in Nat, NEW b \in Nat, NEW c \in Nat,
           a <= b + 1, b <= c
    PROVE  Sorted(MappedIn(a, c))
             = Sorted(MappedIn(a, b)) \o Sorted(MappedIn(b + 1, c))
<1>1. MappedIn(a, c) = MappedIn(a, b) \cup MappedIn(b + 1, c)
  BY DEF MappedIn
<1>2. \A i \in MappedIn(a, b) : \A j \in MappedIn(b + 1, c) : i < j
  BY DEF MappedIn
<1> QED
  <2>1. b + 1 \in Nat
    OBVIOUS
  <2>2. /\ MappedIn(a, b) \in SUBSET Nat /\ IsFiniteSet(MappedIn(a, b))
        /\ MappedIn(b + 1, c) \in SUBSET Nat /\ IsFiniteSet(MappedIn(b + 1, c))
    BY <2>1, MappedFinite
  <2> QED
    BY <1>1, <1>2, <2>2, SortedConcat

LEMMA MappedNone ==
    ASSUME NEW a \in Nat, NEW b \in Nat, b < a
    PROVE  Sorted(MappedIn(a, b)) = <<>>
<1>1. MappedIn(a, b) = {}
  BY DEF MappedIn
<1> QED
  BY <1>1, SortedEmpty

(* A page, cut at the end n of the round.                                  *)
LEMMA PageIsMapped ==
    ASSUME TypeOK, NEW e \in PageEnds, NEW n \in 0 .. Len(log),
           next_seq <= n + 1
    PROVE  /\ e \in Nat /\ next_seq - 1 <= e /\ e <= Len(log)
           /\ PageMessages(e, 1 .. n)
                = Sorted(MappedIn(next_seq, IF e < n THEN e ELSE n))
           /\ PageMessages(e, n + 1 .. Len(log)) = Sorted(MappedIn(n + 1, e))
<1>1. e \in Nat /\ next_seq - 1 <= e /\ e <= Len(log)
  BY LogFacts DEF PageEnds
<1>2. {i \in next_seq .. e : log[i] /\ i \in 1 .. n}
        = MappedIn(next_seq, IF e < n THEN e ELSE n)
  BY <1>1, LogFacts DEF MappedIn
<1>3. {i \in next_seq .. e : log[i] /\ i \in n + 1 .. Len(log)}
        = MappedIn(n + 1, e)
  BY <1>1, LogFacts DEF MappedIn
<1> QED
  BY <1>1, <1>2, <1>3 DEF PageMessages

-----------------------------------------------------------------------------
(* Each step keeps the invariant.                                          *)

LEMMA PollInvInit == Init => PollInv
<1> SUFFICES ASSUME Init PROVE PollInv
  OBVIOUS
<1>1. /\ log = <<>> /\ DOMAIN log = {} /\ Len(log) = 0
      /\ current_messages = <<>> /\ prefetched_messages = <<>> /\ handled = <<>>
      /\ next_seq = 1 /\ snapshot_last_seq = None /\ prefetched_last_seq = None
      /\ pc = "start" /\ stop_event = FALSE /\ failures = 0
  BY EmptySeq DEF Init
<1>2. TypeOK
  <2>1. log \in Seq(BOOLEAN) /\ \A S : <<>> \in Seq(S)
    BY <1>1, EmptySeq
  <2>2. next_seq \in 1 .. Len(log) + 1
    BY <1>1
  <2> QED
    BY <1>1, <2>1, <2>2 DEF TypeOK
<1>3. CutAt(0)
  <2>1. Sorted(MappedIn(1, 0)) = <<>>
    BY MappedNone
  <2>2. <<>> \o <<>> = <<>>
    BY EmptySeq, ConcatEmptySeq
  <2> QED
    BY <1>1, <2>1, <2>2 DEF CutAt
<1>4. 0 \in 0 .. next_seq - 1
  BY <1>1
<1> QED
  BY <1>1, <1>2, <1>3, <1>4 DEF PollInv, PagesInv

(* A step that ends the worker, or only sets the stop event.               *)
LEMMA ReadingStays ==
    ASSUME PollInv, UNCHANGED <<log, reading>>,
           pc' = pc \/ /\ pc' \in {"stopped", "failed"}
                       /\ pc \in {"scan", "live", "start"}
                       /\ snapshot_last_seq # None
                            => next_seq <= snapshot_last_seq,
           stop_event' \in BOOLEAN, failures' \in Nat
    PROVE  PollInv'
<1> USE DEF reading, prefetched
<1>1. TypeOK /\ PagesInv
  BY DEF PollInv
<1>2. TypeOK'
  BY <1>1 DEF TypeOK
<1>3. PICK b \in 0 .. next_seq - 1 : CutAt(b)
  BY <1>1 DEF PagesInv
<1>4. CutAt(b)'
  <2>1. CASE pc = "scan" /\ pc' # "scan"
    <3>1. next_seq <= snapshot_last_seq /\ snapshot_last_seq # None
      BY <1>1, <2>1 DEF PagesInv
    <3>2. b = next_seq - 1
      BY <1>1, <1>3, <3>1, LogFacts DEF CutAt, RoundCut
    <3>3. Sorted(MappedIn(b + 1, next_seq - 1)) = <<>>
      BY <1>1, <3>2, LogFacts, MappedNone
    <3> QED
      BY <1>3, <2>1, <3>3 DEF CutAt, RoundCut, MappedIn
  <2>2. CASE (pc # "scan" /\ pc' # "scan") \/ pc' = pc
    BY <1>3, <2>2 DEF CutAt, RoundCut, MappedIn
  <2> QED
    BY <2>1, <2>2
<1>5. PagesInv'
  BY <1>1, <1>3, <1>4 DEF PagesInv
<1> QED
  BY <1>2, <1>5 DEF PollInv

LEMMA PublishInv ==
    ASSUME PollInv, NEW mapped \in BOOLEAN, Publish(mapped)
    PROVE  PollInv'
<1> USE DEF reading, prefetched
<1>1. TypeOK /\ PagesInv
  BY DEF PollInv
<1>2. /\ log' = Append(log, mapped) /\ log' \in Seq(BOOLEAN)
      /\ Len(log') = Len(log) + 1 /\ DOMAIN log' = 1 .. Len(log) + 1
      /\ \A i \in 1 .. Len(log) : log'[i] = log[i]
      /\ Len(log) \in Nat /\ DOMAIN log = 1 .. Len(log)
      /\ UNCHANGED <<pc, stop_event, failures, reading>>
  <2>1. log \in Seq(BOOLEAN) /\ log' = Append(log, mapped)
    BY <1>1 DEF Publish, TypeOK
  <2>2. UNCHANGED <<pc, stop_event, failures, reading>>
    BY DEF Publish
  <2>3. log' \in Seq(BOOLEAN) /\ Len(log') = Len(log) + 1
        /\ \A i \in 1 .. Len(log) : log'[i] = log[i]
    BY <2>1, AppendProperties
  <2> QED
    BY <2>1, <2>2, <2>3, LenProperties
<1>3. DOMAIN log \in SUBSET DOMAIN log'
  BY <1>2
<1>4. Seq(DOMAIN log) \subseteq Seq(DOMAIN log')
  BY <1>3, SeqMonotonic
<1>5. TypeOK'
  BY <1>1, <1>2, <1>4 DEF TypeOK
<1>6. \A a, b \in Nat : b <= Len(log) => MappedIn(a, b)' = MappedIn(a, b)
  BY <1>2 DEF MappedIn
<1>7. PICK b \in 0 .. next_seq - 1 : CutAt(b)
  BY <1>1 DEF PagesInv
<1>8. /\ b \in Nat /\ b <= Len(log) /\ b + 1 \in Nat
      /\ next_seq - 1 \in Nat /\ next_seq - 1 <= Len(log)
  BY <1>1, <1>7, LogFacts
<1>9. CutAt(b)'
  BY <1>2, <1>6, <1>7, <1>8 DEF CutAt, RoundCut
<1>10. PagesInv'
  BY <1>1, <1>2, <1>7, <1>9 DEF PagesInv
<1> QED
  BY <1>5, <1>10 DEF PollInv

LEMMA ProcessInv ==
    ASSUME PollInv, Process
    PROVE  /\ PollInv'
           /\ handled' \o current_messages' = handled \o current_messages
<1> USE DEF prefetched, environment
<1>1. TypeOK /\ PagesInv
  BY DEF PollInv
<1>2. /\ handled \in Seq(DOMAIN log) /\ current_messages \in Seq(DOMAIN log)
      /\ current_messages # <<>>
      /\ handled' = Append(handled, Head(current_messages))
      /\ current_messages' = Tail(current_messages)
      /\ UNCHANGED <<environment, pc, next_seq, snapshot_last_seq, prefetched>>
  BY <1>1 DEF Process, TypeOK
<1>3. /\ Head(current_messages) \in DOMAIN log
      /\ Tail(current_messages) \in Seq(DOMAIN log)
      /\ handled' \in Seq(DOMAIN log)
  BY <1>2, HeadTailProperties, AppendProperties
<1>4. handled' \o current_messages' = handled \o current_messages
  <2> DEFINE h == <<Head(current_messages)>>
  <2>1. handled' = handled \o h /\ h \in Seq(DOMAIN log)
    BY <1>2, <1>3, AppendIsConcat
  <2>2. (handled \o h) \o Tail(current_messages)
          = handled \o (h \o Tail(current_messages))
    BY <1>2, <1>3, <2>1, ConcatAssociative
  <2>3. h \o Tail(current_messages) = current_messages
    BY <1>2, HeadTailProperties
  <2> QED
    BY <1>2, <2>1, <2>2, <2>3
<1>5. TypeOK'
  BY <1>1, <1>2, <1>3 DEF TypeOK
<1>6. PagesInv'
  BY <1>1, <1>2, <1>4 DEF PagesInv, CutAt, RoundCut, MappedIn
<1> QED
  BY <1>4, <1>5, <1>6 DEF PollInv

(* The sequences of the pages: <<>> adds nothing.                           *)
LEMMA EmptyConcat ==
    ASSUME NEW S, NEW s \in Seq(S)
    PROVE  s \o <<>> = s /\ <<>> \o s = s
BY ConcatEmptySeq

LEMMA ReadStatusInv == ASSUME PollInv, ReadStatus PROVE PollInv'
<1> USE DEF prefetched, environment
<1>1. TypeOK /\ PagesInv
  BY DEF PollInv
<1>2. /\ next_seq = 1 /\ snapshot_last_seq = None /\ prefetched_last_seq = None
      /\ snapshot_last_seq' = Len(log) /\ pc' = "scan"
      /\ prefetched_messages = <<>>
      /\ UNCHANGED <<environment, next_seq, current_messages, prefetched, handled>>
  BY <1>1 DEF ReadStatus, PagesInv, TypeOK
<1>3. TypeOK'
  BY <1>1, <1>2, LogFacts DEF TypeOK
<1>4. CutAt(0) /\ 0 \in 0 .. next_seq' - 1
  BY <1>1, <1>2 DEF PagesInv
<1>5. CutAt(0)'
  BY <1>1, <1>2, <1>4, LogFacts DEF CutAt, RoundCut, MappedIn
<1>6. PagesInv'
  BY <1>1, <1>2, <1>4, <1>5, LogFacts DEF PagesInv
<1> QED
  BY <1>3, <1>6 DEF PollInv

LEMMA ScanPageInv ==
    ASSUME PollInv, ScanPage
    PROVE  PollInv'
<1> USE DEF prefetched, environment
<1>1. TypeOK /\ PagesInv
  BY DEF PollInv
<1>2. PICK e \in PageEnds :
        /\ current_messages' = PageMessages(e, 1 .. snapshot_last_seq)
        /\ next_seq' = e + 1
  BY DEF ScanPage
<1>3. /\ pc = "scan" /\ current_messages = <<>>
      /\ next_seq <= snapshot_last_seq
      /\ UNCHANGED <<environment, pc, snapshot_last_seq, prefetched, handled>>
  BY DEF ScanPage
<1>4. /\ snapshot_last_seq # None /\ prefetched_last_seq = None
      /\ snapshot_last_seq \in 0 .. Len(log) /\ Len(log) \in Nat
      /\ next_seq \in Nat /\ next_seq <= snapshot_last_seq + 1
  BY <1>1, <1>3, LogFacts DEF PagesInv
<1>c. PICK c : c = IF e < snapshot_last_seq THEN e ELSE snapshot_last_seq
  OBVIOUS
<1>5. /\ e \in Nat /\ next_seq - 1 <= e /\ e <= Len(log)
      /\ current_messages' = Sorted(MappedIn(next_seq, c))
  BY <1>1, <1>2, <1>4, <1>c, PageIsMapped
<1>6. c \in Nat /\ next_seq - 1 \in Nat /\ next_seq - 1 <= c
  BY <1>1, <1>3, <1>4, <1>5, <1>c, LogFacts
<1>7. TypeOK'
  <2>1. current_messages' \in Seq(DOMAIN log)
    BY <1>1, <1>4, <1>5, <1>6, MappedFinite
  <2>2. next_seq' \in 1 .. Len(log) + 1
    BY <1>2, <1>4, <1>5
  <2> QED
    BY <1>1, <1>3, <2>1, <2>2 DEF TypeOK
<1>8. PICK b \in 0 .. next_seq - 1 : CutAt(b)
  BY <1>1 DEF PagesInv
<1>9. b = next_seq - 1 /\ prefetched_messages = <<>>
  BY <1>1, <1>3, <1>4, <1>8, LogFacts DEF CutAt, RoundCut
<1>10. handled' \o current_messages' = Sorted(MappedIn(1, c))
  <2>1. handled = Sorted(MappedIn(1, next_seq - 1))
    BY <1>1, <1>3, <1>8, <1>9, EmptyConcat DEF CutAt, TypeOK
  <2>2. Sorted(MappedIn(1, c)) = Sorted(MappedIn(1, next_seq - 1))
                                  \o Sorted(MappedIn((next_seq - 1) + 1, c))
    <3>1. 1 \in Nat /\ 1 <= (next_seq - 1) + 1
      BY <1>1, LogFacts
    <3> QED
      BY <1>1, <1>6, <3>1, MappedSplit
  <2>3. (next_seq - 1) + 1 = next_seq
    BY <1>4
  <2> QED
    BY <1>3, <1>5, <2>1, <2>2, <2>3
<1>11. c = RoundCut' /\ c \in 0 .. next_seq' - 1
  BY <1>2, <1>3, <1>4, <1>5, <1>c DEF RoundCut
<1>12. MappedIn(1, c)' = MappedIn(1, c)
  BY <1>3 DEF MappedIn
<1>13. CutAt(c)'
  BY <1>3, <1>9, <1>10, <1>11, <1>12 DEF CutAt
<1>14. PagesInv'
  BY <1>3, <1>4, <1>11, <1>13 DEF PagesInv
<1> QED
  BY <1>7, <1>14 DEF PollInv

LEMMA ScanEndsInv ==
    ASSUME PollInv, ScanEnds
    PROVE  PollInv' /\ handled = Sorted(MappedIn(1, snapshot_last_seq))
<1> USE DEF prefetched, environment
<1>1. TypeOK /\ PagesInv
  BY DEF PollInv
<1>2. /\ pc = "scan" /\ current_messages = <<>>
      /\ snapshot_last_seq < next_seq
      /\ next_seq' = snapshot_last_seq + 1 /\ snapshot_last_seq' = None
      /\ pc' = "live"
      /\ UNCHANGED <<environment, current_messages, prefetched, handled>>
      /\ snapshot_last_seq # None /\ prefetched_last_seq = None
      /\ snapshot_last_seq \in 0 .. Len(log) /\ Len(log) \in Nat
      /\ prefetched_messages = <<>>
  <2>1. snapshot_last_seq # None /\ prefetched_last_seq = None
        /\ prefetched_messages = <<>>
    BY <1>1 DEF ScanEnds, PagesInv, TypeOK
  <2>2. snapshot_last_seq \in 0 .. Len(log) /\ Len(log) \in Nat /\ next_seq \in Nat
    BY <1>1, <2>1, LogFacts
  <2> QED
    BY <2>1, <2>2 DEF ScanEnds
<1>3. TypeOK'
  BY <1>1, <1>2 DEF TypeOK
<1>4. PICK b \in 0 .. next_seq - 1 : CutAt(b)
  BY <1>1 DEF PagesInv
<1>5. b = snapshot_last_seq
  BY <1>2, <1>4 DEF CutAt, RoundCut
<1>6. handled = Sorted(MappedIn(1, snapshot_last_seq))
  BY <1>1, <1>2, <1>4, <1>5, EmptyConcat DEF CutAt, TypeOK
<1>7. CutAt(b)'
  <2>1. Sorted(MappedIn(b + 1, next_seq' - 1)) = <<>>
    BY <1>2, <1>5, MappedNone
  <2>2. UNCHANGED log
    BY <1>2
  <2> QED
    BY <1>2, <1>4, <2>1, <2>2 DEF CutAt, MappedIn
<1>8. PagesInv'
  BY <1>2, <1>5, <1>7 DEF PagesInv
<1> QED
  BY <1>3, <1>6, <1>8 DEF PollInv

LEMMA TickInv ==
    ASSUME PollInv, Tick
    PROVE  PollInv' /\ handled = Sorted(MappedIn(1, snapshot_last_seq))
<1> USE DEF prefetched, environment
<1>1. TypeOK /\ PagesInv
  BY DEF PollInv
<1>2. /\ pc = "live" /\ current_messages = <<>> /\ snapshot_last_seq # None
      /\ snapshot_last_seq < next_seq /\ snapshot_last_seq' = None
      /\ UNCHANGED <<environment, pc, next_seq, current_messages, prefetched,
                     handled>>
      /\ snapshot_last_seq \in Nat /\ next_seq \in Nat
  BY <1>1, LogFacts DEF Tick
<1>3. TypeOK'
  BY <1>1, <1>2 DEF TypeOK
<1>4. PICK b \in 0 .. next_seq - 1 : CutAt(b)
  BY <1>1 DEF PagesInv
<1>5. b = snapshot_last_seq
  BY <1>2, <1>4 DEF CutAt, RoundCut
<1>6. handled = Sorted(MappedIn(1, snapshot_last_seq))
  BY <1>1, <1>2, <1>4, <1>5, EmptyConcat DEF CutAt, TypeOK
<1>7. CutAt(b)'
  BY <1>2, <1>4 DEF CutAt, MappedIn
<1>8. PagesInv'
  BY <1>1, <1>2, <1>4, <1>7 DEF PagesInv
<1> QED
  BY <1>3, <1>6, <1>8 DEF PollInv

LEMMA TakePrefetchedInv == ASSUME PollInv, TakePrefetched PROVE PollInv'
<1> USE DEF prefetched, environment
<1>1. TypeOK /\ PagesInv
  BY DEF PollInv
<1>2. /\ pc = "live" /\ current_messages = <<>> /\ snapshot_last_seq = None
      /\ prefetched_last_seq # None
      /\ snapshot_last_seq' = prefetched_last_seq
      /\ prefetched_last_seq' = None /\ prefetched_messages' = <<>>
      /\ current_messages' = prefetched_messages
      /\ UNCHANGED <<environment, pc, next_seq, handled>>
  BY DEF TakePrefetched
<1>3. /\ prefetched_last_seq \in Nat /\ prefetched_last_seq <= Len(log)
      /\ next_seq \in Nat /\ 1 <= next_seq
      /\ next_seq - 1 <= prefetched_last_seq /\ Len(log) \in Nat
      /\ None \notin Nat
  BY <1>1, <1>2, LogFacts DEF PagesInv
<1>4. TypeOK'
  BY <1>1, <1>2, <1>3 DEF TypeOK
<1>5. PICK b \in 0 .. next_seq - 1 : CutAt(b)
  BY <1>1 DEF PagesInv
<1>6. handled \o prefetched_messages = Sorted(MappedIn(1, next_seq - 1))
  <2>1. /\ handled = Sorted(MappedIn(1, b))
        /\ prefetched_messages = Sorted(MappedIn(b + 1, next_seq - 1))
    BY <1>1, <1>2, <1>5, EmptyConcat DEF CutAt, TypeOK
  <2>2. /\ 1 \in Nat /\ b \in Nat /\ next_seq - 1 \in Nat
        /\ 1 <= b + 1 /\ b <= next_seq - 1
    BY <1>3
  <2> QED
    BY <1>1, <2>1, <2>2, MappedSplit
<1>7. PICK c : c = next_seq - 1
  OBVIOUS
<1>8. c \in 0 .. next_seq' - 1 /\ c = RoundCut'
  BY <1>2, <1>3, <1>7 DEF RoundCut
<1>9. CutAt(c)'
  <2>1. Sorted(MappedIn(c + 1, next_seq - 1)) = <<>>
    BY <1>3, <1>7, MappedNone
  <2>2. UNCHANGED <<log, next_seq>>
    BY <1>2
  <2> QED
    BY <1>2, <1>6, <1>7, <1>8, <2>1, <2>2 DEF CutAt, MappedIn
<1>10. PagesInv'
  BY <1>2, <1>3, <1>8, <1>9 DEF PagesInv
<1> QED
  BY <1>4, <1>10 DEF PollInv

(* A page: what is up to the end of the round is processed, the rest kept.  *)
LEMMA FetchPageInv ==
    ASSUME PollInv, FetchPage
    PROVE  /\ PollInv'
           /\ \/ snapshot_last_seq' = snapshot_last_seq
              \/ snapshot_last_seq = None /\ snapshot_last_seq' = Len(log)
<1> USE DEF prefetched, environment
<1>1. TypeOK /\ PagesInv
  BY DEF PollInv
<1>2. PICK end : end = IF snapshot_last_seq = None THEN Len(log)
                       ELSE snapshot_last_seq
  OBVIOUS
<1>3. PICK e \in PageEnds :
        /\ snapshot_last_seq' = end
        /\ current_messages' = PageMessages(e, 1 .. end)
        /\ prefetched_messages' =
             prefetched_messages \o PageMessages(e, end + 1 .. Len(log))
        /\ next_seq' = e + 1
  BY <1>2 DEF FetchPage
<1>4. /\ pc = "live" /\ current_messages = <<>>
      /\ IF snapshot_last_seq = None THEN prefetched_last_seq = None
                                     ELSE next_seq <= snapshot_last_seq
      /\ prefetched_last_seq' =
           IF prefetched_messages' = <<>> THEN prefetched_last_seq ELSE Len(log)
      /\ UNCHANGED <<environment, pc, handled>>
  BY DEF FetchPage, Fetching
<1>5. /\ end \in 0 .. Len(log) /\ Len(log) \in Nat /\ end # None
      /\ next_seq \in Nat /\ 1 <= next_seq /\ next_seq <= end + 1
  BY <1>1, <1>2, <1>4, LogFacts
<1>6. PICK b \in 0 .. next_seq - 1 : CutAt(b)
  BY <1>1 DEF PagesInv
<1>7. prefetched_messages = <<>> /\ handled = Sorted(MappedIn(1, next_seq - 1))
  <2>1. handled = Sorted(MappedIn(1, b))
    BY <1>1, <1>4, <1>6, EmptyConcat DEF CutAt, TypeOK
  <2>2. CASE snapshot_last_seq = None
    <3>1. prefetched_messages = <<>>
      BY <1>1, <1>4, <2>2 DEF TypeOK
    <3>2. Sorted(MappedIn(b + 1, next_seq - 1)) = <<>>
      BY <1>4, <1>6, <3>1 DEF CutAt
    <3>3. /\ 1 \in Nat /\ b \in Nat /\ next_seq - 1 \in Nat
          /\ 1 <= b + 1 /\ b <= next_seq - 1
      BY <1>5
    <3>4. Sorted(MappedIn(1, next_seq - 1))
            = Sorted(MappedIn(1, b)) \o Sorted(MappedIn(b + 1, next_seq - 1))
      BY <1>1, <3>3, MappedSplit
    <3> QED
      BY <1>1, <2>1, <3>1, <3>2, <3>4, EmptyConcat DEF TypeOK
  <2>3. CASE snapshot_last_seq # None
    <3>1. b = next_seq - 1
      BY <1>1, <1>4, <1>6, <2>3, LogFacts DEF CutAt, RoundCut
    <3>2. Sorted(MappedIn(b + 1, next_seq - 1)) = <<>>
      BY <1>5, <3>1, MappedNone
    <3> QED
      BY <1>4, <1>6, <2>1, <3>1, <3>2 DEF CutAt
  <2> QED
    BY <2>2, <2>3
<1>8. PICK c : c = IF e < end THEN e ELSE end
  OBVIOUS
<1>9. /\ e \in Nat /\ next_seq - 1 <= e /\ e <= Len(log)
      /\ current_messages' = Sorted(MappedIn(next_seq, c))
      /\ PageMessages(e, end + 1 .. Len(log)) = Sorted(MappedIn(end + 1, e))
  BY <1>1, <1>3, <1>5, <1>8, PageIsMapped
<1>10. /\ c \in Nat /\ next_seq - 1 \in Nat /\ next_seq - 1 <= c /\ c <= e
       /\ c = RoundCut' /\ c \in 0 .. next_seq' - 1
  BY <1>3, <1>5, <1>8, <1>9 DEF RoundCut
<1>11. /\ prefetched_messages' = Sorted(MappedIn(c + 1, e))
       /\ prefetched_messages' \in Seq(DOMAIN log)
  <2>1. /\ Sorted(MappedIn(end + 1, e)) \in Seq(DOMAIN log)
        /\ end + 1 \in Nat
    BY <1>1, <1>5, <1>9, MappedFinite
  <2>2. prefetched_messages' = Sorted(MappedIn(end + 1, e))
    BY <1>3, <1>7, <1>9, <2>1, EmptyConcat
  <2>3. CASE e < end
    <3>1. Sorted(MappedIn(end + 1, e)) = <<>>
      BY <1>5, <1>9, <2>3, MappedNone
    <3>2. Sorted(MappedIn(c + 1, e)) = <<>>
      BY <1>8, <1>9, <2>3, MappedNone
    <3> QED
      BY <2>1, <2>2, <3>1, <3>2
  <2>4. CASE ~(e < end)
    BY <1>8, <2>1, <2>2, <2>4
  <2> QED
    BY <2>3, <2>4
<1>12. handled' \o current_messages' = Sorted(MappedIn(1, c))
  <2>1. Sorted(MappedIn(1, c)) = Sorted(MappedIn(1, next_seq - 1))
                                  \o Sorted(MappedIn((next_seq - 1) + 1, c))
    <3>1. 1 \in Nat /\ 1 <= (next_seq - 1) + 1
      BY <1>5
    <3> QED
      BY <1>1, <1>10, <3>1, MappedSplit
  <2>2. (next_seq - 1) + 1 = next_seq
    BY <1>5
  <2> QED
    BY <1>4, <1>7, <1>9, <2>1, <2>2
<1>13. TypeOK'
  <2>1. current_messages' \in Seq(DOMAIN log)
    BY <1>1, <1>5, <1>9, <1>10, MappedFinite
  <2>2. next_seq' \in 1 .. Len(log) + 1 /\ snapshot_last_seq' \in 0 .. Len(log)
    BY <1>3, <1>5, <1>9
  <2>3. prefetched_last_seq = None
    BY <1>1, <1>7 DEF TypeOK
  <2>4. /\ prefetched_last_seq' \in 1 .. Len(log) \cup {None}
        /\ prefetched_last_seq' = None <=> prefetched_messages' = <<>>
    <3>1. CASE prefetched_messages' = <<>>
      BY <1>4, <2>3, <3>1
    <3>2. CASE prefetched_messages' # <<>>
      <4>1. MappedIn(c + 1, e) # {}
        BY <1>11, <3>2, SortedEmpty
      <4>2. Len(log) >= 1
        BY <1>5, <1>9, <1>10, <4>1 DEF MappedIn
      <4>3. None \notin Nat
        BY LivePollAssumption
      <4> QED
        BY <1>4, <1>5, <3>2, <4>2, <4>3
    <3> QED
      BY <3>1, <3>2
  <2> QED
    BY <1>1, <1>4, <1>11, <2>1, <2>2, <2>4 DEF TypeOK
<1>14. CutAt(c)'
  <2>1. \A x, y : MappedIn(x, y)' = MappedIn(x, y)
    BY <1>4 DEF MappedIn
  <2>2. next_seq' - 1 = e
    BY <1>3, <1>9
  <2> QED
    BY <1>4, <1>10, <1>11, <1>12, <2>1, <2>2 DEF CutAt
<1>15. PagesInv'
  <2>1. prefetched_last_seq' # None => next_seq' - 1 <= prefetched_last_seq'
    BY <1>1, <1>3, <1>4, <1>5, <1>7, <1>9 DEF TypeOK
  <2> QED
    BY <1>3, <1>4, <1>5, <1>10, <1>14, <2>1 DEF PagesInv
<1> QED
  BY <1>2, <1>3, <1>13, <1>15 DEF PollInv

LEMMA PollInvNext == PollInv /\ [Next]_vars => PollInv'
<1> SUFFICES ASSUME PollInv, [Next]_vars PROVE PollInv'
  OBVIOUS
<1>1. TypeOK
  BY DEF PollInv
<1>2. ASSUME NEW mapped \in BOOLEAN, Publish(mapped) PROVE PollInv'
  BY <1>2, PublishInv
<1>3. CASE LiveFetchFails
  <2>1. UNCHANGED <<log, reading>> /\ failures' \in Nat /\ stop_event' \in BOOLEAN
    BY <1>1, <1>3 DEF LiveFetchFails, CallFails, TypeOK
  <2>2. pc = "live" /\ pc' \in {"live", "failed"}
    BY <1>3 DEF LiveFetchFails, Fetching
  <2>3. snapshot_last_seq # None => next_seq <= snapshot_last_seq
    BY <1>3 DEF LiveFetchFails, Fetching
  <2> QED
    BY <2>1, <2>2, <2>3, ReadingStays
<1>4. CASE ScanFetchFails
  <2>1. UNCHANGED <<log, reading>> /\ failures' \in Nat /\ stop_event' \in BOOLEAN
    BY <1>1, <1>4 DEF ScanFetchFails, CallFails, TypeOK
  <2> QED
    BY <1>4, <2>1, ReadingStays DEF ScanFetchFails
<1>5. CASE StatusFails
  <2>1. UNCHANGED <<log, reading>> /\ failures' \in Nat /\ stop_event' \in BOOLEAN
    BY <1>1, <1>5 DEF StatusFails, CallFails, TypeOK
  <2>2. snapshot_last_seq = None
    BY <1>5 DEF StatusFails, PollInv, PagesInv
  <2> QED
    BY <1>5, <2>1, <2>2, ReadingStays DEF StatusFails
<1>6. CASE SetStop
  BY <1>1, <1>6, ReadingStays DEF SetStop, TypeOK
<1>7. CASE Stops
  <2>1. UNCHANGED <<log, reading>> /\ failures' \in Nat /\ stop_event' \in BOOLEAN
    BY <1>1, <1>7 DEF Stops, environment, TypeOK
  <2> QED
    BY <1>7, <2>1, ReadingStays DEF Stops
<1>8. CASE UNCHANGED vars
  BY <1>1, <1>8, ReadingStays DEF vars, reading, prefetched, TypeOK
<1> QED
  BY <1>2, <1>3, <1>4, <1>5, <1>6, <1>7, <1>8, ProcessInv, ReadStatusInv,
     ScanPageInv, ScanEndsInv, TakePrefetchedInv, FetchPageInv, TickInv
  DEF Next, Worker

LEMMA PollInvariant == Spec => []PollInv
BY PollInvInit, PollInvNext, PTL DEF Spec

(* LivePoll's type invariant, for a log of any length: the positions read   *)
(* and the messages held are in the log, and messages are prefetched exactly *)
(* while the end of their round is kept (_poll_events).                     *)
THEOREM PollTypeCorrect == Spec => []TypeOK
<1>1. PollInv => TypeOK
  BY DEF PollInv
<1> QED
  BY <1>1, PollInvariant, PTL

-----------------------------------------------------------------------------
(* What the invariant says of the messages processed.                      *)

(* The messages processed are the first ones of M, the next one of M is at  *)
(* the head of the round.                                                  *)
FirstHandled(M) ==
    /\ M \in SUBSET DOMAIN log /\ IsFiniteSet(M) /\ Cardinality(M) \in Nat
    /\ Len(handled) \in Nat /\ DOMAIN handled = 1 .. Len(handled)
    /\ Len(handled) <= Cardinality(M)
    /\ \A n \in 1 .. Len(handled) : /\ handled[n] = Sorted(M)[n]
                                    /\ handled[n] \in M
                                    /\ Rank(handled[n], M) = n - 1
    /\ current_messages # <<>> =>
         /\ Head(current_messages) = Sorted(M)[Len(handled) + 1]
         /\ Len(handled) + 1 <= Cardinality(M)

LEMMA HandledFacts ==
    ASSUME PollInv
    PROVE  \E b \in 0 .. next_seq - 1 : CutAt(b) /\ FirstHandled(MappedIn(1, b))
<1>1. TypeOK /\ PagesInv
  BY DEF PollInv
<1>2. PICK b \in 0 .. next_seq - 1 : CutAt(b)
  BY <1>1 DEF PagesInv
<1> DEFINE M == MappedIn(1, b)
           N == Len(handled)
           C == Len(current_messages)
<1>3. /\ M \in SUBSET DOMAIN log /\ M \in SUBSET Nat /\ IsFiniteSet(M)
      /\ handled \o current_messages = Sorted(M)
  <2>1. b \in Nat
    BY <1>1, LogFacts
  <2> QED
    BY <1>1, <1>2, <2>1, MappedFinite DEF CutAt
<1> HIDE DEF M
<1>4. /\ handled \in Seq(DOMAIN log) /\ current_messages \in Seq(DOMAIN log)
      /\ N \in Nat /\ DOMAIN handled = 1 .. N /\ C \in Nat
      /\ Len(handled \o current_messages) = N + C
      /\ \A n \in 1 .. N + C : (handled \o current_messages)[n]
            = IF n <= N THEN handled[n] ELSE current_messages[n - N]
  BY <1>1, LenProperties, ConcatProperties DEF TypeOK
<1>5. /\ Len(Sorted(M)) = Cardinality(M) /\ Cardinality(M) \in Nat
      /\ Sorted(M) \in Seq(M)
      /\ \A n \in 1 .. Cardinality(M) : Rank(Sorted(M)[n], M) = n - 1
  BY <1>3, SortedProperties
<1>6. N + C = Cardinality(M)
  BY <1>3, <1>4, <1>5
<1>7. \A n \in 1 .. N : handled[n] = Sorted(M)[n] /\ n \in 1 .. Cardinality(M)
  BY <1>3, <1>4, <1>6
<1>8. \A n \in 1 .. N : handled[n] \in M
  BY <1>5, <1>7, ElementOfSeq
<1>9. ASSUME current_messages # <<>>
      PROVE  /\ Head(current_messages) = Sorted(M)[N + 1]
             /\ N + 1 <= Cardinality(M)
  <2>1. C # 0 /\ Head(current_messages) = current_messages[1]
    BY <1>4, <1>9, EmptySeq
  <2>2. N + 1 \in 1 .. N + C /\ ~(N + 1 <= N) /\ (N + 1) - N = 1
    BY <1>4, <2>1
  <2> QED
    BY <1>3, <1>4, <1>6, <2>1, <2>2
<1>10. FirstHandled(M)
  <2>1. N <= Cardinality(M)
    BY <1>4, <1>5, <1>6
  <2>2. \A n \in 1 .. N : Rank(handled[n], M) = n - 1
    BY <1>5, <1>7
  <2> QED
    BY <1>3, <1>4, <1>5, <1>7, <1>8, <1>9, <2>1, <2>2 DEF FirstHandled
<1> QED
  BY <1>2, <1>10 DEF M

(* Every mapped message is processed once and in log order, whatever the    *)
(* pages, the failures and the growth of the log.                          *)
THEOREM PollProcessesInOrder == Spec => []ProcessedInOrder
<1>1. PollInv => ProcessedInOrder
  <2> SUFFICES ASSUME PollInv, NEW n \in DOMAIN handled
               PROVE  /\ log[handled[n]]
                      /\ Cardinality(MappedUpTo(handled[n])) = n
    BY DEF ProcessedInOrder
  <2>1. PICK b \in 0 .. next_seq - 1 : FirstHandled(MappedIn(1, b))
    BY HandledFacts
  <2> DEFINE M == MappedIn(1, b)
             h == handled[n]
             L == {j \in M : j < h}
  <2>0. /\ M \in SUBSET DOMAIN log /\ IsFiniteSet(M)
        /\ n \in Nat /\ h \in M /\ Rank(h, M) = n - 1
    BY <2>1 DEF FirstHandled
  <2>2. /\ log[h] /\ h \in 1 .. b /\ h \in DOMAIN log
        /\ DOMAIN log \in SUBSET Nat /\ \A i \in DOMAIN log : 1 <= i
    BY <2>0, LogFacts DEF MappedIn, PollInv
  <2>3. MappedUpTo(h) = L \cup {h}
    BY <2>2 DEF MappedUpTo, MappedIn
  <2>4. IsFiniteSet(L) /\ h \notin L /\ Cardinality(L) = n - 1
    <3>1. IsFiniteSet(L)
      BY <2>0, FS_Subset
    <3>2. h \notin L
      BY <2>2
    <3> QED
      BY <2>0, <3>1, <3>2 DEF Rank
  <2> HIDE DEF L, M, h
  <2>5. Cardinality(L \cup {h}) = (n - 1) + 1
    BY <2>4, FS_AddElement
  <2> QED
    BY <2>0, <2>2, <2>3, <2>5 DEF h
<1> QED
  BY <1>1, PollInvariant, PTL

-----------------------------------------------------------------------------
(* What a step may do to a round.                                          *)

(* How a step changes the end of the round.                                *)
LEMMA RoundSteps ==
    ASSUME PollInv, [Next]_vars
    PROVE  \/ UNCHANGED snapshot_last_seq
           \/ snapshot_last_seq = None
           \/ ScanEnds \/ Tick
<1>1. PollInv
  OBVIOUS
<1>2. CASE FetchPage
  BY <1>1, <1>2, FetchPageInv
<1>3. CASE ReadStatus
  BY <1>1, <1>3 DEF ReadStatus, PollInv, PagesInv
<1>4. CASE ~FetchPage /\ ~ReadStatus
  BY <1>4 DEF Next, Worker, vars, reading, Process, ScanPage, TakePrefetched,
     Stops, Publish, LiveFetchFails, ScanFetchFails, StatusFails, CallFails,
     SetStop
<1> QED
  BY <1>2, <1>3, <1>4

(* The end of a round does not move while the round lasts.                 *)
THEOREM PollKeepsRoundEnd == Spec => SnapshotFixed
<1>1. PollInv /\ [Next]_vars
        => (snapshot_last_seq # None
              => snapshot_last_seq' \in {snapshot_last_seq, None})
  BY RoundSteps DEF ScanEnds, Tick
<1>2. PollInv /\ [Next]_vars
        => [snapshot_last_seq # None
              => snapshot_last_seq' \in {snapshot_last_seq, None}]_vars
  BY <1>1
<1> QED
  BY <1>2, PollInvariant, PTL DEF Spec, SnapshotFixed

(* The processor runs when exactly the messages up to the end of the round  *)
(* have been processed.                                                    *)
THEOREM PollTicksOnRounds == Spec => TickSeesSnapshot
<1>1. ASSUME PollInv, [Next]_vars, pc = "live", snapshot_last_seq # None,
             snapshot_last_seq' = None
      PROVE  Range(handled) = MappedUpTo(snapshot_last_seq)
  <2> DEFINE M == MappedIn(1, snapshot_last_seq)
  <2>1. Tick
    BY <1>1, RoundSteps DEF ScanEnds
  <2>2. handled = Sorted(M)
    BY <1>1, <2>1, TickInv
  <2>3. TypeOK /\ snapshot_last_seq \in Nat
    BY <1>1, LogFacts DEF PollInv
  <2>4. M = MappedUpTo(snapshot_last_seq)
    BY <2>3, LogFacts DEF MappedIn, MappedUpTo
  <2>5. M \in SUBSET Nat /\ IsFiniteSet(M)
    BY <2>3, MappedFinite
  <2> HIDE DEF M
  <2>6. /\ DOMAIN Sorted(M) = 1 .. Cardinality(M)
        /\ \A n \in 1 .. Cardinality(M) : Sorted(M)[n] \in M
        /\ \A i \in M : /\ Rank(i, M) + 1 \in 1 .. Cardinality(M)
                        /\ Sorted(M)[Rank(i, M) + 1] = i
    <3>1. Sorted(M) \in Seq(M) /\ DOMAIN Sorted(M) = 1 .. Cardinality(M)
          /\ Len(Sorted(M)) = Cardinality(M)
      BY <2>5, SortedProperties
    <3>2. \A n \in 1 .. Cardinality(M) : Sorted(M)[n] \in M
      BY <3>1, ElementOfSeq
    <3> QED
      BY <2>5, <3>1, <3>2, SortedProperties
  <2>7. Range(handled) = M
    BY <2>2, <2>6 DEF Range
  <2> QED
    BY <2>4, <2>7
<1>2. PollInv /\ [Next]_vars
        => [(pc = "live" /\ snapshot_last_seq # None /\ snapshot_last_seq' = None)
              => Range(handled) = MappedUpTo(snapshot_last_seq)]_vars
  BY <1>1
<1> QED
  BY <1>2, PollInvariant, PTL DEF Spec, TickSeesSnapshot

-----------------------------------------------------------------------------
(* The rounds of IngestRounds.                                             *)

Ingested == IF Running /\ handled # <<>> THEN Last(handled) ELSE 0
RoundEnd == IF pc \in {"scan", "live"} THEN snapshot_last_seq ELSE None

(* A message of M waits when fewer than its rank were processed.           *)
LEMMA IngestedFacts ==
    ASSUME PollInv, Running, NEW b \in Nat, FirstHandled(MappedIn(1, b))
    PROVE  /\ Ingested \in 0 .. b
           /\ \A i \in MappedIn(1, b) :
                i > Ingested <=> Rank(i, MappedIn(1, b)) >= Len(handled)
<1> DEFINE M == MappedIn(1, b)
           N == Len(handled)
<1>1. M \in SUBSET Nat /\ IsFiniteSet(M) /\ \A i \in M : 1 <= i /\ i <= b
  BY MappedFinite DEF PollInv, MappedIn
<1>2. /\ \A i \in M : Rank(i, M) \in Nat
      /\ \A i, j \in M : i < j => Rank(i, M) < Rank(j, M)
  <2>1. Cardinality(M) \in Nat
    BY <1>1, RankProperties
  <2>2. \A i \in M : Rank(i, M) \in 0 .. Cardinality(M) - 1
    BY <1>1, RankProperties
  <2> QED
    BY <1>1, <2>1, <2>2, RankProperties
<1>3. N \in Nat /\ \A n \in 1 .. N : handled[n] \in M /\ Rank(handled[n], M) = n - 1
  BY DEF FirstHandled
<1> HIDE DEF M
<1>4. CASE handled = <<>>
  <2>1. Ingested = 0 /\ N = 0
    BY <1>4, EmptySeq DEF Ingested
  <2> QED
    BY <1>1, <1>2, <2>1 DEF M
<1>5. CASE handled # <<>>
  <2>1. N # 0
    BY <1>3, <1>5, EmptySeq DEF PollInv, TypeOK
  <2>2. Ingested = handled[N]
    BY <1>5 DEF Ingested, Last
  <2>3. Ingested \in M /\ Rank(Ingested, M) = N - 1
    BY <1>3, <2>1, <2>2
  <2>4. \A i \in M : i > Ingested <=> Rank(i, M) >= N
    BY <1>1, <1>2, <1>3, <2>3
  <2> QED
    BY <1>1, <2>3, <2>4 DEF M
<1> QED
  BY <1>4, <1>5

(* The last message processed is before the next page.                     *)
LEMMA IngestedBehind ==
    ASSUME PollInv, Running
    PROVE  Ingested \in 0 .. next_seq - 1
<1>1. PICK b \in 0 .. next_seq - 1 : FirstHandled(MappedIn(1, b))
  BY HandledFacts
<1>2. next_seq \in Nat
  BY LogFacts DEF PollInv
<1>3. Ingested \in 0 .. b
  BY <1>1, <1>2, IngestedFacts
<1> QED
  BY <1>1, <1>2, <1>3

LEMMA ProcessIngests == ASSUME PollInv, Process PROVE Rounds!Ingest
<1> DEFINE h == Head(current_messages)
           N == Len(handled)
<1>1. TypeOK /\ PagesInv /\ Running
  BY DEF PollInv, Process
<1>2. /\ current_messages # <<>> /\ handled' = Append(handled, h)
      /\ UNCHANGED <<log, pc, snapshot_last_seq>>
  BY DEF Process, environment
<1>3. /\ snapshot_last_seq \in Nat /\ snapshot_last_seq # None
      /\ RoundEnd = snapshot_last_seq /\ next_seq \in Nat
      /\ snapshot_last_seq <= Len(log) /\ Len(log) \in Nat
      /\ DOMAIN log = 1 .. Len(log)
  <2>1. snapshot_last_seq # None
    BY <1>1, <1>2 DEF PagesInv
  <2>2. pc # "start"
    BY <1>1, <2>1 DEF PagesInv
  <2> QED
    BY <1>1, <2>1, <2>2, LogFacts DEF RoundEnd, Running
<1>4. PICK b \in 0 .. next_seq - 1 : CutAt(b) /\ FirstHandled(MappedIn(1, b))
  BY HandledFacts
<1>5. b \in Nat /\ b <= snapshot_last_seq
      /\ (b = snapshot_last_seq \/ b = next_seq - 1)
  BY <1>3, <1>4 DEF CutAt, RoundCut
<1> DEFINE M == MappedIn(1, b)
<1>6. /\ M \in SUBSET Nat /\ IsFiniteSet(M)
      /\ Cardinality(M) \in Nat /\ N \in Nat /\ N + 1 <= Cardinality(M)
      /\ h = Sorted(M)[N + 1]
  BY <1>1, <1>2, <1>4, <1>5, MappedFinite DEF FirstHandled
<1>7. /\ Ingested \in 0 .. b
      /\ \A i \in M : i > Ingested <=> Rank(i, M) >= N
  BY <1>1, <1>4, <1>5, IngestedFacts
<1>8. h \in M /\ Rank(h, M) = N
  <2> HIDE DEF M
  <2>1. Sorted(M) \in Seq(M) /\ Len(Sorted(M)) = Cardinality(M)
        /\ N + 1 \in 1 .. Cardinality(M)
    BY <1>6, SortedProperties
  <2>2. Rank(Sorted(M)[N + 1], M) = (N + 1) - 1
    BY <1>6, <2>1, SortedProperties
  <2> QED
    BY <1>6, <2>1, <2>2, ElementOfSeq
<1>9. \A i \in M : i > Ingested => h <= i
  <2>1. \A i, j \in M : i < j => Rank(i, M) < Rank(j, M)
    BY <1>6, RankProperties
  <2>2. \A i \in M : Rank(i, M) \in Nat
    BY <1>6, RankProperties
  <2> HIDE DEF M, h
  <2> QED
    BY <1>6, <1>7, <1>8, <2>1, <2>2
<1>10. h \in Nat /\ h \in 1 .. b /\ log[h] /\ h > Ingested
  <2>1. h > Ingested
    BY <1>6, <1>7, <1>8
  <2>2. h \in 1 .. b /\ log[h]
    BY <1>8 DEF MappedIn
  <2> QED
    BY <1>5, <2>1, <2>2
<1>11. Ingested' = h
  <2>1. handled \in Seq(DOMAIN log) /\ h \in DOMAIN log
    BY <1>1, <1>2, HeadTailProperties DEF TypeOK
  <2>2. handled' # <<>> /\ handled'[Len(handled')] = h
    BY <1>2, <2>1, AppendProperties
  <2> QED
    BY <1>1, <1>2, <2>2 DEF Ingested, Running, Last
<1>12. RoundEnd' = RoundEnd
  BY <1>2 DEF RoundEnd
<1>13. \A j \in Ingested + 1 .. RoundEnd : log[j] => h <= j
  <2> SUFFICES ASSUME NEW j \in Ingested + 1 .. RoundEnd, log[j]
               PROVE  h <= j
    OBVIOUS
  <2>1. j \in Nat /\ j > Ingested /\ 1 <= j /\ j \in DOMAIN log
    BY <1>3, <1>5, <1>7
  <2>2. CASE j <= b
    <3>1. j \in M
      BY <1>5, <2>1, <2>2 DEF MappedIn
    <3> QED
      BY <1>9, <2>1, <3>1
  <2>3. CASE j > b
    BY <1>5, <1>10, <2>1, <2>3
  <2> QED
    BY <1>5, <2>1, <2>2, <2>3
<1>14. h \in {i \in Ingested + 1 .. RoundEnd : log[i]}
  BY <1>3, <1>5, <1>7, <1>10
<1> HIDE DEF h
<1> QED
  BY <1>2, <1>3, <1>11, <1>12, <1>13, <1>14
  DEF Rounds!Ingest, Rounds!Waiting, IsMapped, Ingested, RoundEnd

(* A round ends with nothing left in it.                                   *)
LEMMA RoundEnds ==
    ASSUME PollInv, pc \in {"scan", "live"}, current_messages = <<>>,
           snapshot_last_seq # None,
           handled = Sorted(MappedIn(1, snapshot_last_seq)),
           snapshot_last_seq' = None, pc' = "live", UNCHANGED <<log, handled>>
    PROVE  Rounds!End
<1> DEFINE M == MappedIn(1, snapshot_last_seq)
           N == Len(handled)
<1>1. TypeOK /\ Running /\ RoundEnd = snapshot_last_seq
  BY DEF PollInv, Running, RoundEnd
<1>2. /\ snapshot_last_seq \in Nat /\ snapshot_last_seq <= Len(log)
      /\ Len(log) \in Nat /\ DOMAIN log = 1 .. Len(log)
  BY <1>1, LogFacts
<1>3. M \in SUBSET DOMAIN log /\ M \in SUBSET Nat /\ IsFiniteSet(M)
  BY <1>1, <1>2, MappedFinite
<1>4. FirstHandled(M)
  <2> HIDE DEF M
  <2>1. /\ Sorted(M) \in Seq(M) /\ Len(Sorted(M)) = Cardinality(M)
        /\ Cardinality(M) \in Nat /\ DOMAIN Sorted(M) = 1 .. Cardinality(M)
        /\ \A n \in 1 .. Cardinality(M) : Rank(Sorted(M)[n], M) = n - 1
    BY <1>3, SortedProperties
  <2>2. \A n \in 1 .. Cardinality(M) : Sorted(M)[n] \in M
    BY <2>1, ElementOfSeq
  <2>3. handled = Sorted(M)
    BY DEF M
  <2> QED
    BY <1>3, <2>1, <2>2, <2>3 DEF FirstHandled
<1>5. /\ Ingested \in 0 .. snapshot_last_seq
      /\ \A i \in M : i > Ingested <=> Rank(i, M) >= N
  BY <1>1, <1>2, <1>4, IngestedFacts
<1>6. \A i \in M : Rank(i, M) < N /\ Rank(i, M) \in Nat /\ N \in Nat
  <2> HIDE DEF M
  <2>1. handled = Sorted(M)
    BY DEF M
  <2>2. N = Cardinality(M) /\ N \in Nat
    BY <1>3, <2>1, SortedProperties
  <2>3. \A i \in M : Rank(i, M) \in 0 .. Cardinality(M) - 1
    BY <1>3, RankProperties
  <2> QED
    BY <2>2, <2>3
<1>7. \A i \in Ingested + 1 .. RoundEnd : ~log[i]
  <2> SUFFICES ASSUME NEW i \in Ingested + 1 .. RoundEnd, log[i] PROVE FALSE
    OBVIOUS
  <2>1. i > Ingested /\ i \in 1 .. snapshot_last_seq /\ i \in DOMAIN log
    BY <1>1, <1>2, <1>5
  <2>2. i \in M
    BY <2>1 DEF MappedIn
  <2> HIDE DEF M
  <2> QED
    BY <1>5, <1>6, <2>1, <2>2
<1>8. Ingested' = Ingested
  BY <1>1 DEF Ingested, Running
<1>9. RoundEnd # None /\ RoundEnd' = None
  BY <1>1 DEF RoundEnd
<1> QED
  BY <1>7, <1>8, <1>9
  DEF Rounds!End, Rounds!Waiting, IsMapped, Ingested, RoundEnd

LEMMA RoundBegins ==
    ASSUME PollInv, pc \in {"start", "scan", "live"},
           pc = "start" \/ snapshot_last_seq = None,
           pc' \in {"scan", "live"},
           NEW e \in next_seq - 1 .. Len(log), snapshot_last_seq' = e,
           UNCHANGED <<log, handled>>
    PROVE  Rounds!Begin
<1>1. TypeOK /\ Running /\ Running'
  BY DEF PollInv, Running
<1>2. next_seq \in Nat /\ 1 <= next_seq /\ Len(log) \in Nat
  BY <1>1, LogFacts
<1>3. e \in Ingested .. Len(log)
  BY <1>1, <1>2, IngestedBehind
<1>4. Ingested' = Ingested
  BY <1>1 DEF Ingested
<1>5. RoundEnd = None /\ RoundEnd' = e
  BY DEF RoundEnd
<1> QED
  BY <1>3, <1>4, <1>5 DEF Rounds!Begin, Ingested, RoundEnd

(* The worker ends, or a step the rounds do not see.                       *)
LEMMA RoundStays ==
    ASSUME UNCHANGED <<log, snapshot_last_seq, handled>>,
           pc' = pc \/ pc' \in {"stopped", "failed"}
    PROVE  Rounds!Exit \/ UNCHANGED <<log, Ingested, RoundEnd>>
BY DEF Rounds!Exit, Ingested, RoundEnd, Running

LEMMA PublishGrows ==
    ASSUME PollInv, NEW mapped \in BOOLEAN, Publish(mapped)
    PROVE  Rounds!Grow
<1>1. log \in Seq(BOOLEAN) /\ log' = Append(log, mapped)
  BY DEF PollInv, TypeOK, Publish
<1>2. Len(log') = Len(log) + 1 /\ log'[Len(log')] = mapped
  BY <1>1, AppendProperties
<1>3. UNCHANGED <<Ingested, RoundEnd>>
  BY DEF Publish, reading, Ingested, RoundEnd, Running
<1> QED
  BY <1>1, <1>2, <1>3 DEF Rounds!Grow, Ingested, RoundEnd

LEMMA RoundsInit == Init => Rounds!Init
BY DEF Init, Rounds!Init, Running

LEMMA RoundsNext ==
    ASSUME PollInv, [Next]_vars
    PROVE  Rounds!Next \/ UNCHANGED <<log, Ingested, RoundEnd>>
<1> USE DEF prefetched, environment, reading
<1>1. TypeOK /\ PagesInv
  BY DEF PollInv
<1>2. ASSUME NEW mapped \in BOOLEAN, Publish(mapped) PROVE Rounds!Grow
  BY <1>2, PublishGrows
<1>3. CASE Process
  BY <1>3, ProcessIngests DEF Rounds!Next
<1>4. CASE ReadStatus
  <2>1. Len(log) \in next_seq - 1 .. Len(log)
    BY <1>1, LogFacts
  <2> QED
    BY <1>4, <2>1, RoundBegins DEF ReadStatus, Rounds!Next
<1>5. CASE ScanEnds
  <2>1. snapshot_last_seq # None
    BY <1>1, <1>5 DEF ScanEnds, PagesInv
  <2> QED
    BY <1>5, <2>1, ScanEndsInv, RoundEnds DEF ScanEnds, Rounds!Next
<1>6. CASE Tick
  BY <1>6, TickInv, RoundEnds DEF Tick, Rounds!Next
<1>7. CASE TakePrefetched
  <2>1. prefetched_last_seq \in next_seq - 1 .. Len(log)
    BY <1>1, <1>7, LogFacts DEF TakePrefetched, PagesInv
  <2> QED
    BY <1>7, <2>1, RoundBegins DEF TakePrefetched, Rounds!Next
<1>8. CASE FetchPage
  <2>1. pc = "live" /\ UNCHANGED <<pc, log, handled>>
    BY <1>8 DEF FetchPage, Fetching
  <2>2. CASE snapshot_last_seq' = snapshot_last_seq
    BY <2>1, <2>2, RoundStays DEF Rounds!Next
  <2>3. CASE snapshot_last_seq = None /\ snapshot_last_seq' = Len(log)
    <3>1. Len(log) \in next_seq - 1 .. Len(log)
      BY <1>1, LogFacts
    <3> QED
      BY <2>1, <2>3, <3>1, RoundBegins DEF Rounds!Next
  <2> QED
    BY <1>8, <2>2, <2>3, FetchPageInv
<1>9. CASE ScanPage \/ LiveFetchFails \/ ScanFetchFails \/ StatusFails
           \/ SetStop \/ Stops \/ UNCHANGED vars
  <2>1. /\ UNCHANGED <<log, snapshot_last_seq, handled>>
        /\ pc' = pc \/ pc' \in {"stopped", "failed"}
    BY <1>9 DEF ScanPage, LiveFetchFails, Fetching, ScanFetchFails, StatusFails,
       CallFails, SetStop, Stops, vars
  <2> QED
    BY <2>1, RoundStays DEF Rounds!Next
<1> QED
  BY <1>2, <1>3, <1>4, <1>5, <1>6, <1>7, <1>8, <1>9 DEF Next, Worker, Rounds!Next

(* The scan and the polling loop together implement the rounds that         *)
(* P2PSyncer assumes: whatever the pages, the failures, the stop event and  *)
(* the growth of the log, a round ingests what is up to its end, in order.  *)
THEOREM PollIsIngestRounds == Spec => ImplementsIngestRounds
<1>1. PollInv /\ [Next]_vars
        => [Rounds!Next]_<<log,
             IF Running /\ handled # <<>> THEN Last(handled) ELSE 0,
             IF pc \in {"scan", "live"} THEN snapshot_last_seq ELSE None>>
  BY RoundsNext DEF Ingested, RoundEnd
<1> QED
  BY <1>1, RoundsInit, PollInvariant, PTL
  DEF Spec, ImplementsIngestRounds, Rounds!Spec

=============================================================================
