---------------------------- MODULE PullerProofs ----------------------------
(***************************************************************************)
(* Theorems about ProviderMessagePuller, for all sessions, bounds and       *)
(* interleavings with the provider and its connection: history windows and  *)
(* pushed events lose nothing, and are one acknowledged stream per session. *)
(***************************************************************************)
EXTENDS ProviderMessagePuller, SortedSeqProofs

-----------------------------------------------------------------------------
(* Numbers and sequences.                                                  *)

LEMMA MaxMinOfTwo ==
    ASSUME NEW a \in Int, NEW b \in Int
    PROVE  /\ Max({a, b}) = IF a >= b THEN a ELSE b
           /\ Min({a, b}) = IF a <= b THEN a ELSE b
<1>1. ASSUME NEW m \in {a, b}, \A y \in {a, b} : m >= y
      PROVE  Max({a, b}) = m
  BY <1>1 DEF Max
<1>2. ASSUME NEW m \in {a, b}, \A y \in {a, b} : m <= y
      PROVE  Min({a, b}) = m
  BY <1>2 DEF Min
<1>3. CASE a >= b
  <2>1. Max({a, b}) = a
    BY <1>1, <1>3
  <2>2. Min({a, b}) = b
    BY <1>2, <1>3
  <2> QED
    BY <1>3, <2>1, <2>2
<1>4. CASE ~(a >= b)
  <2>1. Max({a, b}) = b
    BY <1>1, <1>4
  <2>2. Min({a, b}) = a
    BY <1>2, <1>4
  <2> QED
    BY <1>4, <2>1, <2>2
<1> QED
  BY <1>3, <1>4

LEMMA MinOfSet ==
    ASSUME NEW S \in SUBSET Nat, IsFiniteSet(S), S # {}
    PROVE  Min(S) \in S /\ \A y \in S : Min(S) <= y
<1>1. Cardinality(S) \in Nat /\ Cardinality(S) # 0
  BY FS_CardinalityType, FS_EmptySet
<1>2. PICK m \in S : Rank(m, S) = 0
  <2>1. 1 \in 1 .. Cardinality(S)
    BY <1>1
  <2>2. \E i \in S : Rank(i, S) = 1 - 1
    BY <2>1, RankTaken
  <2> QED
    BY <2>2
<1>3. {j \in S : j < m} = {}
  <2>1. IsFiniteSet({j \in S : j < m})
    BY FS_Subset
  <2> QED
    BY <1>2, <2>1, FS_EmptySet DEF Rank
<1>4. \A y \in S : m <= y
  BY <1>3
<1> QED
  BY <1>4 DEF Min

(* The largest of the marks of a session; None is no mark.                  *)
LEMMA MaxOfMarks ==
    ASSUME NEW a \in Nat \cup {None}, NEW b \in Nat
    PROVE  /\ Max({a, b} \ {None}) = IF a = None THEN b
                                     ELSE IF a >= b THEN a ELSE b
           /\ Max({0, b, a} \ {None}) = IF a = None THEN b
                                        ELSE IF a >= b THEN a ELSE b
<1>1. None \notin Nat
  BY PullerAssumption
<1>2. CASE a = None
  <2>1. {a, b} \ {None} = {b, b} /\ {0, b, a} \ {None} = {0, b}
    BY <1>1, <1>2
  <2>2. Max({b, b}) = b /\ Max({0, b}) = b
    BY MaxMinOfTwo
  <2> QED
    BY <1>2, <2>1, <2>2
<1>3. CASE a # None
  <2>1. {a, b} \ {None} = {a, b} /\ {0, b, a} \ {None} = {0, a, b}
    BY <1>1, <1>3
  <2>2. Max({a, b}) = IF a >= b THEN a ELSE b
    BY <1>3, MaxMinOfTwo
  <2>3. Max({0, a, b}) = IF a >= b THEN a ELSE b
    <3>1. ASSUME NEW m \in {0, a, b}, \A y \in {0, a, b} : m >= y
          PROVE  Max({0, a, b}) = m
      BY <1>3, <3>1 DEF Max
    <3> QED
      BY <1>3, <3>1
  <2> QED
    BY <1>3, <2>1, <2>2, <2>3
<1> QED
  BY <1>2, <1>3

LEMMA Modulus ==
    ASSUME NEW a \in Nat, NEW b \in Nat \ {0}
    PROVE  a % b \in 0 .. b - 1
OBVIOUS

Increasing(q) == \A m, n \in DOMAIN q : m < n => q[m] < q[n]

LEMMA SeqRange ==
    ASSUME NEW S, NEW q \in Seq(S)
    PROVE  /\ Range(q) \subseteq S
           /\ Len(q) \in Nat
           /\ DOMAIN q = 1 .. Len(q)
<1>1. Len(q) \in Nat /\ DOMAIN q = 1 .. Len(q)
  BY LenProperties
<1>2. Range(q) \subseteq S
  BY <1>1, ElementOfSeq DEF Range
<1> QED
  BY <1>1, <1>2

LEMMA EmptyRange == Range(<<>>) = {}
<1>1. DOMAIN <<>> = {}
  OBVIOUS
<1> QED
  BY <1>1 DEF Range

LEMMA TailKeeps ==
    ASSUME NEW S \in SUBSET Nat, NEW q \in Seq(S), q # <<>>
    PROVE  /\ Head(q) \in Range(q) /\ Head(q) \in S /\ Tail(q) \in Seq(S)
           /\ Len(Tail(q)) = Len(q) - 1
           /\ Range(Tail(q)) \subseteq Range(q)
           /\ Range(q) \subseteq Range(Tail(q)) \cup {Head(q)}
           /\ Increasing(q) => /\ Increasing(Tail(q))
                               /\ \A x \in Range(Tail(q)) : Head(q) < x
<1>1. /\ Len(q) \in Nat /\ Len(q) # 0 /\ DOMAIN q = 1 .. Len(q)
      /\ Head(q) = q[1] /\ Tail(q) \in Seq(S) /\ Len(Tail(q)) = Len(q) - 1
      /\ \A n \in 1 .. Len(q) - 1 : Tail(q)[n] = q[n + 1]
      /\ \A n \in 1 .. Len(q) : q[n] \in S
  BY LenProperties, EmptySeq, HeadTailProperties, ElementOfSeq
<1>2. DOMAIN Tail(q) = 1 .. Len(q) - 1
  BY <1>1, LenProperties
<1>3. Range(Tail(q)) \subseteq Range(q)
  BY <1>1, <1>2 DEF Range
<1>4. Range(q) \subseteq Range(Tail(q)) \cup {Head(q)}
  <2> SUFFICES ASSUME NEW n \in DOMAIN q, n # 1
               PROVE  q[n] \in Range(Tail(q))
    BY <1>1 DEF Range
  <2>1. n - 1 \in 1 .. Len(q) - 1 /\ q[n] = Tail(q)[n - 1]
    BY <1>1
  <2> QED
    BY <1>2, <2>1 DEF Range
<1>5. ASSUME Increasing(q)
      PROVE  Increasing(Tail(q)) /\ \A x \in Range(Tail(q)) : Head(q) < x
  BY <1>1, <1>2, <1>5 DEF Range, Increasing
<1> QED
  BY <1>1, <1>3, <1>4, <1>5 DEF Range

LEMMA AppendKeeps ==
    ASSUME NEW S \in SUBSET Nat, NEW q \in Seq(S), NEW e \in S
    PROVE  /\ Append(q, e) \in Seq(S) /\ Len(Append(q, e)) = Len(q) + 1
           /\ Range(Append(q, e)) = Range(q) \cup {e}
           /\ (Increasing(q) /\ \A x \in Range(q) : x < e)
                => Increasing(Append(q, e))
<1>1. /\ Len(q) \in Nat /\ DOMAIN q = 1 .. Len(q)
      /\ Append(q, e) \in Seq(S) /\ Len(Append(q, e)) = Len(q) + 1
      /\ \A n \in 1 .. Len(q) : Append(q, e)[n] = q[n]
      /\ Append(q, e)[Len(q) + 1] = e
  BY LenProperties, AppendProperties
<1>2. DOMAIN Append(q, e) = 1 .. Len(q) + 1
  BY <1>1, LenProperties
<1>3. Range(Append(q, e)) = Range(q) \cup {e}
  BY <1>1, <1>2 DEF Range
<1>4. ASSUME Increasing(q), \A x \in Range(q) : x < e
      PROVE  Increasing(Append(q, e))
  <2> SUFFICES ASSUME NEW m \in 1 .. Len(q) + 1, NEW n \in 1 .. Len(q) + 1, m < n
               PROVE  Append(q, e)[m] < Append(q, e)[n]
    BY <1>2 DEF Increasing
  <2>1. m \in 1 .. Len(q)
    BY <1>1
  <2>2. CASE n = Len(q) + 1
    BY <1>1, <1>4, <2>1, <2>2 DEF Range
  <2>3. CASE n # Len(q) + 1
    BY <1>1, <1>4, <2>1, <2>3 DEF Increasing
  <2> QED
    BY <2>2, <2>3
<1> QED
  BY <1>1, <1>3, <1>4

LEMMA RemoveKeeps ==
    ASSUME NEW S \in SUBSET Nat, NEW q \in Seq(S), NEW k \in DOMAIN q
    PROVE  /\ RemoveAt(q, k) \in Seq(S) /\ Len(RemoveAt(q, k)) = Len(q) - 1
           /\ Range(RemoveAt(q, k)) \subseteq Range(q)
           /\ Range(q) \subseteq Range(RemoveAt(q, k)) \cup {q[k]}
           /\ Increasing(q) => Increasing(RemoveAt(q, k))
<1> DEFINE r == RemoveAt(q, k)
<1>1. Len(q) \in Nat /\ DOMAIN q = 1 .. Len(q) /\ k \in 1 .. Len(q)
  BY LenProperties
<1>a. PICK before : before = SubSeq(q, 1, k - 1)
  OBVIOUS
<1>b. PICK after : after = SubSeq(q, k + 1, Len(q))
  OBVIOUS
<1>2. /\ before \in Seq(S) /\ Len(before) = k - 1
      /\ \A n \in 1 .. k - 1 : before[n] = q[n]
  <2>1. 1 \in Int /\ k - 1 \in Int /\ \A i \in 1 .. k - 1 : q[i] \in S
    BY <1>1, ElementOfSeq
  <2> QED
    BY <1>1, <1>a, <2>1, SubSeqProperties
<1>3. /\ after \in Seq(S) /\ Len(after) = Len(q) - k
      /\ \A n \in 1 .. Len(q) - k : after[n] = q[n + k]
  <2>1. k + 1 \in Int /\ Len(q) \in Int /\ \A i \in k + 1 .. Len(q) : q[i] \in S
    BY <1>1, ElementOfSeq
  <2> QED
    BY <1>1, <1>b, <2>1, SubSeqProperties
<1>4. /\ r \in Seq(S) /\ Len(r) = Len(q) - 1
      /\ \A n \in 1 .. Len(q) - 1 : r[n] = IF n < k THEN q[n] ELSE q[n + 1]
  <2>1. r = before \o after
    BY <1>a, <1>b DEF RemoveAt
  <2> HIDE DEF r
  <2>2. /\ r \in Seq(S) /\ Len(r) = Len(before) + Len(after)
        /\ \A n \in 1 .. Len(before) + Len(after) :
             r[n] = IF n <= Len(before) THEN before[n] ELSE after[n - Len(before)]
    <3>1. before \in Seq(S) /\ after \in Seq(S)
      BY <1>2, <1>3
    <3> QED
      BY <2>1, <3>1, ConcatProperties
  <2>3. Len(before) + Len(after) = Len(q) - 1
    BY <1>1, <1>2, <1>3
  <2>4. ASSUME NEW n \in 1 .. Len(q) - 1
        PROVE  r[n] = IF n < k THEN q[n] ELSE q[n + 1]
    <3>1. CASE n < k
      BY <1>1, <1>2, <2>2, <2>3, <3>1
    <3>2. CASE ~(n < k)
      <4>1. n - (k - 1) \in 1 .. Len(q) - k /\ (n - (k - 1)) + k = n + 1
        BY <1>1, <3>2
      <4>2. r[n] = after[n - (k - 1)]
        BY <1>1, <1>2, <2>2, <2>3, <3>2
      <4> QED
        BY <1>3, <3>2, <4>1, <4>2
    <3> QED
      BY <3>1, <3>2
  <2> QED
    BY <2>2, <2>3, <2>4
<1>5. DOMAIN r = 1 .. Len(q) - 1
  BY <1>4, LenProperties
<1> HIDE DEF r
<1>6. Range(r) \subseteq Range(q)
  BY <1>1, <1>4, <1>5 DEF Range
<1>7. Range(q) \subseteq Range(r) \cup {q[k]}
  <2> SUFFICES ASSUME NEW n \in 1 .. Len(q), n # k PROVE q[n] \in Range(r)
    BY <1>1 DEF Range
  <2>1. CASE n < k
    BY <1>1, <1>4, <1>5, <2>1 DEF Range
  <2>2. CASE n > k
    <3>1. n - 1 \in 1 .. Len(q) - 1 /\ r[n - 1] = q[n]
      BY <1>1, <1>4, <2>2
    <3> QED
      BY <1>5, <3>1 DEF Range
  <2> QED
    BY <1>1, <2>1, <2>2
<1>8. ASSUME Increasing(q), NEW m \in DOMAIN r, NEW n \in DOMAIN r, m < n
      PROVE  r[m] < r[n]
  <2>1. /\ \A i \in S : i \in Nat
        /\ \A i \in 1 .. Len(q) : q[i] \in S
    BY ElementOfSeq
  <2>2. PICK x \in {m, m + 1} : r[m] = q[x] /\ (x = m \/ ~(m < k))
    BY <1>4, <1>5
  <2>3. PICK y \in {n, n + 1} : r[n] = q[y] /\ (y = n + 1 \/ n < k)
    BY <1>4, <1>5
  <2>4. x \in DOMAIN q /\ y \in DOMAIN q /\ x < y
    BY <1>1, <1>5, <1>8, <2>2, <2>3
  <2> QED
    BY <1>8, <2>2, <2>3, <2>4 DEF Increasing
<1> QED
  BY <1>4, <1>6, <1>7, <1>8 DEF r, Increasing

-----------------------------------------------------------------------------
(* Types.                                                                  *)

TypeInv == TypeOK /\ Len(chat) <= MaxPosts

LEMMA ConstantFacts ==
    /\ PageSize \in Nat /\ PageSize > 0
    /\ EventQueueSize \in Nat /\ EventQueueSize > 0
    /\ HistoryLookback \in Nat /\ HistoryOverlap \in Nat /\ ClockAhead \in Nat
    /\ MaxPosts \in Nat /\ MaxReconnects \in Nat /\ None \notin Nat
    /\ Messages \in SUBSET Nat /\ None \notin Messages
BY PullerAssumption DEF Messages

LEMMA ChatFacts ==
    ASSUME TypeInv
    PROVE  /\ Len(chat) \in Nat /\ DOMAIN chat = 1 .. Len(chat)
           /\ Len(chat) <= MaxPosts /\ Now \in Nat /\ Now = Len(chat) + ClockAhead
           /\ DOMAIN chat \subseteq Messages /\ DOMAIN chat \in SUBSET Nat
           /\ IsFiniteSet(DOMAIN chat)
<1>1. Len(chat) \in Nat /\ DOMAIN chat = 1 .. Len(chat) /\ Len(chat) <= MaxPosts
  BY LenProperties DEF TypeInv, TypeOK
<1>2. IsFiniteSet(1 .. Len(chat))
  BY <1>1, FS_Interval
<1> QED
  BY <1>1, <1>2, ConstantFacts DEF Now, Messages

LEMMA StateFacts ==
    ASSUME TypeInv, NEW s \in Sessions
    PROVE  /\ session[s] \in SessionPullState
           /\ session[s].confirmed_event_ms \in Nat \cup {None}
           /\ session[s].history_highwater_ms \in Nat \cup {None}
           /\ session[s].history_scan \in HistoryScan \cup {None}
           /\ session[s].history_events \in Seq(Messages)
           /\ session[s].in_flight \in Messages \cup {None}
           /\ session[s].retry_waits \in BOOLEAN
           /\ since[s] \in Nat
BY DEF TypeInv, TypeOK, SessionPullState

LEMMA ScanFacts ==
    ASSUME NEW scan \in HistoryScan
    PROVE  /\ scan.start_ms \in Nat /\ scan.end_ms \in Nat
           /\ scan.page_token \in Nat /\ scan # None
<1>1. scan.start_ms \in Nat /\ scan.end_ms \in Nat /\ scan.page_token \in Nat
  BY DEF HistoryScan
<1>2. scan # None
  BY PullerAssumption
<1> QED
  BY <1>1, <1>2

(* The marks of a session, and the window a reconnection opens.             *)
LEMMA ConfirmedFacts ==
    ASSUME TypeInv, NEW s \in Sessions
    PROVE  ConfirmedMs(s) =
             IF session[s].confirmed_event_ms = None
             THEN session[s].history_highwater_ms
             ELSE IF session[s].history_highwater_ms = None
             THEN session[s].confirmed_event_ms
             ELSE IF session[s].confirmed_event_ms
                       >= session[s].history_highwater_ms
             THEN session[s].confirmed_event_ms
             ELSE session[s].history_highwater_ms
<1>1. PICK c \in Nat \cup {None} : c = session[s].confirmed_event_ms
  BY StateFacts
<1>2. PICK h \in Nat \cup {None} : h = session[s].history_highwater_ms
  BY StateFacts
<1>3. ConfirmedMs(s) = IF {c, h} \ {None} = {} THEN None ELSE Max({c, h} \ {None})
  BY <1>1, <1>2 DEF ConfirmedMs
<1>4. CASE h = None
  <2>1. CASE c = None
    <3>1. {c, h} \ {None} = {}
      BY <1>4, <2>1
    <3> QED
      BY <1>1, <1>2, <1>3, <1>4, <2>1, <3>1
  <2>2. CASE c # None
    <3>1. {c, h} \ {None} = {c, c} /\ {c, h} \ {None} # {}
      BY <1>4, <2>2
    <3>2. Max({c, c}) = c
      BY <2>2, MaxMinOfTwo
    <3> QED
      BY <1>1, <1>2, <1>3, <1>4, <2>2, <3>1, <3>2
  <2> QED
    BY <2>1, <2>2
<1>5. CASE h # None
  <2>1. h \in Nat /\ {c, h} \ {None} # {}
    BY <1>5
  <2>2. Max({c, h} \ {None}) = IF c = None THEN h ELSE IF c >= h THEN c ELSE h
    BY <2>1, MaxOfMarks
  <2> QED
    BY <1>1, <1>2, <1>3, <1>5, <2>1, <2>2
<1> QED
  BY <1>4, <1>5

LEMMA NewScanFacts ==
    ASSUME TypeInv, NEW c \in Nat \cup {None}
    PROVE  /\ NewHistoryScan(c) \in HistoryScan
           /\ NewHistoryScan(c).end_ms = Now
           /\ NewHistoryScan(c).page_token = 0
           /\ c # None => \/ NewHistoryScan(c).start_ms = 0
                          \/ NewHistoryScan(c).start_ms + HistoryOverlap <= c
           /\ c # None /\ c <= Now =>
                c <= NewHistoryScan(c).start_ms + HistoryOverlap
           /\ c = None => \/ NewHistoryScan(c).start_ms = 0
                          \/ NewHistoryScan(c).start_ms
                               = Now - HistoryLookback
<1>1. Now \in Nat /\ HistoryOverlap \in Nat /\ HistoryLookback \in Nat
  BY ChatFacts, ConstantFacts
<1>2. PICK x : x = NewHistoryScan(c).start_ms
  OBVIOUS
<1>3. CASE c = None
  <2>1. x = Max({0, Now - HistoryLookback})
    BY <1>2, <1>3 DEF NewHistoryScan
  <2>2. x \in Nat /\ (x = 0 \/ x = Now - HistoryLookback)
    BY <1>1, <2>1, MaxMinOfTwo
  <2> QED
    BY <1>1, <1>2, <1>3, <2>2 DEF NewHistoryScan, HistoryScan
<1>4. CASE c # None
  <2>1. x = Max({0, Min({c, Now}) - HistoryOverlap})
    BY <1>2, <1>4 DEF NewHistoryScan
  <2>2. PICK m \in Nat : m = Min({c, Now}) /\ m <= c /\ (c <= Now => m = c)
    BY <1>1, <1>4, MaxMinOfTwo
  <2>3. x \in Nat /\ (x = 0 \/ x = m - HistoryOverlap) /\ m <= x + HistoryOverlap
    BY <1>1, <2>1, <2>2, MaxMinOfTwo
  <2> QED
    BY <1>1, <1>2, <1>4, <2>2, <2>3 DEF NewHistoryScan, HistoryScan
<1> QED
  BY <1>3, <1>4

LEMMA ReplacementFacts ==
    ASSUME TypeInv, NEW s \in Sessions
    PROVE  /\ Replacement(s) \in HistoryScan
           /\ Replacement(s).end_ms = Now /\ Replacement(s).page_token = 0
           /\ session[s].history_scan # None =>
                Replacement(s).start_ms <= session[s].history_scan.start_ms
           /\ ConfirmedMs(s) # None =>
                \/ Replacement(s).start_ms = 0
                \/ Replacement(s).start_ms + HistoryOverlap <= ConfirmedMs(s)
<1>1. ConfirmedMs(s) \in Nat \cup {None}
  BY ConfirmedFacts, StateFacts
<1>2. PICK new \in HistoryScan : new = NewHistoryScan(ConfirmedMs(s))
  BY <1>1, NewScanFacts
<1>3. /\ new.end_ms = Now /\ new.page_token = 0 /\ new.start_ms \in Nat
      /\ ConfirmedMs(s) # None =>
           new.start_ms = 0 \/ new.start_ms + HistoryOverlap <= ConfirmedMs(s)
  BY <1>1, <1>2, NewScanFacts, ScanFacts
<1>4. CASE session[s].history_scan = None
  BY <1>2, <1>3, <1>4 DEF Replacement
<1>5. CASE session[s].history_scan # None
  <2>1. PICK scan \in HistoryScan : scan = session[s].history_scan
    BY <1>5, StateFacts
  <2>2. scan.start_ms \in Nat
    BY <2>1, ScanFacts
  <2>3. PICK m \in Nat : m = Min({new.start_ms, scan.start_ms})
                         /\ m <= new.start_ms /\ m <= scan.start_ms
    <3>1. new.start_ms \in Int /\ scan.start_ms \in Int
      BY <1>3, <2>2
    <3>2. Min({new.start_ms, scan.start_ms})
            = IF new.start_ms <= scan.start_ms THEN new.start_ms
              ELSE scan.start_ms
      BY <3>1, MaxMinOfTwo
    <3> QED
      BY <1>3, <2>2, <3>2
  <2>4. Replacement(s) = [new EXCEPT !.start_ms = m]
    BY <1>2, <1>5, <2>1, <2>3 DEF Replacement
  <2>5. /\ Replacement(s) \in HistoryScan /\ Replacement(s).start_ms = m
        /\ Replacement(s).end_ms = new.end_ms
        /\ Replacement(s).page_token = new.page_token
    BY <1>2, <2>3, <2>4 DEF HistoryScan
  <2> QED
    BY <1>1, <1>3, <2>1, <2>2, <2>3, <2>5, ConstantFacts
<1> QED
  BY <1>4, <1>5

(* A page: what the window holds, in order.                                *)
WindowOf(s) ==
    {i \in DOMAIN chat : chat[i] = s /\ InWindow(i, session[s].history_scan)}

Page(s) == SubSeq(Remaining(s), 2, Min({PageSize, Len(Remaining(s))}))

LEMMA RemainingFacts ==
    ASSUME TypeInv, NEW s \in Sessions
    PROVE  /\ Remaining(s) = Sorted(WindowOf(s))
           /\ WindowOf(s) \in SUBSET DOMAIN chat /\ WindowOf(s) \in SUBSET Nat
           /\ Remaining(s) \in Seq(WindowOf(s))
           /\ Len(Remaining(s)) \in Nat
           /\ DOMAIN Remaining(s) = 1 .. Len(Remaining(s))
           /\ \A m, n \in 1 .. Len(Remaining(s)) :
                m < n <=> Remaining(s)[m] < Remaining(s)[n]
           /\ \A i \in WindowOf(s) :
                \E n \in 1 .. Len(Remaining(s)) : Remaining(s)[n] = i
           /\ \A n \in 1 .. Len(Remaining(s)) : Remaining(s)[n] \in WindowOf(s)
           /\ Remaining(s) = <<>> <=> WindowOf(s) = {}
<1> DEFINE W == WindowOf(s)
<1>1. Remaining(s) = Sorted(W)
  BY DEF Remaining, WindowOf
<1>2. W \in SUBSET DOMAIN chat /\ W \in SUBSET Nat /\ IsFiniteSet(W)
  <2>1. W \in SUBSET DOMAIN chat
    BY DEF WindowOf
  <2> HIDE DEF W
  <2> QED
    BY <2>1, ChatFacts, FS_Subset
<1> HIDE DEF W
<1>3. /\ Sorted(W) \in Seq(W) /\ Len(Sorted(W)) = Cardinality(W)
      /\ Cardinality(W) \in Nat /\ DOMAIN Sorted(W) = 1 .. Cardinality(W)
      /\ \A m, n \in 1 .. Cardinality(W) : m < n <=> Sorted(W)[m] < Sorted(W)[n]
      /\ \A i \in W : /\ Rank(i, W) + 1 \in 1 .. Cardinality(W)
                      /\ Sorted(W)[Rank(i, W) + 1] = i
  BY <1>2, SortedProperties
<1>4. \A n \in 1 .. Cardinality(W) : Sorted(W)[n] \in W
  BY <1>3, ElementOfSeq
<1>5. Sorted(W) = <<>> <=> W = {}
  BY <1>2, SortedEmpty
<1>6. WindowOf(s) = W
  BY DEF W
<1> QED
  BY <1>1, <1>2, <1>3, <1>4, <1>5, <1>6

(* A page takes the first messages of the window; if it does not take all   *)
(* of them, the last one taken is the new page token.                      *)
LEMMA PageFacts ==
    ASSUME TypeInv, NEW s \in Sessions, Remaining(s) # <<>>
    PROVE  /\ Page(s) \in Seq(WindowOf(s)) /\ Increasing(Page(s))
           /\ Head(Remaining(s)) \in WindowOf(s)
           /\ \A i \in WindowOf(s) : Head(Remaining(s)) <= i
           /\ Len(Remaining(s)) > PageSize =>
                /\ Remaining(s)[PageSize] \in WindowOf(s)
                /\ \A i \in WindowOf(s) :
                     \/ i = Head(Remaining(s)) \/ i \in Range(Page(s))
                     \/ Remaining(s)[PageSize] < i
                /\ \A h \in Range(Page(s)) : h <= Remaining(s)[PageSize]
           /\ ~(Len(Remaining(s)) > PageSize) =>
                \A i \in WindowOf(s) :
                   i = Head(Remaining(s)) \/ i \in Range(Page(s))
<1>1. PICK W : W = WindowOf(s)
  OBVIOUS
<1>2. PICK found : found = Remaining(s)
  OBVIOUS
<1>3. PICK N : N = Len(found)
  OBVIOUS
<1>4. PICK p \in Nat : p = PageSize /\ p > 0
  BY ConstantFacts
<1>5. /\ found \in Seq(W) /\ W \in SUBSET Nat /\ N \in Nat /\ N # 0
      /\ DOMAIN found = 1 .. N
      /\ \A m, n \in 1 .. N : m < n <=> found[m] < found[n]
      /\ \A i \in W : \E n \in 1 .. N : found[n] = i
      /\ \A n \in 1 .. N : found[n] \in W
      /\ found # <<>> /\ Head(found) = found[1]
  <2>1. found \in Seq(W) /\ found # <<>>
    BY <1>1, <1>2, RemainingFacts
  <2>2. N \in Nat /\ N # 0
    BY <1>3, <2>1, EmptySeq
  <2>3. W \in SUBSET Nat /\ DOMAIN found = 1 .. N
    BY <1>1, <1>2, <1>3, RemainingFacts
  <2>4. \A m, n \in 1 .. N : m < n <=> found[m] < found[n]
    BY <1>2, <1>3, RemainingFacts
  <2>5. /\ \A i \in W : \E n \in 1 .. N : found[n] = i
        /\ \A n \in 1 .. N : found[n] \in W
    BY <1>1, <1>2, <1>3, RemainingFacts
  <2>6. Head(found) = found[1]
    BY <2>1, HeadTailProperties
  <2> QED
    BY <2>1, <2>2, <2>3, <2>4, <2>5, <2>6
<1>6. PICK k \in Nat : k = Min({p, N}) /\ k <= N /\ k <= p /\ 1 <= k
                       /\ (k = p \/ k = N)
  <2>1. p \in Int /\ N \in Int
    BY <1>4, <1>5
  <2>2. Min({p, N}) = IF p <= N THEN p ELSE N
    BY <2>1, MaxMinOfTwo
  <2> QED
    BY <1>4, <1>5, <2>2
<1>7. PICK page : page = SubSeq(found, 2, k)
  OBVIOUS
<1>8. Page(s) = page
  BY <1>2, <1>3, <1>4, <1>6, <1>7 DEF Page
<1>9. /\ page \in Seq(W) /\ DOMAIN page = 1 .. k - 1
      /\ \A n \in 1 .. k - 1 : page[n] = found[n + 1]
  <2>1. 2 \in Int /\ k \in Int /\ \A i \in 2 .. k : found[i] \in W
    <3>1. \A i \in 2 .. k : i \in 1 .. N
      BY <1>5, <1>6
    <3>2. \A n \in 1 .. N : found[n] \in W
      BY <1>5
    <3>3. 2 \in Int /\ k \in Int
      OBVIOUS
    <3> QED
      BY <3>1, <3>2, <3>3
  <2>2. /\ page \in Seq(W) /\ Len(page) = IF 2 <= k THEN k - 2 + 1 ELSE 0
        /\ \A n \in 1 .. k - 2 + 1 : page[n] = found[2 + n - 1]
    BY <1>7, <2>1, SubSeqProperties
  <2>3. DOMAIN page = 1 .. Len(page)
    BY <2>2, LenProperties
  <2>4. Len(page) = k - 1
    BY <1>6, <2>2
  <2>5. ASSUME NEW n \in 1 .. k - 1 PROVE page[n] = found[n + 1]
    <3>1. n \in 1 .. k - 2 + 1 /\ 2 + n - 1 = n + 1
      BY <1>6
    <3> QED
      BY <2>2, <3>1
  <2> QED
    BY <2>2, <2>3, <2>4, <2>5
<1>10. Increasing(page)
  <2> SUFFICES ASSUME NEW m \in 1 .. k - 1, NEW n \in 1 .. k - 1, m < n
               PROVE  page[m] < page[n]
    BY <1>9 DEF Increasing
  <2>1. m + 1 \in 1 .. N /\ n + 1 \in 1 .. N /\ m + 1 < n + 1
    BY <1>5, <1>6
  <2> QED
    BY <1>5, <1>9, <2>1
<1>11. ASSUME NEW i \in W PROVE Head(found) <= i
  <2>1. PICK n \in 1 .. N : found[n] = i
    BY <1>5
  <2>2. 1 \in 1 .. N /\ (n = 1 \/ 1 < n)
    BY <1>5
  <2>3. found[1] \in Nat /\ i \in Nat
    BY <1>5, <2>2
  <2> QED
    BY <1>5, <2>1, <2>2, <2>3
<1>12. ASSUME NEW n \in 1 .. k
       PROVE  found[n] = Head(found) \/ found[n] \in Range(page)
  <2>1. CASE n = 1
    BY <1>5, <2>1
  <2>2. CASE n # 1
    <3>1. n - 1 \in 1 .. k - 1 /\ (n - 1) + 1 = n
      BY <1>6, <2>2
    <3> QED
      BY <1>9, <3>1 DEF Range
  <2> QED
    BY <2>1, <2>2
<1>13. ASSUME N > p
       PROVE  /\ found[p] \in W
              /\ \A i \in W : \/ i = Head(found) \/ i \in Range(page)
                              \/ found[p] < i
              /\ \A h \in Range(page) : h <= found[p]
  <2>1. k = p /\ p \in 1 .. N
    BY <1>4, <1>5, <1>6, <1>13
  <2>2. ASSUME NEW i \in W
        PROVE  i = Head(found) \/ i \in Range(page) \/ found[p] < i
    <3>1. PICK n \in 1 .. N : found[n] = i
      BY <1>5
    <3>2. n \in 1 .. k \/ p < n
      BY <2>1
    <3> QED
      BY <1>5, <1>12, <2>1, <3>1, <3>2
  <2>3. ASSUME NEW n \in 1 .. k - 1 PROVE page[n] <= found[p]
    <3>1. n + 1 \in 1 .. N /\ (n + 1 = p \/ n + 1 < p)
      BY <1>5, <2>1
    <3>2. found[n + 1] \in Nat /\ found[p] \in Nat
      BY <1>5, <2>1, <3>1
    <3> QED
      BY <1>5, <1>9, <2>1, <3>1, <3>2
  <2> QED
    BY <1>5, <1>9, <2>1, <2>2, <2>3 DEF Range
<1>14. ASSUME ~(N > p), NEW i \in W
       PROVE  i = Head(found) \/ i \in Range(page)
  <2>1. PICK n \in 1 .. N : found[n] = i
    BY <1>5
  <2>2. n \in 1 .. k
    BY <1>4, <1>5, <1>6, <1>14
  <2> QED
    BY <1>12, <2>1, <2>2
<1>15. Head(found) \in W
  BY <1>5
<1> QED
  BY <1>1, <1>2, <1>3, <1>4, <1>8, <1>9, <1>10, <1>11, <1>13, <1>14, <1>15

(* The session once a page was read.                                       *)
LEMMA ScannedFacts ==
    ASSUME TypeInv, NEW s \in Sessions, session[s].history_scan # None
    PROVE  LET state == session[s]
               scanned == Scanned(s)
           IN  /\ scanned \in SessionPullState
               /\ scanned.confirmed_event_ms = state.confirmed_event_ms
               /\ scanned.history_events = state.history_events
               /\ scanned.in_flight = state.in_flight
               /\ Len(Remaining(s)) > PageSize =>
                    /\ scanned.history_highwater_ms = state.history_highwater_ms
                    /\ scanned.history_scan \in HistoryScan
                    /\ scanned.history_scan.start_ms = state.history_scan.start_ms
                    /\ scanned.history_scan.end_ms = state.history_scan.end_ms
                    /\ scanned.history_scan.page_token = Remaining(s)[PageSize]
               /\ ~(Len(Remaining(s)) > PageSize) =>
                    /\ scanned.history_scan = None
                    /\ scanned.history_highwater_ms \in Nat
                    /\ scanned.history_highwater_ms \in
                         {state.history_scan.end_ms, state.history_highwater_ms}
<1>1. PICK state \in SessionPullState : state = session[s]
  BY StateFacts
<1>2. PICK scan \in HistoryScan : scan = state.history_scan
  BY <1>1, StateFacts
<1>3. PICK found : found = Remaining(s)
  OBVIOUS
<1>4. CASE Len(found) > PageSize
  <2>1. found[PageSize] \in Nat
    <3>1. Len(found) \in Nat /\ PageSize \in 1 .. Len(found)
      BY <1>3, <1>4, RemainingFacts, ConstantFacts
    <3> QED
      BY <1>3, <3>1, RemainingFacts
  <2>2. PICK new \in HistoryScan : new = [scan EXCEPT !.page_token = found[PageSize]]
    BY <2>1 DEF HistoryScan
  <2>3. /\ new.start_ms = scan.start_ms /\ new.end_ms = scan.end_ms
        /\ new.page_token = found[PageSize]
    BY <2>2 DEF HistoryScan
  <2>4. Scanned(s) = [state EXCEPT !.history_scan = new]
    BY <1>1, <1>2, <1>3, <1>4, <2>2 DEF Scanned
  <2> QED
    BY <1>1, <1>2, <1>3, <1>4, <2>3, <2>4 DEF SessionPullState
<1>5. CASE ~(Len(found) > PageSize)
  <2>1. scan.end_ms \in Nat
    BY ScanFacts
  <2>2. PICK h : h = Max({0, scan.end_ms, state.history_highwater_ms} \ {None})
    OBVIOUS
  <2>3. h \in Nat /\ h \in {scan.end_ms, state.history_highwater_ms}
    <3>1. state.history_highwater_ms \in Nat \cup {None}
      BY <1>1, StateFacts
    <3> QED
      BY <2>1, <2>2, <3>1, MaxOfMarks
  <2>4. Scanned(s) = [state EXCEPT !.history_highwater_ms = h,
                                   !.history_scan = None]
    BY <1>1, <1>2, <1>3, <1>5, <2>2 DEF Scanned
  <2> QED
    BY <1>1, <1>2, <1>3, <1>5, <2>3, <2>4 DEF SessionPullState
<1> QED
  BY <1>3, <1>4, <1>5

-----------------------------------------------------------------------------
(* What a step does to the sessions and to the live events.                 *)

SessionChanged(s) ==
    /\ session' \in [Sessions -> SessionPullState]
    /\ \A t \in Sessions \ {s} : session'[t] = session[t]

LEMMA UpdateFacts ==
    ASSUME TypeInv, NEW s \in Sessions, NEW v \in SessionPullState,
           session' = [session EXCEPT ![s] = v]
    PROVE  SessionChanged(s) /\ session'[s] = v
<1>1. session \in [Sessions -> SessionPullState]
  BY DEF TypeInv, TypeOK
<1> QED
  BY <1>1 DEF SessionChanged

LEMMA CursorFacts ==
    ASSUME TypeInv
    PROVE  /\ Size \in Nat /\ Size > 0 /\ Len(SessionOrder) = Size
           /\ offset \in Nat /\ AfterIndex \in 0 .. Len(SessionOrder) - 1
<1>1. Size \in Nat /\ Size # 0 /\ Len(SessionOrder) = Size
  BY PullerAssumption, LenProperties, EmptySeq DEF Size
<1>2. session_cursor \in Nat /\ offset \in Nat
  <2>1. offset \in 0 .. Size /\ session_cursor \in 0 .. Size - 1
    BY <1>1 DEF TypeInv, TypeOK
  <2> QED
    BY <1>1, <2>1
<1>3. Index \in 0 .. Size - 1
  <2>1. session_cursor + offset \in Nat /\ Size \in Nat \ {0}
    BY <1>1, <1>2
  <2> QED
    BY <2>1, Modulus DEF Index
<1>4. AfterIndex \in 0 .. Size - 1
  <2>1. Index + 1 \in Nat
    BY <1>1, <1>3
  <2> QED
    BY <1>1, <2>1, Modulus DEF AfterIndex
<1> QED
  BY <1>1, <1>2, <1>4

(* The oldest live event of a session.                                     *)
LEMMA LiveFacts ==
    ASSUME TypeInv, NEW s \in Sessions, LiveEvents(s) # {}
    PROVE  LET n == Min(LiveEvents(s))
           IN  /\ n \in DOMAIN live_events /\ chat[live_events[n]] = s
               /\ live_events[n] \in Messages
               /\ live_events[n] \in Range(live_events)
               /\ \A j \in Range(live_events) :
                    chat[j] = s =>
                      \E m \in DOMAIN live_events : m >= n /\ live_events[m] = j
<1>1. PICK S : S = LiveEvents(s)
  OBVIOUS
<1>2. /\ Len(live_events) \in Nat /\ DOMAIN live_events = 1 .. Len(live_events)
      /\ \A m \in 1 .. Len(live_events) : live_events[m] \in Messages
  BY LenProperties, ElementOfSeq DEF TypeInv, TypeOK
<1>3. S \in SUBSET (1 .. Len(live_events))
  BY <1>1, <1>2 DEF LiveEvents
<1>4. S \in SUBSET Nat /\ IsFiniteSet(S)
  <2>1. IsFiniteSet(1 .. Len(live_events)) /\ 1 .. Len(live_events) \subseteq Nat
    BY <1>2, FS_Interval
  <2> QED
    BY <1>3, <2>1, FS_Subset
<1>5. PICK n : n = Min(S)
  OBVIOUS
<1>6. n \in S /\ \A m \in S : n <= m
  BY <1>1, <1>4, <1>5, MinOfSet
<1>7. n \in DOMAIN live_events /\ chat[live_events[n]] = s
  BY <1>1, <1>6 DEF LiveEvents
<1>8. ASSUME NEW j \in Range(live_events), chat[j] = s
      PROVE  \E m \in DOMAIN live_events : m >= n /\ live_events[m] = j
  <2>1. PICK m \in DOMAIN live_events : live_events[m] = j
    BY DEF Range
  <2>2. m \in S
    BY <1>1, <1>8, <2>1 DEF LiveEvents
  <2>3. n <= m /\ n \in Nat /\ m \in Nat
    BY <1>4, <1>6, <2>2
  <2> QED
    BY <2>1, <2>3
<1> QED
  BY <1>1, <1>2, <1>5, <1>7, <1>8 DEF Range

(* A message is given to the processor: it was not there before the older   *)
(* live events of its session.                                             *)
Delivers(s, i) ==
    /\ pc = "sessions" /\ session[s].in_flight = None
    /\ UNCHANGED <<stream, stream_generation, since>>
    /\ SessionChanged(s)
    /\ session'[s].in_flight = i
    /\ session'[s].confirmed_event_ms = session[s].confirmed_event_ms
    /\ delivered' = delivered \cup {i} /\ i \in Messages
    /\ pc' = "idle" /\ offset' = 0
    /\ session_cursor' \in 0 .. Len(SessionOrder) - 1
    /\ live_events' \in Seq(Messages) /\ Len(live_events') <= EventQueueSize
    /\ Range(live_events') \subseteq Range(live_events)
    /\ Range(live_events) \subseteq Range(live_events') \cup {i}
    /\ Increasing(live_events) => Increasing(live_events')

(* A live event is taken out of the buffer.                                 *)
LEMMA TakeLive ==
    ASSUME TypeInv, NEW s \in Sessions, LiveEvents(s) # {},
           live_events' = RemoveAt(live_events, Min(LiveEvents(s)))
    PROVE  LET i == live_events[Min(LiveEvents(s))]
           IN  /\ live_events' \in Seq(Messages)
               /\ Len(live_events') <= EventQueueSize
               /\ Range(live_events') \subseteq Range(live_events)
               /\ Range(live_events) \subseteq Range(live_events') \cup {i}
               /\ Increasing(live_events) => Increasing(live_events')
<1>1. PICK n : n = Min(LiveEvents(s))
  OBVIOUS
<1>2. n \in DOMAIN live_events
  BY <1>1, LiveFacts
<1>3. /\ live_events \in Seq(Messages) /\ Messages \in SUBSET Nat
      /\ Len(live_events) \in Nat /\ Len(live_events) <= EventQueueSize
      /\ EventQueueSize \in Nat
  BY ConstantFacts, LenProperties DEF TypeInv, TypeOK
<1>4. /\ RemoveAt(live_events, n) \in Seq(Messages)
      /\ Len(RemoveAt(live_events, n)) = Len(live_events) - 1
      /\ Range(RemoveAt(live_events, n)) \subseteq Range(live_events)
      /\ Range(live_events) \subseteq
           Range(RemoveAt(live_events, n)) \cup {live_events[n]}
      /\ Increasing(live_events) => Increasing(RemoveAt(live_events, n))
  BY <1>2, <1>3, RemoveKeeps
<1>5. live_events' = RemoveAt(live_events, n)
  BY <1>1
<1> QED
  BY <1>1, <1>3, <1>4, <1>5

LEMMA DeliverHistoryEffect ==
    ASSUME TypeInv, NEW s \in Sessions, DeliverHistory(s)
    PROVE  /\ session[s].history_events # <<>>
           /\ Delivers(s, Head(session[s].history_events))
           /\ session'[s].history_events = Tail(session[s].history_events)
           /\ session'[s].history_scan = session[s].history_scan
           /\ session'[s].history_highwater_ms = session[s].history_highwater_ms
<1>1. PICK q \in Seq(Messages) : q = session[s].history_events
  BY StateFacts
<1>2. q # <<>> /\ pc = "sessions" /\ session[s].in_flight = None
  BY <1>1 DEF DeliverHistory, Visiting
<1>3. Head(q) \in Messages /\ Tail(q) \in Seq(Messages)
  BY <1>2, TailKeeps, ConstantFacts
<1>4. PICK v : v = [session[s] EXCEPT !.in_flight = Head(q),
                                      !.history_events = Tail(q)]
  OBVIOUS
<1>5. /\ v \in SessionPullState
      /\ v.in_flight = Head(q) /\ v.history_events = Tail(q)
      /\ v.confirmed_event_ms = session[s].confirmed_event_ms
      /\ v.history_scan = session[s].history_scan
      /\ v.history_highwater_ms = session[s].history_highwater_ms
  <2>1. session[s] \in SessionPullState
    BY StateFacts
  <2> QED
    BY <1>3, <1>4, <2>1 DEF SessionPullState
<1>6. session' = [session EXCEPT ![s] = v]
  BY <1>1, <1>4 DEF DeliverHistory, TypeInv, TypeOK, SessionPullState
<1>7. SessionChanged(s) /\ session'[s] = v
  BY <1>5, <1>6, UpdateFacts
<1>8. /\ delivered' = delivered \cup {Head(q)} /\ pc' = "idle" /\ offset' = 0
      /\ session_cursor' \in 0 .. Len(SessionOrder) - 1
      /\ UNCHANGED <<stream, stream_generation, since>>
      /\ live_events' = live_events
  BY <1>1, CursorFacts DEF DeliverHistory, Deliver
<1>9. live_events \in Seq(Messages) /\ Len(live_events) <= EventQueueSize
  BY DEF TypeInv, TypeOK
<1> QED
  BY <1>1, <1>2, <1>3, <1>5, <1>7, <1>8, <1>9 DEF Delivers

LEMMA DeliverLiveEffect ==
    ASSUME TypeInv, NEW s \in Sessions, DeliverLive(s)
    PROVE  LET i == live_events[Min(LiveEvents(s))]
           IN  /\ LiveEvents(s) # {} /\ session[s].history_events = <<>>
               /\ session[s].history_scan = None
               /\ Delivers(s, i)
               /\ session'[s].history_events = session[s].history_events
               /\ session'[s].history_scan = session[s].history_scan
               /\ session'[s].history_highwater_ms
                    = session[s].history_highwater_ms
<1>1. PICK i : i = live_events[Min(LiveEvents(s))]
  OBVIOUS
<1>2. /\ LiveEvents(s) # {} /\ session[s].history_events = <<>>
      /\ session[s].history_scan = None
      /\ pc = "sessions" /\ session[s].in_flight = None
  BY DEF DeliverLive, Visiting
<1>3. i \in Messages
  BY <1>1, <1>2, LiveFacts
<1>4. PICK v : v = [session[s] EXCEPT !.in_flight = i]
  OBVIOUS
<1>5. /\ v \in SessionPullState /\ v.in_flight = i
      /\ v.history_events = session[s].history_events
      /\ v.confirmed_event_ms = session[s].confirmed_event_ms
      /\ v.history_scan = session[s].history_scan
      /\ v.history_highwater_ms = session[s].history_highwater_ms
  <2>1. session[s] \in SessionPullState
    BY StateFacts
  <2> QED
    BY <1>3, <1>4, <2>1 DEF SessionPullState
<1>6. session' = [session EXCEPT ![s] = v]
  BY <1>1, <1>4 DEF DeliverLive, TypeInv, TypeOK
<1>7. SessionChanged(s) /\ session'[s] = v
  BY <1>5, <1>6, UpdateFacts
<1>8. /\ delivered' = delivered \cup {i} /\ pc' = "idle" /\ offset' = 0
      /\ session_cursor' \in 0 .. Len(SessionOrder) - 1
      /\ UNCHANGED <<stream, stream_generation, since>>
      /\ live_events' = RemoveAt(live_events, Min(LiveEvents(s)))
  BY <1>1, CursorFacts DEF DeliverLive, Deliver
<1>9. /\ live_events' \in Seq(Messages) /\ Len(live_events') <= EventQueueSize
      /\ Range(live_events') \subseteq Range(live_events)
      /\ Range(live_events) \subseteq Range(live_events') \cup {i}
      /\ Increasing(live_events) => Increasing(live_events')
  BY <1>1, <1>2, <1>8, TakeLive
<1> QED
  BY <1>1, <1>2, <1>3, <1>5, <1>7, <1>8, <1>9 DEF Delivers

LEMMA FetchPageEffect ==
    ASSUME TypeInv, NEW s \in Sessions, FetchPage(s)
    PROVE  /\ Remaining(s) # <<>> /\ session[s].history_scan # None
           /\ session[s].history_events = <<>>
           /\ Delivers(s, Head(Remaining(s)))
           /\ session'[s].history_events = Page(s)
           /\ session'[s].history_scan = Scanned(s).history_scan
           /\ session'[s].history_highwater_ms = Scanned(s).history_highwater_ms
<1>1. /\ Remaining(s) # <<>> /\ session[s].history_scan # None
      /\ session[s].history_events = <<>>
      /\ pc = "sessions" /\ session[s].in_flight = None
  BY DEF FetchPage, QueriesHistory, Visiting
<1>2. PICK i : i = Head(Remaining(s))
  OBVIOUS
<1>3. i \in Messages /\ Page(s) \in Seq(Messages)
  <2>1. WindowOf(s) \subseteq Messages
    BY RemainingFacts, ChatFacts
  <2>2. i \in WindowOf(s) /\ Page(s) \in Seq(WindowOf(s))
    BY <1>1, <1>2, PageFacts
  <2>3. Seq(WindowOf(s)) \subseteq Seq(Messages)
    BY <2>1
  <2> QED
    BY <2>1, <2>2, <2>3
<1>4. PICK scanned \in SessionPullState :
        /\ scanned = Scanned(s)
        /\ scanned.confirmed_event_ms = session[s].confirmed_event_ms
  BY <1>1, ScannedFacts
<1>5. PICK page : page = Page(s)
  OBVIOUS
<1>6. PICK v : v = [scanned EXCEPT !.in_flight = i, !.history_events = page]
  OBVIOUS
<1>7. /\ v \in SessionPullState
      /\ v.in_flight = i /\ v.history_events = page
      /\ v.confirmed_event_ms = scanned.confirmed_event_ms
      /\ v.history_scan = scanned.history_scan
      /\ v.history_highwater_ms = scanned.history_highwater_ms
  BY <1>3, <1>4, <1>5, <1>6 DEF SessionPullState
<1>8. session' = [session EXCEPT ![s] = v]
  BY <1>2, <1>4, <1>5, <1>6 DEF FetchPage, Page
<1>9. SessionChanged(s) /\ session'[s] = v
  BY <1>7, <1>8, UpdateFacts
<1>10. /\ delivered' = delivered \cup {i} /\ pc' = "idle" /\ offset' = 0
       /\ session_cursor' \in 0 .. Len(SessionOrder) - 1
       /\ UNCHANGED <<stream, stream_generation, since>>
       /\ live_events' = live_events
  BY <1>2, CursorFacts DEF FetchPage, Deliver
<1>11. live_events \in Seq(Messages) /\ Len(live_events) <= EventQueueSize
  BY DEF TypeInv, TypeOK
<1>12. Delivers(s, i)
  BY <1>1, <1>3, <1>4, <1>7, <1>9, <1>10, <1>11 DEF Delivers
<1> QED
  BY <1>1, <1>2, <1>4, <1>5, <1>7, <1>9, <1>12

(* An empty page ends the window.                                          *)
LEMMA EmptyPageEffect ==
    ASSUME TypeInv, NEW s \in Sessions, FetchEmptyPage(s)
    PROVE  /\ WindowOf(s) = {} /\ session[s].history_scan # None
           /\ session[s].history_events = <<>>
           /\ SessionChanged(s)
           /\ session'[s].history_events = <<>>
           /\ session'[s].history_scan = None
           /\ session'[s].history_highwater_ms \in
                {session[s].history_scan.end_ms, session[s].history_highwater_ms}
           /\ session'[s].history_highwater_ms # None
           /\ session'[s].confirmed_event_ms = session[s].confirmed_event_ms
           /\ \/ /\ pc = "sessions" /\ offset < Size
                 /\ pc' = "sessions" /\ offset' = offset + 1
                 /\ UNCHANGED <<stream, stream_generation, since, delivered,
                                live_events>>
                 /\ session_cursor' \in 0 .. Len(SessionOrder) - 1
                 /\ session'[s].in_flight = session[s].in_flight
              \/ /\ LiveEvents(s) # {}
                 /\ Delivers(s, live_events[Min(LiveEvents(s))])
<1>1. /\ Remaining(s) = <<>> /\ session[s].history_scan # None
      /\ session[s].history_events = <<>> /\ offset < Size
      /\ pc = "sessions" /\ session[s].in_flight = None
  BY DEF FetchEmptyPage, QueriesHistory, Visiting
<1>2. WindowOf(s) = {} /\ ~(Len(Remaining(s)) > PageSize)
  <2>1. Len(Remaining(s)) = 0
    BY <1>1
  <2> QED
    BY <1>1, <2>1, RemainingFacts, ConstantFacts
<1>3. PICK scanned \in SessionPullState :
        /\ scanned = Scanned(s)
        /\ scanned.confirmed_event_ms = session[s].confirmed_event_ms
        /\ scanned.history_events = session[s].history_events
        /\ scanned.in_flight = session[s].in_flight
        /\ scanned.history_scan = None
        /\ scanned.history_highwater_ms \in Nat
        /\ scanned.history_highwater_ms \in
             {session[s].history_scan.end_ms, session[s].history_highwater_ms}
  BY <1>1, <1>2, ScannedFacts
<1>4. scanned.history_highwater_ms # None
  BY <1>3, ConstantFacts
<1>5. /\ session_cursor' \in 0 .. Len(SessionOrder) - 1
      /\ UNCHANGED <<stream, stream_generation, since>>
  BY CursorFacts DEF FetchEmptyPage
<1>6. CASE LiveEvents(s) = {}
  <2>1. session' = [session EXCEPT ![s] = scanned]
    BY <1>3, <1>6 DEF FetchEmptyPage
  <2>2. SessionChanged(s) /\ session'[s] = scanned
    BY <2>1, UpdateFacts
  <2>3. /\ pc' = "sessions" /\ offset' = offset + 1
        /\ UNCHANGED <<delivered, live_events>>
    BY <1>1, <1>6 DEF FetchEmptyPage, VisitNext
  <2> QED
    BY <1>1, <1>2, <1>3, <1>4, <1>5, <2>2, <2>3
<1>7. CASE LiveEvents(s) # {}
  <2>1. PICK i : i = live_events[Min(LiveEvents(s))]
    OBVIOUS
  <2>2. i \in Messages
    BY <1>7, <2>1, LiveFacts
  <2>3. PICK v : v = [scanned EXCEPT !.in_flight = i]
    OBVIOUS
  <2>4. /\ v \in SessionPullState /\ v.in_flight = i
        /\ v.history_events = scanned.history_events
        /\ v.confirmed_event_ms = scanned.confirmed_event_ms
        /\ v.history_scan = scanned.history_scan
        /\ v.history_highwater_ms = scanned.history_highwater_ms
    BY <2>2, <2>3 DEF SessionPullState
  <2>5. session' = [session EXCEPT ![s] = v]
    BY <1>3, <1>7, <2>1, <2>3 DEF FetchEmptyPage
  <2>6. SessionChanged(s) /\ session'[s] = v
    BY <2>4, <2>5, UpdateFacts
  <2>7. /\ delivered' = delivered \cup {i} /\ pc' = "idle" /\ offset' = 0
        /\ live_events' = RemoveAt(live_events, Min(LiveEvents(s)))
    BY <1>7, <2>1 DEF FetchEmptyPage, Deliver
  <2>8. /\ live_events' \in Seq(Messages) /\ Len(live_events') <= EventQueueSize
        /\ Range(live_events') \subseteq Range(live_events)
        /\ Range(live_events) \subseteq Range(live_events') \cup {i}
        /\ Increasing(live_events) => Increasing(live_events')
    BY <1>7, <2>1, <2>7, TakeLive
  <2>9. Delivers(s, i)
    BY <1>1, <1>3, <1>5, <2>2, <2>4, <2>6, <2>7, <2>8 DEF Delivers
  <2> QED
    BY <1>1, <1>2, <1>3, <1>4, <1>7, <2>1, <2>4, <2>6, <2>9
<1> QED
  BY <1>6, <1>7

(* A reconnection was seen, or was not.                                     *)
LEMMA HandoffEffect ==
    ASSUME TypeInv, Handoff
    PROVE  /\ session' \in [Sessions -> SessionPullState]
           /\ stream_generation' = generation
           /\ \/ generation = stream_generation /\ session' = session
              \/ /\ generation # stream_generation
                 /\ \A s \in Sessions :
                      /\ session'[s].history_scan = Replacement(s)
                      /\ session'[s].history_events = session[s].history_events
                      /\ session'[s].in_flight = session[s].in_flight
                      /\ session'[s].confirmed_event_ms
                           = session[s].confirmed_event_ms
                      /\ session'[s].history_highwater_ms
                           = session[s].history_highwater_ms
<1>1. CASE generation = stream_generation
  BY <1>1 DEF Handoff, TypeInv, TypeOK
<1>2. CASE generation # stream_generation
  <2>1. session' = [s \in Sessions |-> [session[s] EXCEPT
                      !.history_scan = Replacement(s), !.retry_waits = FALSE]]
    BY <1>2 DEF Handoff
  <2>2. ASSUME NEW s \in Sessions
        PROVE  /\ session'[s] \in SessionPullState
               /\ session'[s].history_scan = Replacement(s)
               /\ session'[s].history_events = session[s].history_events
               /\ session'[s].in_flight = session[s].in_flight
               /\ session'[s].confirmed_event_ms = session[s].confirmed_event_ms
               /\ session'[s].history_highwater_ms
                    = session[s].history_highwater_ms
    <3>1. PICK new \in HistoryScan : new = Replacement(s)
      BY ReplacementFacts
    <3>2. session[s] \in SessionPullState
      BY StateFacts
    <3>3. session'[s] = [session[s] EXCEPT !.history_scan = new,
                                           !.retry_waits = FALSE]
      BY <2>1, <3>1
    <3> QED
      BY <3>1, <3>2, <3>3 DEF SessionPullState
  <2> QED
    BY <1>2, <2>1, <2>2 DEF Handoff
<1> QED
  BY <1>1, <1>2

LEMMA AcknowledgeEffect ==
    ASSUME TypeInv, NEW s \in Sessions, Acknowledge(s)
    PROVE  /\ SessionChanged(s)
           /\ session[s].in_flight # None /\ session'[s].in_flight = None
           /\ session'[s].history_events = session[s].history_events
           /\ session'[s].history_scan = session[s].history_scan
           /\ session'[s].history_highwater_ms = session[s].history_highwater_ms
           /\ session'[s].confirmed_event_ms \in
                {session[s].confirmed_event_ms, session[s].in_flight}
           /\ UNCHANGED <<stream, pc, offset, session_cursor, live_events,
                          stream_generation, since, delivered>>
<1>1. PICK c \in Nat \cup {None} : c = session[s].confirmed_event_ms
  BY StateFacts
<1>2. PICK i \in Nat : i = session[s].in_flight /\ i # None
  BY StateFacts, ConstantFacts DEF Acknowledge
<1>3. PICK m : m = Max({c, i} \ {None})
  OBVIOUS
<1>4. m \in Nat /\ m \in {c, i}
  BY <1>3, MaxOfMarks
<1>5. PICK v : v = [session[s] EXCEPT !.confirmed_event_ms = m, !.in_flight = None]
  OBVIOUS
<1>6. /\ v \in SessionPullState
      /\ v.in_flight = None /\ v.confirmed_event_ms = m
      /\ v.history_events = session[s].history_events
      /\ v.history_scan = session[s].history_scan
      /\ v.history_highwater_ms = session[s].history_highwater_ms
  <2>1. session[s] \in SessionPullState
    BY StateFacts
  <2> QED
    BY <1>4, <1>5, <2>1 DEF SessionPullState
<1>7. session' = [session EXCEPT ![s] = v]
  BY <1>1, <1>2, <1>3, <1>5 DEF Acknowledge, TypeInv, TypeOK, SessionPullState
<1>8. SessionChanged(s) /\ session'[s] = v
  BY <1>6, <1>7, UpdateFacts
<1> QED
  BY <1>1, <1>2, <1>4, <1>6, <1>8 DEF Acknowledge

(* Only whether a session waits with its queries changes.                   *)
OnlyRetry(s) ==
    /\ SessionChanged(s)
    /\ session'[s].in_flight = session[s].in_flight
    /\ session'[s].history_events = session[s].history_events
    /\ session'[s].history_scan = session[s].history_scan
    /\ session'[s].history_highwater_ms = session[s].history_highwater_ms
    /\ session'[s].confirmed_event_ms = session[s].confirmed_event_ms

LEMMA RetryEffect ==
    ASSUME TypeInv, NEW s \in Sessions, NEW b \in BOOLEAN,
           session' = [session EXCEPT ![s].retry_waits = b]
    PROVE  OnlyRetry(s)
<1>1. PICK v : v = [session[s] EXCEPT !.retry_waits = b]
  OBVIOUS
<1>2. /\ v \in SessionPullState
      /\ v.in_flight = session[s].in_flight
      /\ v.history_events = session[s].history_events
      /\ v.history_scan = session[s].history_scan
      /\ v.history_highwater_ms = session[s].history_highwater_ms
      /\ v.confirmed_event_ms = session[s].confirmed_event_ms
  <2>1. session[s] \in SessionPullState
    BY StateFacts
  <2> QED
    BY <1>1, <2>1 DEF SessionPullState
<1>3. session' = [session EXCEPT ![s] = v]
  BY <1>1 DEF TypeInv, TypeOK, SessionPullState
<1>4. SessionChanged(s) /\ session'[s] = v
  BY <1>2, <1>3, UpdateFacts
<1> QED
  BY <1>2, <1>4 DEF OnlyRetry

LEMMA StartEffect ==
    ASSUME TypeInv, NEW confirmed \in RecordedMessages, StartWindows(confirmed)
    PROVE  /\ session' \in [Sessions -> SessionPullState]
           /\ since' \in [Sessions -> Nat]
           /\ \A s \in Sessions :
                /\ confirmed[s] \in DOMAIN chat \cup {None}
                /\ session'[s].history_scan = NewHistoryScan(confirmed[s])
                /\ session'[s].history_events = session[s].history_events
                /\ session'[s].in_flight = session[s].in_flight
                /\ session'[s].confirmed_event_ms = confirmed[s]
                /\ session'[s].history_highwater_ms = confirmed[s]
                /\ since'[s] = NewHistoryScan(confirmed[s]).start_ms
<1>1. /\ session' = [s \in Sessions |-> [session[s] EXCEPT
           !.confirmed_event_ms = confirmed[s],
           !.history_highwater_ms = confirmed[s],
           !.history_scan = NewHistoryScan(confirmed[s])]]
      /\ since' = [s \in Sessions |-> NewHistoryScan(confirmed[s]).start_ms]
  BY DEF StartWindows
<1>2. ASSUME NEW s \in Sessions
      PROVE  /\ confirmed[s] \in DOMAIN chat \cup {None}
             /\ session'[s] \in SessionPullState /\ since'[s] \in Nat
             /\ session'[s].history_scan = NewHistoryScan(confirmed[s])
             /\ session'[s].history_events = session[s].history_events
             /\ session'[s].in_flight = session[s].in_flight
             /\ session'[s].confirmed_event_ms = confirmed[s]
             /\ session'[s].history_highwater_ms = confirmed[s]
             /\ since'[s] = NewHistoryScan(confirmed[s]).start_ms
  <2>1. confirmed[s] \in DOMAIN chat \cup {None}
    BY DEF RecordedMessages, Confirmable
  <2>2. PICK c \in Nat \cup {None} : c = confirmed[s]
    BY <2>1, ChatFacts
  <2>3. PICK new \in HistoryScan : new = NewHistoryScan(c) /\ new.start_ms \in Nat
    BY NewScanFacts, ScanFacts
  <2>4. session[s] \in SessionPullState
    BY StateFacts
  <2>5. session'[s] = [session[s] EXCEPT !.confirmed_event_ms = c,
                                         !.history_highwater_ms = c,
                                         !.history_scan = new]
    BY <1>1, <2>2, <2>3
  <2>6. since'[s] = new.start_ms
    BY <1>1, <2>2, <2>3
  <2> QED
    BY <2>1, <2>2, <2>3, <2>4, <2>5, <2>6 DEF SessionPullState
<1> QED
  BY <1>1, <1>2

-----------------------------------------------------------------------------
(* Type correctness.                                                       *)

LEMMA DeliversTypes ==
    ASSUME TypeInv, NEW s \in Sessions, NEW i, Delivers(s, i)
    PROVE  TypeInv'
<1>1. UNCHANGED <<chat, connected, events, generation, stream_error>>
  BY DEF Delivers, stream
<1>2. offset' \in 0 .. Len(SessionOrder)
  BY CursorFacts DEF Delivers
<1>3. delivered' \subseteq Messages
  BY DEF Delivers, TypeInv, TypeOK
<1> QED
  BY <1>1, <1>2, <1>3 DEF Delivers, SessionChanged, TypeInv, TypeOK

(* The visits of the sessions that deliver nothing.                         *)
LEMMA VisitTypes ==
    ASSUME TypeInv, NEW s \in Sessions, SessionChanged(s) \/ session' = session,
           offset < Size, pc' = "sessions", offset' = offset + 1,
           UNCHANGED <<stream, stream_generation, since, delivered, live_events>>,
           session_cursor' \in 0 .. Len(SessionOrder) - 1
    PROVE  TypeInv'
<1>1. UNCHANGED <<chat, connected, events, generation, stream_error>>
  BY DEF stream
<1>2. offset' \in 0 .. Len(SessionOrder)
  BY CursorFacts
<1>3. session' \in [Sessions -> SessionPullState]
  BY DEF SessionChanged, TypeInv, TypeOK
<1> QED
  BY <1>1, <1>2, <1>3 DEF TypeInv, TypeOK

LEMMA PostTypes ==
    ASSUME TypeInv, NEW s \in Sessions, Post(s)
    PROVE  /\ TypeInv'
           /\ Len(chat') = Len(chat) + 1 /\ DOMAIN chat' = 1 .. Len(chat) + 1
           /\ chat'[Len(chat) + 1] = s
           /\ \A j \in DOMAIN chat : chat'[j] = chat[j]
           /\ events' # events =>
                events' = Append(events, Len(chat) + 1) /\ connected
<1>1. /\ chat \in Seq(Sessions) /\ Len(chat) \in Nat
      /\ DOMAIN chat = 1 .. Len(chat) /\ Len(chat) < MaxPosts
      /\ chat' = Append(chat, s)
  BY ChatFacts DEF Post, TypeInv, TypeOK
<1>2. /\ chat' \in Seq(Sessions) /\ Len(chat') = Len(chat) + 1
      /\ chat'[Len(chat) + 1] = s
      /\ \A j \in 1 .. Len(chat) : chat'[j] = chat[j]
  BY <1>1, AppendProperties
<1>3. DOMAIN chat' = 1 .. Len(chat) + 1
  BY <1>2, LenProperties
<1>4. /\ Len(chat') \in Messages /\ MaxPosts \in Nat /\ Len(chat') <= MaxPosts
      /\ Messages \in SUBSET Nat
  BY <1>1, <1>2, ConstantFacts DEF Messages
<1>5. /\ events' \in Seq(Messages) /\ Len(events') <= EventQueueSize
      /\ stream_error' \in BOOLEAN
      /\ events' # events =>
           events' = Append(events, Len(chat) + 1) /\ connected
  <2>1. /\ events \in Seq(Messages) /\ Len(events) \in Nat
        /\ Len(events) <= EventQueueSize /\ EventQueueSize \in Nat
        /\ stream_error \in BOOLEAN
    BY ConstantFacts, LenProperties DEF TypeInv, TypeOK
  <2>2. CASE events' = events
    BY <2>1, <2>2 DEF Post
  <2>3. CASE events' # events
    <3>1. /\ Len(events) < EventQueueSize /\ events' = Append(events, Len(chat'))
          /\ stream_error' = stream_error /\ connected
      BY <2>3 DEF Post
    <3>2. events' \in Seq(Messages) /\ Len(events') = Len(events) + 1
      BY <1>4, <2>1, <3>1, AppendKeeps
    <3> QED
      BY <1>2, <2>1, <3>1, <3>2
  <2> QED
    BY <2>2, <2>3
<1>6. UNCHANGED <<connected, generation, pc, offset, session, session_cursor,
                  live_events, stream_generation, since, delivered>>
  BY DEF Post, puller
<1> QED
  BY <1>1, <1>2, <1>3, <1>4, <1>5, <1>6 DEF TypeInv, TypeOK

LEMMA CollectEffect ==
    ASSUME TypeInv, CollectLiveEvent
    PROVE  /\ \/ events' = events /\ live_events' = live_events
              \/ /\ events # <<>> /\ Len(live_events) < EventQueueSize
                 /\ events' = Tail(events)
                 /\ live_events' = Append(live_events, Head(events))
           /\ events' \in Seq(Messages) /\ Len(events') <= EventQueueSize
           /\ live_events' \in Seq(Messages)
           /\ Len(live_events') <= EventQueueSize
           /\ Range(events') \cup Range(live_events')
                = Range(events) \cup Range(live_events)
<1>1. /\ events \in Seq(Messages) /\ Len(events) \in Nat
      /\ live_events \in Seq(Messages) /\ Len(live_events) \in Nat
      /\ Len(events) <= EventQueueSize /\ Len(live_events) <= EventQueueSize
      /\ EventQueueSize \in Nat /\ Messages \in SUBSET Nat
  BY ConstantFacts, LenProperties DEF TypeInv, TypeOK
<1>2. CASE Len(live_events) >= EventQueueSize \/ events = <<>>
  BY <1>1, <1>2 DEF CollectLiveEvent
<1>3. CASE ~(Len(live_events) >= EventQueueSize \/ events = <<>>)
  <2>1. /\ events # <<>> /\ Len(live_events) < EventQueueSize
        /\ events' = Tail(events)
        /\ live_events' = Append(live_events, Head(events))
    BY <1>1, <1>3 DEF CollectLiveEvent
  <2>2. /\ Head(events) \in Messages /\ Head(events) \in Range(events)
        /\ Tail(events) \in Seq(Messages) /\ Len(Tail(events)) = Len(events) - 1
        /\ Range(Tail(events)) \subseteq Range(events)
        /\ Range(events) \subseteq Range(Tail(events)) \cup {Head(events)}
    BY <1>1, <2>1, TailKeeps
  <2>3. /\ live_events' \in Seq(Messages)
        /\ Len(live_events') = Len(live_events) + 1
        /\ Range(live_events') = Range(live_events) \cup {Head(events)}
    <3>1. PICK e \in Messages : e = Head(events)
      BY <2>2
    <3>2. live_events' = Append(live_events, e)
      BY <2>1, <3>1
    <3>3. /\ Append(live_events, e) \in Seq(Messages)
          /\ Len(Append(live_events, e)) = Len(live_events) + 1
          /\ Range(Append(live_events, e)) = Range(live_events) \cup {e}
      BY <1>1, AppendKeeps
    <3> QED
      BY <3>1, <3>2, <3>3
  <2>4. Len(events') <= EventQueueSize /\ Len(live_events') <= EventQueueSize
    BY <1>1, <2>1, <2>2, <2>3
  <2>5. Range(events') \cup Range(live_events')
          = Range(events) \cup Range(live_events)
    BY <2>1, <2>2, <2>3
  <2> QED
    BY <2>1, <2>2, <2>3, <2>4, <2>5
<1> QED
  BY <1>2, <1>3

LEMMA TypeNext == TypeInv /\ [Next]_vars => TypeInv'
<1> SUFFICES ASSUME TypeInv, [Next]_vars PROVE TypeInv'
  OBVIOUS
<1>1. CASE UNCHANGED vars
  BY <1>1 DEF vars, stream, puller, TypeInv, TypeOK
<1>2. CASE StartEventStream
  BY <1>2 DEF StartEventStream, TypeInv, TypeOK
<1>3. ASSUME NEW confirmed \in RecordedMessages, StartWindows(confirmed)
      PROVE  TypeInv'
  <2>1. session' \in [Sessions -> SessionPullState] /\ since' \in [Sessions -> Nat]
    BY <1>3, StartEffect
  <2>2. stream_generation' \in 0 .. generation'
    <3>1. generation \in Nat
      BY DEF TypeInv, TypeOK
    <3>2. stream_generation' = generation /\ generation' = generation
      BY <1>3 DEF StartWindows, stream
    <3> QED
      BY <3>1, <3>2
  <2> QED
    BY <1>3, <2>1, <2>2 DEF StartWindows, stream, TypeInv, TypeOK
<1>4. ASSUME Handoff, UNCHANGED <<stream, session_cursor, live_events, since,
                                  delivered>>,
             pc' \in {"collect", "sessions"}, offset' = 0 \/ offset' = offset
      PROVE  TypeInv'
  <2>1. /\ session' \in [Sessions -> SessionPullState]
        /\ stream_generation' = generation
    BY <1>4, HandoffEffect
  <2>2. stream_generation' \in 0 .. generation'
    BY <1>4, <2>1 DEF stream, TypeInv, TypeOK
  <2>3. offset' \in 0 .. Len(SessionOrder)
    BY <1>4, CursorFacts DEF TypeInv, TypeOK
  <2> QED
    BY <1>4, <2>1, <2>2, <2>3 DEF stream, TypeInv, TypeOK
<1>5. CASE TakeMessage
  BY <1>4, <1>5 DEF TakeMessage
<1>6. CASE CheckStream
  BY <1>4, <1>6 DEF CheckStream
<1>7. CASE CollectLiveEvent
  <2>1. /\ events' \in Seq(Messages) /\ Len(events') <= EventQueueSize
        /\ live_events' \in Seq(Messages)
        /\ Len(live_events') <= EventQueueSize
    BY <1>7, CollectEffect
  <2> QED
    BY <1>7, <2>1 DEF CollectLiveEvent, TypeInv, TypeOK
<1>8. CASE Fail
  BY <1>8 DEF Fail, stream, TypeInv, TypeOK
<1>9. CASE TakeNothing
  <2>1. offset' \in 0 .. Len(SessionOrder)
    BY <1>9, CursorFacts DEF TakeNothing
  <2> QED
    BY <1>9, <2>1 DEF TakeNothing, stream, TypeInv, TypeOK
<1>10. ASSUME NEW s \in Sessions, DeliverHistory(s) PROVE TypeInv'
  BY <1>10, DeliverHistoryEffect, DeliversTypes
<1>11. ASSUME NEW s \in Sessions, DeliverLive(s) PROVE TypeInv'
  BY <1>11, DeliverLiveEffect, DeliversTypes
<1>12. ASSUME NEW s \in Sessions, FetchPage(s) PROVE TypeInv'
  BY <1>12, FetchPageEffect, DeliversTypes
<1>13. ASSUME NEW s \in Sessions, FetchEmptyPage(s) PROVE TypeInv'
  BY <1>13, EmptyPageEffect, DeliversTypes, VisitTypes
<1>14. ASSUME NEW s \in Sessions, PassOver(s) PROVE TypeInv'
  <2>1. session_cursor' \in 0 .. Len(SessionOrder) - 1
    BY <1>14 DEF PassOver, TypeInv, TypeOK
  <2> QED
    BY <1>14, <2>1, VisitTypes DEF PassOver, Visiting, VisitNext
<1>15. ASSUME NEW s \in Sessions, HistoryFails(s) PROVE TypeInv'
  <2>1. SessionChanged(s)
    BY <1>15, RetryEffect DEF HistoryFails, OnlyRetry
  <2>2. session_cursor' \in 0 .. Len(SessionOrder) - 1
    BY <1>15, CursorFacts DEF HistoryFails
  <2> QED
    BY <1>15, <2>1, <2>2, VisitTypes
    DEF HistoryFails, QueriesHistory, Visiting, VisitNext
<1>16. ASSUME NEW s \in Sessions, RetryDelayPasses(s) PROVE TypeInv'
  <2>1. session' \in [Sessions -> SessionPullState]
    BY <1>16, RetryEffect DEF RetryDelayPasses, OnlyRetry, SessionChanged
  <2> QED
    BY <1>16, <2>1 DEF RetryDelayPasses, stream, TypeInv, TypeOK
<1>17. ASSUME NEW s \in Sessions, Acknowledge(s) PROVE TypeInv'
  <2>1. /\ session' \in [Sessions -> SessionPullState]
        /\ UNCHANGED <<stream, pc, offset, session_cursor, live_events,
                       stream_generation, since, delivered>>
    BY <1>17, AcknowledgeEffect DEF SessionChanged
  <2> QED
    BY <2>1 DEF stream, TypeInv, TypeOK
<1>18. ASSUME NEW s \in Sessions, Post(s) PROVE TypeInv'
  BY <1>18, PostTypes
<1>19. CASE Disconnect \/ StreamFails
  BY <1>19 DEF Disconnect, StreamFails, puller, TypeInv, TypeOK
<1>20. CASE OnReconnected
  <2>1. generation' \in Nat /\ stream_generation' \in 0 .. generation'
    BY <1>20 DEF OnReconnected, puller, TypeInv, TypeOK
  <2> QED
    BY <1>20, <2>1 DEF OnReconnected, puller, TypeInv, TypeOK
<1> QED
  BY <1>1, <1>2, <1>3, <1>5, <1>6, <1>7, <1>8, <1>9, <1>10, <1>11, <1>12,
     <1>13, <1>14, <1>15, <1>16, <1>17, <1>18, <1>19, <1>20
  DEF Next, Pull, Provider, RaiseStreamError, HistoryFailsPermanently

LEMMA TypeInit == Init => TypeInv
<1> SUFFICES ASSUME Init PROVE TypeInv
  OBVIOUS
<1>1. /\ chat = <<>> /\ events = <<>> /\ live_events = <<>> /\ Len(<<>>) = 0
      /\ <<>> \in Seq(Sessions) /\ <<>> \in Seq(Messages)
  BY DEF Init
<1>2. session \in [Sessions -> SessionPullState]
  BY <1>1 DEF Init, SessionPullState
<1>3. /\ since \in [Sessions -> Nat] /\ generation \in Nat
      /\ stream_generation \in 0 .. generation
  BY DEF Init
<1>4. Len(SessionOrder) \in Nat /\ Len(SessionOrder) # 0
  BY PullerAssumption, LenProperties, EmptySeq
<1>5. /\ offset \in 0 .. Len(SessionOrder)
      /\ session_cursor \in 0 .. Len(SessionOrder) - 1
  BY <1>4 DEF Init
<1>6. 0 <= EventQueueSize /\ 0 <= MaxPosts
  BY ConstantFacts
<1> QED
  BY <1>1, <1>2, <1>3, <1>5, <1>6 DEF Init, TypeInv, TypeOK

LEMMA Typed == Spec => []TypeInv
BY TypeInit, TypeNext, PTL DEF Spec

(* The queues stay within their bounds, and every mark, window and queued   *)
(* message of _sessions is one that take_message can have put there.        *)
THEOREM PullerTypeCorrect == Spec => []TypeOK
<1>1. TypeInv => TypeOK
  BY DEF TypeInv
<1> QED
  BY <1>1, Typed, PTL

-----------------------------------------------------------------------------
(* The inductive invariant.                                                *)

Hist(s) == Range(session[s].history_events)

(* The messages of s that are still to be read or pushed.                   *)
Due(s) ==
    {j \in DOMAIN chat : /\ chat[j] = s /\ j >= since[s]
                         /\ j \notin delivered /\ j \notin Hist(s)}

(* ... and of them, those that the window of s ends behind.                 *)
Covered(s, j) ==
    session[s].history_scan # None /\ j <= session[s].history_scan.end_ms

Waits(j) == j \in Range(events) \cup Range(live_events)

(* What is kept is in the chat, of the session it is kept for.              *)
InChat ==
    /\ \A j \in Range(events) \cup Range(live_events) \cup delivered :
         j \in DOMAIN chat
    /\ \A s \in Sessions : \A j \in Hist(s) : j \in DOMAIN chat /\ chat[j] = s
    /\ \A s \in Sessions : session[s].in_flight # None =>
         /\ session[s].in_flight \in delivered
         /\ chat[session[s].in_flight] = s

QueuesOrdered ==
    /\ Increasing(events) /\ Increasing(live_events)
    /\ \A i \in Range(live_events), j \in Range(events) : i < j
    /\ \A s \in Sessions : Increasing(session[s].history_events)

Fresh ==
    pc \in {"stopped", "connected"} =>
        /\ live_events = <<>> /\ delivered = {}
        /\ \A s \in Sessions : /\ session[s].history_events = <<>>
                               /\ session[s].in_flight = None

(* A window holds every message that is due and not behind its end.         *)
ScanInv(s) ==
    LET scan == session[s].history_scan
    IN  IF scan = None THEN session[s].history_highwater_ms # None
        ELSE /\ scan.end_ms <= Now /\ scan.page_token <= Len(chat)
             /\ scan.start_ms <= since[s] \/ scan.start_ms <= Len(chat) + 1
             /\ \A j \in Due(s) : scan.start_ms <= j /\ scan.page_token < j

(* No mark is ahead of the clock, or further ahead of a message that is due *)
(* than the overlap.                                                       *)
MarkInv(s, t) == t # None => t <= Now /\ \A j \in Due(s) : t <= j + HistoryOverlap

MarksInv(s) ==
    /\ MarkInv(s, session[s].confirmed_event_ms)
    /\ MarkInv(s, session[s].history_highwater_ms)
    /\ \A j \in Due(s), h \in Hist(s) : h < j

(* A message is delivered after the older ones.                            *)
DeliveredInOrder ==
    \A i \in delivered, j \in DOMAIN chat :
        (j < i /\ chat[j] = chat[i] /\ j >= since[chat[i]]) => j \in delivered

(* A message that is due is pushed, in the window, or missed: then a        *)
(* reconnection has come or will come.                                     *)
GapsReopened ==
    ~stream_error => \A s \in Sessions : \A j \in Due(s) :
        \/ Waits(j) \/ Covered(s, j)
        \/ ~connected \/ generation # stream_generation

(* A pushed message may be behind a gap, ...                               *)
GapsBeforeEvents ==
    ~stream_error => \A s \in Sessions : \A j \in Due(s), i \in DOMAIN chat :
        (Waits(i) /\ chat[i] = s /\ j < i) =>
            Waits(j) \/ Covered(s, j) \/ generation # stream_generation

(* ... but one that can be delivered is not.                               *)
NoGapBeforeLive ==
    pc # "check" => \A s \in Sessions : \A j \in Due(s) :
        \A i \in Range(live_events) : (chat[i] = s /\ j < i) =>
            j \in Range(live_events) \/ Covered(s, j)

Windows ==
    /\ \A s \in Sessions : ScanInv(s) /\ MarksInv(s)
    /\ DeliveredInOrder /\ GapsReopened /\ GapsBeforeEvents /\ NoGapBeforeLive

PullInv ==
    /\ TypeInv /\ InChat /\ QueuesOrdered /\ Fresh
    /\ Running => Windows

LEMMA DueFacts ==
    ASSUME TypeInv, NEW s \in Sessions, NEW j \in Due(s)
    PROVE  /\ j \in DOMAIN chat /\ j \in Nat /\ 1 <= j /\ j <= Len(chat)
           /\ chat[j] = s /\ j >= since[s] /\ j \notin delivered /\ j \notin Hist(s)
<1>1. /\ j \in DOMAIN chat /\ chat[j] = s /\ j >= since[s]
      /\ j \notin delivered /\ j \notin Hist(s)
  BY DEF Due
<1> QED
  BY <1>1, ChatFacts

(* A message that is due and not behind the end of the window is in it.     *)
LEMMA CoveredIsInWindow ==
    ASSUME TypeInv, NEW s \in Sessions, ScanInv(s), NEW j \in Due(s), Covered(s, j)
    PROVE  InWindow(j, session[s].history_scan) /\ j \in WindowOf(s)
<1>1. session[s].history_scan \in HistoryScan /\ j \in DOMAIN chat /\ chat[j] = s
  BY StateFacts, DueFacts DEF Covered
<1>2. InWindow(j, session[s].history_scan)
  BY <1>1, DueFacts, ScanFacts DEF ScanInv, Covered, InWindow
<1> QED
  BY <1>1, <1>2 DEF WindowOf

(* The window that a reconnection opens begins before all that is due.      *)
LEMMA ReplacementReaches ==
    ASSUME TypeInv, NEW s \in Sessions, ScanInv(s), MarksInv(s)
    PROVE  \A j \in Due(s) : Replacement(s).start_ms <= j
<1> SUFFICES ASSUME NEW j \in Due(s) PROVE Replacement(s).start_ms <= j
  OBVIOUS
<1>1. /\ j \in Nat /\ Replacement(s).start_ms \in Nat /\ HistoryOverlap \in Nat
  BY DueFacts, ReplacementFacts, ScanFacts, ConstantFacts
<1>2. CASE session[s].history_scan # None
  <2>1. PICK scan \in HistoryScan : scan = session[s].history_scan
    BY <1>2, StateFacts
  <2>2. scan.start_ms \in Nat /\ scan.start_ms <= j
    BY <1>2, <2>1, ScanFacts DEF ScanInv
  <2>3. Replacement(s).start_ms <= scan.start_ms
    BY <1>2, <2>1, ReplacementFacts
  <2> QED
    BY <1>1, <2>2, <2>3
<1>3. CASE session[s].history_scan = None
  <2>1. PICK c : c = ConfirmedMs(s)
    OBVIOUS
  <2>2. /\ c # None /\ c \in Nat
        /\ c \in {session[s].confirmed_event_ms, session[s].history_highwater_ms}
    <3>1. session[s].history_highwater_ms # None
      BY <1>3 DEF ScanInv
    <3> QED
      BY <2>1, <3>1, ConfirmedFacts, StateFacts, ConstantFacts
  <2>3. c <= j + HistoryOverlap
    BY <2>2 DEF MarksInv, MarkInv
  <2>4. Replacement(s).start_ms = 0 \/ Replacement(s).start_ms + HistoryOverlap <= c
    BY <2>1, <2>2, ReplacementFacts
  <2> QED
    BY <1>1, <2>2, <2>3, <2>4
<1> QED
  BY <1>2, <1>3

(* What the invariant says of a message that has not come.                  *)
LEMMA InvNothingLost == PullInv => NothingLost
<1> SUFFICES ASSUME PullInv, Running, ~stream_error, NEW i \in DOMAIN chat,
                    i >= since[chat[i]], i \notin delivered,
                    i \notin Range(events) \cup Range(live_events)
                               \cup Range(session[chat[i]].history_events)
             PROVE  \/ /\ session[chat[i]].history_scan # None
                       /\ InWindow(i, session[chat[i]].history_scan)
                    \/ /\ ~connected \/ generation # stream_generation
                       /\ i >= Replacement(chat[i]).start_ms
  BY DEF NothingLost
<1>1. PICK s \in Sessions : s = chat[i]
  BY ElementOfSeq, ChatFacts DEF PullInv, TypeInv, TypeOK
<1>2. i \in Due(s) /\ ~Waits(i)
  BY <1>1 DEF Due, Hist, Waits
<1>3. TypeInv /\ ScanInv(s) /\ MarksInv(s)
  BY DEF PullInv, Windows
<1>4. \/ Covered(s, i) \/ ~connected \/ generation # stream_generation
  BY <1>2 DEF PullInv, Windows, GapsReopened
<1>5. CASE Covered(s, i)
  BY <1>1, <1>2, <1>3, <1>5, CoveredIsInWindow DEF Covered
<1>6. CASE ~connected \/ generation # stream_generation
  <2>1. Replacement(s).start_ms <= i
    BY <1>2, <1>3, ReplacementReaches
  <2>2. i \in Nat /\ Replacement(s).start_ms \in Nat
    BY <1>2, <1>3, DueFacts, ReplacementFacts, ScanFacts
  <2> QED
    BY <1>1, <1>6, <2>1, <2>2
<1> QED
  BY <1>4, <1>5, <1>6

-----------------------------------------------------------------------------
(* Steps that leave the sessions' windows alone.                            *)

SameWindows ==
    /\ UNCHANGED <<chat, since, delivered>>
    /\ \A s \in Sessions :
         /\ session'[s].history_events = session[s].history_events
         /\ session'[s].in_flight = session[s].in_flight
         /\ session'[s].history_scan = session[s].history_scan
         /\ session'[s].history_highwater_ms = session[s].history_highwater_ms
         /\ session'[s].confirmed_event_ms = session[s].confirmed_event_ms

LEMMA SameParts ==
    ASSUME SameWindows
    PROVE  /\ \A s \in Sessions : /\ Hist(s)' = Hist(s) /\ Due(s)' = Due(s)
                                  /\ \A j : Covered(s, j)' = Covered(s, j)
                                  /\ ScanInv(s) => ScanInv(s)'
                                  /\ MarksInv(s) => MarksInv(s)'
           /\ DeliveredInOrder => DeliveredInOrder'
<1>1. \A s \in Sessions : /\ Hist(s)' = Hist(s) /\ Due(s)' = Due(s)
                          /\ \A j : Covered(s, j)' = Covered(s, j)
                          /\ ScanInv(s) => ScanInv(s)'
                          /\ MarksInv(s) => MarksInv(s)'
  <2> TAKE s \in Sessions
  <2>1. Hist(s)' = Hist(s) /\ \A j : Covered(s, j)' = Covered(s, j)
    BY DEF SameWindows, Hist, Covered
  <2>2. Due(s)' = Due(s) /\ Now' = Now
    BY <2>1 DEF SameWindows, Due, Now
  <2>3. ScanInv(s) => ScanInv(s)'
    BY <2>2 DEF SameWindows, ScanInv
  <2>4. MarksInv(s) => MarksInv(s)'
    BY <2>1, <2>2 DEF SameWindows, MarksInv, MarkInv
  <2> QED
    BY <2>1, <2>2, <2>3, <2>4
<1>2. DeliveredInOrder => DeliveredInOrder'
  BY DEF SameWindows, DeliveredInOrder
<1> QED
  BY <1>1, <1>2

LEMMA SameInChat ==
    ASSUME PullInv, SameWindows,
           Range(events') \cup Range(live_events')
             \subseteq Range(events) \cup Range(live_events)
    PROVE  InChat'
<1>1. \A s \in Sessions : Hist(s)' = Hist(s)
  BY SameParts
<1> QED
  BY <1>1 DEF PullInv, InChat, SameWindows

(* The steps of the thread and of the connection that change no window, no  *)
(* queue and no generation.                                                *)
LEMMA QuietStep ==
    ASSUME PullInv, TypeInv', SameWindows,
           UNCHANGED <<events, live_events, generation, stream_generation>>,
           connected' => connected, stream_error => stream_error',
           Running' => Running,
           pc' \in {"stopped", "connected"} => pc \in {"stopped", "connected"},
           pc = "check" => pc' \in {"check", "failed"}
    PROVE  PullInv'
<1>1. InChat'
  BY SameInChat
<1>2. QueuesOrdered' /\ Fresh'
  BY DEF PullInv, QueuesOrdered, Fresh, SameWindows
<1>3. ASSUME Running' PROVE Windows'
  <2>1. Windows /\ Running
    BY <1>3 DEF PullInv
  <2>2. \A s \in Sessions : /\ Due(s)' = Due(s)
                            /\ \A j : Covered(s, j)' = Covered(s, j)
                            /\ ScanInv(s)' /\ MarksInv(s)'
    BY <2>1, SameParts DEF Windows
  <2>3. DeliveredInOrder'
    BY <2>1, SameParts DEF Windows
  <2>4. \A j : Waits(j)' = Waits(j)
    BY DEF Waits
  <2>5. GapsReopened'
    BY <2>1, <2>2, <2>4 DEF Windows, GapsReopened
  <2>6. GapsBeforeEvents'
    BY <2>1, <2>2, <2>4 DEF Windows, GapsBeforeEvents, SameWindows
  <2>7. NoGapBeforeLive'
    BY <1>3, <2>1, <2>2 DEF Windows, NoGapBeforeLive, SameWindows, Running, Started
  <2> QED
    BY <2>2, <2>3, <2>5, <2>6, <2>7 DEF Windows
<1> QED
  BY <1>1, <1>2, <1>3 DEF PullInv

LEMMA ReconnectStep ==
    ASSUME PullInv, TypeInv', OnReconnected
    PROVE  PullInv'
<1>1. SameWindows
  BY DEF SameWindows, OnReconnected, puller
<1>2. /\ UNCHANGED <<events, live_events, pc, stream_error, stream_generation>>
      /\ generation' # stream_generation'
  BY DEF OnReconnected, puller, PullInv, TypeInv, TypeOK
<1>3. InChat'
  BY <1>1, <1>2, SameInChat
<1>4. QueuesOrdered' /\ Fresh'
  BY <1>1, <1>2 DEF PullInv, QueuesOrdered, Fresh, SameWindows
<1>5. ASSUME Running' PROVE Windows'
  <2>1. Windows
    BY <1>2, <1>5 DEF PullInv, Running, Started
  <2>2. \A s \in Sessions : /\ Due(s)' = Due(s)
                            /\ \A j : Covered(s, j)' = Covered(s, j)
                            /\ ScanInv(s)' /\ MarksInv(s)'
    BY <1>1, <2>1, SameParts DEF Windows
  <2>3. DeliveredInOrder'
    BY <1>1, <2>1, SameParts DEF Windows
  <2>4. GapsReopened' /\ GapsBeforeEvents'
    BY <1>2 DEF GapsReopened, GapsBeforeEvents
  <2>5. NoGapBeforeLive'
    BY <1>1, <1>2, <2>1, <2>2 DEF Windows, NoGapBeforeLive, SameWindows
  <2> QED
    BY <2>2, <2>3, <2>4, <2>5 DEF Windows
<1> QED
  BY <1>3, <1>4, <1>5 DEF PullInv

(* An event moves from the queue to the buffer: the check that follows      *)
(* looks whether there is a gap before it.                                 *)
LEMMA CollectStep ==
    ASSUME PullInv, TypeInv', CollectLiveEvent
    PROVE  PullInv'
<1>1. SameWindows
  BY DEF SameWindows, CollectLiveEvent
<1>2. /\ UNCHANGED <<connected, generation, stream_error, stream_generation>>
      /\ pc = "collect" /\ pc' = "check"
  BY DEF CollectLiveEvent
<1>3. /\ Range(events') \cup Range(live_events')
           = Range(events) \cup Range(live_events)
      /\ \/ events' = events /\ live_events' = live_events
         \/ /\ events # <<>>
            /\ events' = Tail(events)
            /\ live_events' = Append(live_events, Head(events))
  BY CollectEffect DEF PullInv
<1>4. InChat'
  BY <1>1, <1>3, SameInChat
<1>5. /\ Increasing(events') /\ Increasing(live_events')
      /\ \A i \in Range(live_events'), j \in Range(events') : i < j
  <2>1. CASE events' = events /\ live_events' = live_events
    BY <2>1 DEF PullInv, QueuesOrdered
  <2>2. CASE /\ events # <<>> /\ events' = Tail(events)
             /\ live_events' = Append(live_events, Head(events))
    <3>1. /\ events \in Seq(Messages) /\ live_events \in Seq(Messages)
          /\ Messages \in SUBSET Nat
      BY ConstantFacts DEF PullInv, TypeInv, TypeOK
    <3>2. PICK e \in Messages : e = Head(events) /\ e \in Range(events)
      BY <2>2, <3>1, TailKeeps
    <3>3. /\ Increasing(events') /\ Range(events') \subseteq Range(events)
          /\ \A x \in Range(events') : e < x
      BY <2>2, <3>1, <3>2, TailKeeps DEF PullInv, QueuesOrdered
    <3>4. live_events' = Append(live_events, e)
      BY <2>2, <3>2
    <3>5. \A x \in Range(live_events) : x < e
      BY <3>2 DEF PullInv, QueuesOrdered
    <3>6. /\ Range(live_events') = Range(live_events) \cup {e}
          /\ Increasing(live_events')
      <4>1. Increasing(live_events)
        BY DEF PullInv, QueuesOrdered
      <4> QED
        BY <3>1, <3>4, <3>5, <4>1, AppendKeeps
    <3>7. \A i \in Range(live_events), j \in Range(events) : i < j
      BY DEF PullInv, QueuesOrdered
    <3> QED
      BY <3>3, <3>6, <3>7
  <2> QED
    BY <1>3, <2>1, <2>2
<1>6. QueuesOrdered' /\ Fresh'
  BY <1>1, <1>2, <1>5 DEF PullInv, QueuesOrdered, Fresh, SameWindows
<1>7. Windows'
  <2>1. Windows
    BY <1>2 DEF PullInv, Running, Started
  <2>2. \A s \in Sessions : /\ Due(s)' = Due(s)
                            /\ \A j : Covered(s, j)' = Covered(s, j)
                            /\ ScanInv(s)' /\ MarksInv(s)'
    BY <1>1, <2>1, SameParts DEF Windows
  <2>3. DeliveredInOrder'
    BY <1>1, <2>1, SameParts DEF Windows
  <2>4. \A j : Waits(j)' = Waits(j)
    BY <1>3 DEF Waits
  <2>5. GapsReopened' /\ GapsBeforeEvents'
    BY <1>1, <1>2, <2>1, <2>2, <2>4
    DEF Windows, GapsReopened, GapsBeforeEvents, SameWindows
  <2>6. NoGapBeforeLive'
    BY <1>2 DEF NoGapBeforeLive
  <2> QED
    BY <2>2, <2>3, <2>5, <2>6 DEF Windows
<1> QED
  BY <1>4, <1>6, <1>7 DEF PullInv

-----------------------------------------------------------------------------
(* A reconnection opens windows up to now that begin before all that is     *)
(* due; without one there is no gap before an event in the buffer.          *)
LEMMA HandoffStep ==
    ASSUME PullInv, TypeInv', Handoff, ~stream_error,
           ClockAhead <= HistoryOverlap + 1,
           UNCHANGED <<stream, live_events, since, delivered>>,
           \/ pc = "idle" /\ pc' = "collect"
           \/ pc = "check" /\ pc' = "sessions"
    PROVE  PullInv'
<1>1. /\ UNCHANGED <<chat, connected, events, generation, stream_error>>
      /\ Running /\ Windows /\ stream_generation' = generation
  BY HandoffEffect DEF stream, PullInv, Running, Started
<1>2. CASE generation = stream_generation
  <2>1. session' = session
    BY <1>2, HandoffEffect DEF PullInv
  <2>2. SameWindows
    BY <1>1, <2>1 DEF SameWindows
  <2>3. InChat'
    BY <1>1, <2>2, SameInChat
  <2>4. QueuesOrdered' /\ Fresh'
    BY <1>1, <2>1 DEF PullInv, QueuesOrdered, Fresh
  <2>5. \A s \in Sessions : /\ Due(s)' = Due(s)
                            /\ \A j : Covered(s, j)' = Covered(s, j)
                            /\ ScanInv(s)' /\ MarksInv(s)'
    BY <1>1, <2>2, SameParts DEF Windows
  <2>6. DeliveredInOrder'
    BY <1>1, <2>2, SameParts DEF Windows
  <2>7. \A j : Waits(j)' = Waits(j)
    BY <1>1 DEF Waits
  <2>8. GapsReopened' /\ GapsBeforeEvents'
    BY <1>1, <1>2, <2>5, <2>7 DEF Windows, GapsReopened, GapsBeforeEvents
  <2>9. NoGapBeforeLive'
    <3> SUFFICES ASSUME NEW s \in Sessions, NEW j \in Due(s),
                        NEW i \in Range(live_events), chat[i] = s, j < i
                 PROVE  j \in Range(live_events) \/ Covered(s, j)
      BY <1>1, <2>5 DEF NoGapBeforeLive
    <3>1. i \in DOMAIN chat /\ Waits(i)
      BY DEF PullInv, InChat, Waits
    <3>2. Waits(j) \/ Covered(s, j)
      BY <1>1, <1>2, <3>1 DEF Windows, GapsBeforeEvents
    <3>3. j \notin Range(events)
      <4>1. i \in Nat /\ j \in Nat
        BY <3>1, ChatFacts, DueFacts DEF PullInv
      <4>2. j \in Range(events) => i < j
        BY DEF PullInv, QueuesOrdered
      <4> QED
        BY <4>1, <4>2
    <3> QED
      BY <3>2, <3>3 DEF Waits
  <2> QED
    BY <2>3, <2>4, <2>5, <2>6, <2>8, <2>9 DEF PullInv, Windows
<1>3. CASE generation # stream_generation
  <2>1. \A s \in Sessions :
          /\ session'[s].history_scan = Replacement(s)
          /\ session'[s].history_events = session[s].history_events
          /\ session'[s].in_flight = session[s].in_flight
          /\ session'[s].confirmed_event_ms = session[s].confirmed_event_ms
          /\ session'[s].history_highwater_ms = session[s].history_highwater_ms
    BY <1>3, HandoffEffect DEF PullInv
  <2>2. \A s \in Sessions : Hist(s)' = Hist(s) /\ Due(s)' = Due(s)
    <3>1. \A s \in Sessions : Hist(s)' = Hist(s)
      BY <2>1 DEF Hist
    <3> QED
      BY <1>1, <3>1 DEF Due
  <2>3. Now' = Now /\ Now \in Nat /\ Len(chat) \in Nat
        /\ Now = Len(chat) + ClockAhead /\ Len(chat)' = Len(chat)
        /\ ClockAhead \in Nat /\ HistoryOverlap \in Nat
    BY <1>1, ChatFacts, ConstantFacts DEF PullInv, Now
  <2>4. InChat'
    BY <1>1, <2>1, <2>2 DEF PullInv, InChat
  <2>5. QueuesOrdered' /\ Fresh'
    BY <1>1, <2>1 DEF PullInv, QueuesOrdered, Fresh
  <2>6. ASSUME NEW s \in Sessions
        PROVE  ScanInv(s)' /\ MarksInv(s)' /\ \A j \in Due(s)' : Covered(s, j)'
    <3>1. PICK new \in HistoryScan : new = Replacement(s)
      BY ReplacementFacts DEF PullInv
    <3>2. /\ new.start_ms \in Nat /\ new # None
          /\ new.end_ms = Now /\ new.page_token = 0
          /\ \A j \in Due(s) : new.start_ms <= j
      BY <1>1, <3>1, ScanFacts, ReplacementFacts, ReplacementReaches
      DEF PullInv, Windows
    <3>3. \A j \in Due(s) : j \in Nat /\ 1 <= j /\ j <= Len(chat)
      BY DueFacts DEF PullInv
    <3>4. new.start_ms <= since[s] \/ new.start_ms <= Len(chat) + 1
      <4>1. since[s] \in Nat
        BY StateFacts DEF PullInv
      <4>2. CASE session[s].history_scan # None
        <5>1. PICK scan \in HistoryScan : scan = session[s].history_scan
          BY <4>2, StateFacts DEF PullInv
        <5>2. /\ scan.start_ms \in Nat
              /\ scan.start_ms <= since[s] \/ scan.start_ms <= Len(chat) + 1
          BY <1>1, <4>2, <5>1, ScanFacts DEF Windows, ScanInv
        <5>3. new.start_ms <= scan.start_ms
          BY <3>1, <4>2, <5>1, ReplacementFacts DEF PullInv
        <5> QED
          BY <2>3, <3>2, <4>1, <5>2, <5>3
      <4>3. CASE session[s].history_scan = None
        <5>1. PICK c : c = ConfirmedMs(s)
          OBVIOUS
        <5>2. /\ c # None /\ c \in Nat
              /\ c \in {session[s].confirmed_event_ms,
                        session[s].history_highwater_ms}
          <6>1. session[s].history_highwater_ms # None
            BY <1>1, <4>3 DEF Windows, ScanInv
          <6> QED
            BY <5>1, <6>1, ConfirmedFacts, StateFacts, ConstantFacts DEF PullInv
        <5>3. c <= Now
          BY <1>1, <5>2 DEF Windows, MarksInv, MarkInv
        <5>4. new.start_ms = 0 \/ new.start_ms + HistoryOverlap <= c
          BY <3>1, <5>1, <5>2, ReplacementFacts DEF PullInv
        <5> QED
          BY <2>3, <3>2, <5>2, <5>3, <5>4
      <4> QED
        BY <4>2, <4>3
    <3>5. ScanInv(s)'
      BY <1>1, <2>1, <2>2, <2>3, <3>1, <3>2, <3>3, <3>4 DEF ScanInv
    <3>6. MarksInv(s)'
      BY <1>1, <2>1, <2>2, <2>3 DEF Windows, MarksInv, MarkInv
    <3>7. \A j \in Due(s)' : Covered(s, j)'
      BY <2>1, <2>2, <2>3, <3>1, <3>2, <3>3 DEF Covered
    <3> QED
      BY <3>5, <3>6, <3>7
  <2>7. DeliveredInOrder'
    BY <1>1 DEF Windows, DeliveredInOrder
  <2>8. GapsReopened' /\ GapsBeforeEvents' /\ NoGapBeforeLive'
    BY <2>6 DEF GapsReopened, GapsBeforeEvents, NoGapBeforeLive
  <2> QED
    BY <2>4, <2>5, <2>6, <2>7, <2>8 DEF PullInv, Windows
<1> QED
  BY <1>2, <1>3

(* The first windows: from here on every message since their start is due.  *)
LEMMA StartStep ==
    ASSUME PullInv, TypeInv', NEW confirmed \in RecordedMessages,
           StartWindows(confirmed)
    PROVE  PullInv'
<1>1. /\ UNCHANGED <<chat, connected, events, generation, stream_error>>
      /\ UNCHANGED <<live_events, delivered>> /\ pc = "connected" /\ pc' = "idle"
  BY DEF StartWindows, stream
<1>2. /\ live_events = <<>> /\ delivered = {}
      /\ \A s \in Sessions : /\ session[s].history_events = <<>>
                             /\ session[s].in_flight = None
  BY <1>1 DEF PullInv, Fresh
<1>3. \A s \in Sessions :
        /\ confirmed[s] \in DOMAIN chat \cup {None}
        /\ session'[s].history_scan = NewHistoryScan(confirmed[s])
        /\ session'[s].history_events = <<>>
        /\ session'[s].in_flight = None
        /\ session'[s].confirmed_event_ms = confirmed[s]
        /\ session'[s].history_highwater_ms = confirmed[s]
        /\ since'[s] = NewHistoryScan(confirmed[s]).start_ms
  BY <1>2, StartEffect DEF PullInv
<1>4. \A s \in Sessions : Hist(s)' = {}
  BY <1>3, EmptyRange DEF Hist
<1>5. InChat'
  BY <1>1, <1>2, <1>3, <1>4 DEF PullInv, InChat
<1>6. QueuesOrdered' /\ Fresh'
  BY <1>1, <1>2, <1>3 DEF PullInv, QueuesOrdered, Fresh, Increasing
<1>7. /\ Now' = Now /\ Now \in Nat /\ Len(chat) \in Nat /\ Len(chat) <= Now
      /\ DOMAIN chat = 1 .. Len(chat) /\ HistoryOverlap \in Nat
  BY <1>1, ChatFacts, ConstantFacts DEF PullInv, Now
<1>8. ASSUME NEW s \in Sessions
      PROVE  ScanInv(s)' /\ MarksInv(s)' /\ \A j \in Due(s)' : Covered(s, j)'
  <2>1. PICK c \in Nat \cup {None} : c = confirmed[s] /\ (c # None => c <= Len(chat))
    BY <1>3, <1>7
  <2>2. PICK new \in HistoryScan :
          /\ new = NewHistoryScan(c) /\ new.end_ms = Now /\ new.page_token = 0
          /\ new.start_ms \in Nat /\ new # None
          /\ c # None /\ c <= Now => c <= new.start_ms + HistoryOverlap
    BY NewScanFacts, ScanFacts DEF PullInv
  <2>3. \A j \in Due(s)' : j \in 1 .. Len(chat) /\ new.start_ms <= j
    BY <1>1, <1>3, <1>7, <2>1, <2>2 DEF Due
  <2>4. ScanInv(s)'
    BY <1>1, <1>3, <1>7, <2>1, <2>2, <2>3 DEF ScanInv
  <2>5. MarkInv(s, c)'
    BY <1>7, <2>1, <2>2, <2>3 DEF MarkInv
  <2>6. MarksInv(s)'
    BY <1>3, <1>4, <2>1, <2>5 DEF MarksInv, MarkInv
  <2>7. \A j \in Due(s)' : Covered(s, j)'
    BY <1>3, <1>7, <2>1, <2>2, <2>3 DEF Covered
  <2> QED
    BY <2>4, <2>6, <2>7
<1>9. DeliveredInOrder'
  BY <1>1, <1>2 DEF DeliveredInOrder
<1>10. GapsReopened' /\ GapsBeforeEvents' /\ NoGapBeforeLive'
  BY <1>8 DEF GapsReopened, GapsBeforeEvents, NoGapBeforeLive
<1> QED
  BY <1>5, <1>6, <1>8, <1>9, <1>10 DEF PullInv, Windows

(* The acknowledged message is older than every one that is due: as a mark  *)
(* it cuts nothing off.                                                    *)
LEMMA AcknowledgeStep ==
    ASSUME PullInv, TypeInv', NEW s \in Sessions, Acknowledge(s)
    PROVE  PullInv'
<1>1. /\ UNCHANGED <<chat, connected, events, generation, stream_error>>
      /\ UNCHANGED <<pc, live_events, stream_generation, since, delivered>>
      /\ Running /\ Windows
  BY AcknowledgeEffect DEF stream, PullInv, Acknowledge, Running, Started
<1>2. PICK i \in DOMAIN chat :
        i = session[s].in_flight /\ i \in delivered /\ chat[i] = s
  BY AcknowledgeEffect DEF PullInv, InChat
<1>3. /\ \A t \in Sessions \ {s} : session'[t] = session[t]
      /\ session'[s].in_flight = None
      /\ session'[s].history_events = session[s].history_events
      /\ session'[s].history_scan = session[s].history_scan
      /\ session'[s].history_highwater_ms = session[s].history_highwater_ms
      /\ session'[s].confirmed_event_ms \in {session[s].confirmed_event_ms, i}
  BY <1>2, AcknowledgeEffect DEF PullInv, SessionChanged
<1>4. \A t \in Sessions : /\ session'[t].history_events = session[t].history_events
                          /\ session'[t].history_scan = session[t].history_scan
                          /\ session'[t].history_highwater_ms
                               = session[t].history_highwater_ms
  BY <1>3
<1>5. /\ \A t \in Sessions : Hist(t)' = Hist(t) /\ Due(t)' = Due(t)
      /\ \A t \in Sessions : \A j : Covered(t, j)' = Covered(t, j)
      /\ \A j : Waits(j)' = Waits(j)
      /\ Now' = Now
  <2>1. \A t \in Sessions : Hist(t)' = Hist(t)
    BY <1>4 DEF Hist
  <2>2. \A t \in Sessions : Due(t)' = Due(t)
    BY <1>1, <2>1 DEF Due
  <2>3. \A t \in Sessions : \A j : Covered(t, j)' = Covered(t, j)
    BY <1>4 DEF Covered
  <2> QED
    BY <1>1, <2>1, <2>2, <2>3 DEF Waits, Now
<1>6. InChat'
  BY <1>1, <1>3, <1>5 DEF PullInv, InChat
<1>7. QueuesOrdered' /\ Fresh'
  BY <1>1, <1>4 DEF PullInv, QueuesOrdered, Fresh, Running, Started
<1>8. ASSUME NEW t \in Sessions PROVE ScanInv(t)'
  BY <1>1, <1>4, <1>5 DEF Windows, ScanInv
<1>9. ASSUME NEW t \in Sessions PROVE MarksInv(t)'
  <2>1. /\ MarkInv(t, session[t].confirmed_event_ms)
        /\ MarkInv(t, session[t].history_highwater_ms)
        /\ \A j \in Due(t), h \in Hist(t) : h < j
    BY <1>1 DEF Windows, MarksInv
  <2>2. MarkInv(s, i)
    <3>1. i \in Nat /\ i <= Now /\ HistoryOverlap \in Nat
      BY <1>2, ChatFacts, ConstantFacts DEF PullInv
    <3>2. ASSUME NEW j \in Due(s) PROVE i <= j + HistoryOverlap
      <4>1. j \in DOMAIN chat /\ j \in Nat /\ chat[j] = s /\ j >= since[s]
            /\ j \notin delivered
        BY DueFacts DEF PullInv
      <4>2. ~(j < i)
        BY <1>1, <1>2, <4>1 DEF Windows, DeliveredInOrder
      <4> QED
        BY <3>1, <4>1, <4>2
    <3> QED
      BY <3>1, <3>2 DEF MarkInv
  <2>3. MarkInv(t, session'[t].confirmed_event_ms)
    BY <1>3, <2>1, <2>2
  <2>4. MarkInv(t, session'[t].history_highwater_ms)
    BY <1>4, <2>1
  <2> QED
    BY <1>5, <2>1, <2>3, <2>4 DEF MarksInv, MarkInv
<1>10. DeliveredInOrder'
  BY <1>1 DEF Windows, DeliveredInOrder
<1>11. GapsReopened' /\ GapsBeforeEvents' /\ NoGapBeforeLive'
  BY <1>1, <1>5 DEF Windows, GapsReopened, GapsBeforeEvents, NoGapBeforeLive
<1> QED
  BY <1>6, <1>7, <1>8, <1>9, <1>10, <1>11 DEF PullInv, Windows

(* A new message is due, unless it is older than the stream of its session: *)
(* it is pushed, or the connection is down.  The clock is not so far ahead  *)
(* that a mark has passed it.                                              *)
LEMMA PostStep ==
    ASSUME PullInv, TypeInv', NEW s \in Sessions, Post(s),
           ClockAhead <= HistoryOverlap + 1
    PROVE  PullInv'
<1>1. /\ UNCHANGED <<connected, generation, pc, session, live_events>>
      /\ UNCHANGED <<stream_generation, since, delivered>>
  BY DEF Post, puller
<1>2. PICK N \in Nat :
        /\ N = Len(chat) /\ Len(chat)' = N + 1
        /\ DOMAIN chat = 1 .. N /\ DOMAIN chat' = 1 .. N + 1
        /\ chat'[N + 1] = s /\ \A j \in DOMAIN chat : chat'[j] = chat[j]
        /\ events' # events => events' = Append(events, N + 1) /\ connected
  BY ChatFacts, PostTypes DEF PullInv
<1>3. /\ Now \in Nat /\ Now = N + ClockAhead /\ Now' = N + 1 + ClockAhead
      /\ ClockAhead \in Nat /\ HistoryOverlap \in Nat
  BY <1>2, ChatFacts, ConstantFacts DEF PullInv, Now
<1>4. /\ \A t \in Sessions : Hist(t)' = Hist(t)
      /\ \A t \in Sessions : \A j : Covered(t, j)' = Covered(t, j)
      /\ \A t \in Sessions : \A j \in Due(t)' :
           j \in Due(t) \/ (j = N + 1 /\ t = s /\ j >= since[t])
  <2>1. \A t \in Sessions : Hist(t)' = Hist(t)
    BY <1>1 DEF Hist
  <2>2. \A t \in Sessions : \A j : Covered(t, j)' = Covered(t, j)
    BY <1>1 DEF Covered
  <2>3. ASSUME NEW t \in Sessions, NEW j \in Due(t)'
        PROVE  j \in Due(t) \/ (j = N + 1 /\ t = s /\ j >= since[t])
    <3>1. /\ j \in 1 .. N + 1 /\ chat'[j] = t /\ j >= since[t]
          /\ j \notin delivered /\ j \notin Hist(t)
      BY <1>1, <1>2, <2>1 DEF Due
    <3>2. CASE j = N + 1
      BY <1>2, <3>1, <3>2
    <3>3. CASE j # N + 1
      <4>1. j \in DOMAIN chat
        BY <1>2, <3>1, <3>3
      <4> QED
        BY <1>2, <3>1, <4>1 DEF Due
    <3> QED
      BY <3>2, <3>3
  <2> QED
    BY <2>1, <2>2, <2>3
<1>5. Range(events) \subseteq Range(events')
      /\ Range(events') \subseteq Range(events) \cup {N + 1}
      /\ Increasing(events')
      /\ \A i \in Range(live_events), j \in Range(events') : i < j
  <2>1. /\ events \in Seq(Messages) /\ Messages \in SUBSET Nat /\ Increasing(events)
        /\ \A x \in Range(events) : x < N + 1
        /\ \A i \in Range(live_events) : i < N + 1
        /\ \A i \in Range(live_events), j \in Range(events) : i < j
    <3>1. \A x \in Range(events) \cup Range(live_events) : x \in 1 .. N
      BY <1>2 DEF PullInv, InChat
    <3>2. events \in Seq(Messages) /\ Messages \in SUBSET Nat
      BY ConstantFacts DEF PullInv, TypeInv, TypeOK
    <3>3. \A x \in Range(events) \cup Range(live_events) : x < N + 1
      BY <3>1
    <3>4. /\ Increasing(events)
          /\ \A i \in Range(live_events), j \in Range(events) : i < j
      BY DEF PullInv, QueuesOrdered
    <3> QED
      BY <3>2, <3>3, <3>4
  <2>2. CASE events' = events
    BY <2>1, <2>2
  <2>3. CASE events' # events
    <3>1. PICK e \in Messages : e = N + 1
      <4>1. N + 1 <= MaxPosts /\ MaxPosts \in Nat
        BY <1>2, ConstantFacts DEF TypeInv
      <4> QED
        BY <4>1 DEF Messages
    <3>2. events' = Append(events, e)
      BY <1>2, <2>3, <3>1
    <3>3. Range(events') = Range(events) \cup {e} /\ Increasing(events')
      BY <2>1, <3>1, <3>2, AppendKeeps
    <3> QED
      BY <2>1, <3>1, <3>3
  <2> QED
    BY <2>2, <2>3
<1>6. InChat'
  <2>1. \A j \in DOMAIN chat : j \in DOMAIN chat' /\ chat'[j] = chat[j]
    BY <1>2
  <2>2. N + 1 \in DOMAIN chat'
    BY <1>2
  <2>3. \A j \in Range(events') \cup Range(live_events') \cup delivered' :
          j \in DOMAIN chat'
    BY <1>1, <1>5, <2>1, <2>2 DEF PullInv, InChat
  <2>4. \A t \in Sessions : \A j \in Hist(t)' : j \in DOMAIN chat' /\ chat'[j] = t
    BY <1>4, <2>1 DEF PullInv, InChat
  <2>5. \A t \in Sessions : session'[t].in_flight # None =>
          /\ session'[t].in_flight \in delivered'
          /\ chat'[session'[t].in_flight] = t
    BY <1>1, <2>1 DEF PullInv, InChat
  <2> QED
    BY <2>3, <2>4, <2>5 DEF InChat
<1>7. QueuesOrdered' /\ Fresh'
  BY <1>1, <1>5 DEF PullInv, QueuesOrdered, Fresh
<1>8. ASSUME Running' PROVE Windows'
  <2>1. Windows
    BY <1>1, <1>8 DEF PullInv, Running, Started
  <2>2. ASSUME NEW t \in Sessions PROVE ScanInv(t)'
    <3>1. CASE session[t].history_scan = None
      BY <1>1, <2>1, <3>1 DEF Windows, ScanInv
    <3>2. CASE session[t].history_scan # None
      <4>1. PICK scan \in HistoryScan : scan = session[t].history_scan
        BY <3>2, StateFacts DEF PullInv
      <4>2. /\ scan.start_ms \in Nat /\ scan.end_ms \in Nat
            /\ scan.page_token \in Nat /\ since[t] \in Nat
        BY <4>1, ScanFacts, StateFacts DEF PullInv
      <4>3. /\ scan.end_ms <= Now /\ scan.page_token <= N
            /\ scan.start_ms <= since[t] \/ scan.start_ms <= N + 1
            /\ \A j \in Due(t) : scan.start_ms <= j /\ scan.page_token < j
        BY <1>2, <2>1, <3>2, <4>1 DEF Windows, ScanInv
      <4>4. \A j \in Due(t)' : scan.start_ms <= j /\ scan.page_token < j
        BY <1>4, <4>2, <4>3
      <4>5. /\ scan.end_ms <= Now' /\ scan.page_token <= N + 1
            /\ scan.start_ms <= since[t] \/ scan.start_ms <= N + 2
        BY <1>3, <4>2, <4>3
      <4> QED
        BY <1>1, <1>2, <3>2, <4>1, <4>4, <4>5 DEF ScanInv
    <3> QED
      BY <3>1, <3>2
  <2>3. ASSUME NEW t \in Sessions PROVE MarksInv(t)'
    <3>1. ASSUME NEW m \in Nat \cup {None}, MarkInv(t, m)
          PROVE  MarkInv(t, m)'
      BY <1>3, <1>4, <3>1 DEF MarkInv
    <3>2. MarkInv(t, session[t].confirmed_event_ms)'
      <4>1. PICK m \in Nat \cup {None} : m = session[t].confirmed_event_ms
        BY StateFacts DEF PullInv
      <4>2. MarkInv(t, m)'
        BY <2>1, <3>1, <4>1 DEF Windows, MarksInv
      <4> QED
        BY <1>1, <4>1, <4>2 DEF MarkInv
    <3>3. MarkInv(t, session[t].history_highwater_ms)'
      <4>1. PICK m \in Nat \cup {None} : m = session[t].history_highwater_ms
        BY StateFacts DEF PullInv
      <4>2. MarkInv(t, m)'
        BY <2>1, <3>1, <4>1 DEF Windows, MarksInv
      <4> QED
        BY <1>1, <4>1, <4>2 DEF MarkInv
    <3>4. \A j \in Due(t)', h \in Hist(t)' : h < j
      <4>1. \A h \in Hist(t) : h \in 1 .. N
        BY <1>2 DEF PullInv, InChat
      <4> QED
        BY <1>4, <2>1, <4>1 DEF Windows, MarksInv
    <3> QED
      BY <3>2, <3>3, <3>4 DEF MarksInv
  <2>4. DeliveredInOrder'
    <3> SUFFICES ASSUME NEW i \in delivered, NEW j \in 1 .. N + 1,
                        j < i, chat'[j] = chat'[i], j >= since[chat'[i]]
                 PROVE  j \in delivered
      BY <1>1, <1>2 DEF DeliveredInOrder
    <3>1. i \in 1 .. N
      BY <1>2 DEF PullInv, InChat
    <3>2. j \in 1 .. N
      BY <3>1
    <3>3. chat'[i] = chat[i] /\ chat'[j] = chat[j]
      BY <1>2, <3>1, <3>2
    <3> QED
      BY <1>2, <2>1, <3>2, <3>3 DEF Windows, DeliveredInOrder
  <2>5. \A j \in DOMAIN chat : Waits(j) => Waits(j)'
    BY <1>1, <1>5 DEF Waits
  <2>6. \A j \in DOMAIN chat : Waits(j)' => Waits(j) \/ events' # events
    BY <1>1 DEF Waits
  <2>7. GapsReopened'
    <3> SUFFICES ASSUME ~stream_error', NEW t \in Sessions, NEW j \in Due(t)'
                 PROVE  \/ Waits(j)' \/ Covered(t, j)'
                        \/ ~connected' \/ generation' # stream_generation'
      BY DEF GapsReopened
    <3>1. ~stream_error
      BY DEF Post, PullInv, TypeInv, TypeOK
    <3>2. CASE j \in Due(t)
      <4>1. j \in DOMAIN chat
        BY <3>2 DEF Due
      <4> QED
        BY <1>1, <1>4, <2>1, <2>5, <3>1, <3>2, <4>1 DEF Windows, GapsReopened
    <3>3. CASE j = N + 1
      <4>1. CASE ~connected
        BY <1>1, <4>1
      <4>2. CASE connected
        <5>1. events' = Append(events, N + 1)
          BY <1>2, <4>2 DEF Post
        <5>2. /\ events \in Seq(Messages) /\ Messages \in SUBSET Nat
              /\ N + 1 \in Messages
          <6>1. N + 1 <= MaxPosts /\ MaxPosts \in Nat
            BY <1>2, ConstantFacts DEF TypeInv
          <6> QED
            BY <6>1, ConstantFacts DEF Messages, PullInv, TypeInv, TypeOK
        <5>3. N + 1 \in Range(events')
          BY <5>1, <5>2, AppendKeeps
        <5> QED
          BY <3>3, <5>3 DEF Waits
      <4> QED
        BY <4>1, <4>2
    <3> QED
      BY <1>4, <3>2, <3>3
  <2>8. GapsBeforeEvents'
    <3> SUFFICES ASSUME ~stream_error', NEW t \in Sessions, NEW j \in Due(t)',
                        NEW i \in 1 .. N + 1, Waits(i)', chat'[i] = t, j < i
                 PROVE  \/ Waits(j)' \/ Covered(t, j)'
                        \/ generation' # stream_generation'
      BY <1>2 DEF GapsBeforeEvents
    <3>1. ~stream_error
      BY DEF Post, PullInv, TypeInv, TypeOK
    <3>2. j \in Due(t) /\ j \in DOMAIN chat
      BY <1>4 DEF Due
    <3>3. CASE i = N + 1
      <4>1. i \notin Range(events) \cup Range(live_events)
        <5>1. i \notin DOMAIN chat
          BY <1>2, <3>3
        <5> QED
          BY <5>1 DEF PullInv, InChat
      <4>2. connected
        BY <1>1, <1>2, <4>1 DEF Waits
      <4>3. Waits(j) \/ Covered(t, j) \/ generation # stream_generation
        BY <2>1, <3>1, <3>2, <4>2 DEF Windows, GapsReopened
      <4> QED
        BY <1>1, <1>4, <2>5, <3>2, <4>3
    <3>4. CASE i # N + 1
      <4>1. i \in DOMAIN chat
        BY <1>2, <3>4
      <4>2. Waits(i) /\ chat[i] = t
        BY <1>1, <1>2, <1>5, <3>4, <4>1 DEF Waits
      <4>3. Waits(j) \/ Covered(t, j) \/ generation # stream_generation
        BY <2>1, <3>1, <3>2, <4>1, <4>2 DEF Windows, GapsBeforeEvents
      <4> QED
        BY <1>1, <1>4, <2>5, <3>2, <4>3
    <3> QED
      BY <3>3, <3>4
  <2>9. NoGapBeforeLive'
    <3> SUFFICES ASSUME pc # "check", NEW t \in Sessions, NEW j \in Due(t)',
                        NEW i \in Range(live_events), chat'[i] = t, j < i
                 PROVE  j \in Range(live_events) \/ Covered(t, j)
      BY <1>1, <1>4 DEF NoGapBeforeLive
    <3>1. i \in 1 .. N
      BY <1>2 DEF PullInv, InChat
    <3>2. j \in Due(t) /\ chat[i] = t
      BY <1>2, <1>4, <3>1
    <3> QED
      BY <2>1, <3>2 DEF Windows, NoGapBeforeLive
  <2> QED
    BY <2>2, <2>3, <2>4, <2>7, <2>8, <2>9 DEF Windows
<1> QED
  BY <1>6, <1>7, <1>8 DEF PullInv

-----------------------------------------------------------------------------
(* The steps that deliver: what is delivered is not younger than anything    *)
(* that is due or read, and what is no longer due or read was delivered.    *)
LEMMA DeliverStep ==
    ASSUME PullInv, TypeInv', NEW s \in Sessions, NEW i \in DOMAIN chat,
           Delivers(s, i), chat[i] = s,
           \A j \in Due(s) \cup Hist(s) : ~(j < i),
           \A j \in Hist(s)' : j \in DOMAIN chat /\ chat[j] = s,
           Increasing(session'[s].history_events),
           Hist(s) \subseteq Hist(s)' \cup {i},
           \A j \in Due(s)' : Covered(s, j) => Covered(s, j)',
           ScanInv(s)', MarksInv(s)'
    PROVE  PullInv'
<1>1. /\ UNCHANGED <<chat, connected, events, generation, stream_error>>
      /\ UNCHANGED <<stream_generation, since>>
      /\ pc = "sessions" /\ pc' = "idle" /\ delivered' = delivered \cup {i}
      /\ \A t \in Sessions \ {s} : session'[t] = session[t]
      /\ session'[s].in_flight = i
      /\ Range(live_events') \subseteq Range(live_events)
      /\ Range(live_events) \subseteq Range(live_events') \cup {i}
      /\ Increasing(live_events) => Increasing(live_events')
  BY DEF Delivers, SessionChanged, stream
<1>2. Windows
  BY <1>1 DEF PullInv, Running, Started
<1>3. \A t \in Sessions \ {s} :
        /\ Hist(t)' = Hist(t) /\ \A j : Covered(t, j)' = Covered(t, j)
  BY <1>1 DEF Hist, Covered
<1>4. \A t \in Sessions : Due(t)' \subseteq Due(t)
  <2> SUFFICES ASSUME NEW t \in Sessions, NEW j \in Due(t)' PROVE j \in Due(t)
    OBVIOUS
  <2>1. /\ j \in DOMAIN chat /\ chat[j] = t /\ j >= since[t]
        /\ j \notin delivered /\ j # i /\ j \notin Hist(t)'
    BY <1>1 DEF Due
  <2>2. j \notin Hist(t)
    BY <1>3, <2>1
  <2> QED
    BY <2>1, <2>2 DEF Due
<1>5. \A t \in Sessions : \A j \in Due(t)' :
        /\ Covered(t, j) => Covered(t, j)'
        /\ j \in Range(live_events) => j \in Range(live_events')
        /\ Waits(j) => Waits(j)'
  <2> SUFFICES ASSUME NEW t \in Sessions, NEW j \in Due(t)'
               PROVE  /\ Covered(t, j) => Covered(t, j)'
                      /\ j \in Range(live_events) => j \in Range(live_events')
                      /\ Waits(j) => Waits(j)'
    OBVIOUS
  <2>1. j # i
    BY <1>1 DEF Due
  <2>2. Covered(t, j) => Covered(t, j)'
    BY <1>3
  <2>3. j \in Range(live_events) => j \in Range(live_events')
    BY <1>1, <2>1
  <2>4. Waits(j) => Waits(j)'
    BY <1>1, <2>3 DEF Waits
  <2> QED
    BY <2>2, <2>3, <2>4
<1>6. InChat'
  <2>1. \A j \in Range(events') \cup Range(live_events') \cup delivered' :
          j \in DOMAIN chat'
    BY <1>1 DEF PullInv, InChat
  <2>2. \A t \in Sessions : \A j \in Hist(t)' : j \in DOMAIN chat' /\ chat'[j] = t
    BY <1>1, <1>3 DEF PullInv, InChat
  <2>3. \A t \in Sessions : session'[t].in_flight # None =>
          /\ session'[t].in_flight \in delivered'
          /\ chat'[session'[t].in_flight] = t
    BY <1>1 DEF PullInv, InChat
  <2> QED
    BY <2>1, <2>2, <2>3 DEF InChat
<1>7. QueuesOrdered'
  <2>1. \A t \in Sessions : Increasing(session'[t].history_events)
    BY <1>1 DEF PullInv, QueuesOrdered
  <2>2. \A x \in Range(live_events'), y \in Range(events') : x < y
    BY <1>1 DEF PullInv, QueuesOrdered
  <2>3. Increasing(events') /\ Increasing(live_events')
    BY <1>1 DEF PullInv, QueuesOrdered
  <2> QED
    BY <2>1, <2>2, <2>3 DEF QueuesOrdered
<1>8. Fresh'
  BY <1>1 DEF Fresh
<1>9. ASSUME NEW t \in Sessions PROVE ScanInv(t)' /\ MarksInv(t)'
  <2>1. CASE t = s
    BY <2>1
  <2>2. CASE t # s
    <3>1. /\ session'[t] = session[t] /\ Hist(t)' = Hist(t)
          /\ Due(t)' \subseteq Due(t) /\ Now' = Now
          /\ chat' = chat /\ since' = since
      BY <1>1, <1>3, <1>4, <2>2 DEF Now
    <3>2. ScanInv(t)'
      BY <1>2, <3>1 DEF Windows, ScanInv
    <3>3. MarksInv(t)'
      BY <1>2, <3>1 DEF Windows, MarksInv, MarkInv
    <3> QED
      BY <3>2, <3>3
  <2> QED
    BY <2>1, <2>2
<1>10. DeliveredInOrder'
  <2> SUFFICES ASSUME NEW k \in delivered', NEW j \in DOMAIN chat,
                      j < k, chat[j] = chat[k], j >= since[chat[k]]
               PROVE  j \in delivered'
    BY <1>1 DEF DeliveredInOrder
  <2>1. CASE k \in delivered
    BY <1>1, <1>2, <2>1 DEF Windows, DeliveredInOrder
  <2>2. CASE k = i
    <3>1. j \notin Due(s) \cup Hist(s)
      BY <2>2
    <3> QED
      BY <1>1, <2>2, <3>1 DEF Due
  <2> QED
    BY <1>1, <2>1, <2>2
<1>11. GapsReopened'
  BY <1>1, <1>2, <1>4, <1>5 DEF Windows, GapsReopened
<1>12. GapsBeforeEvents'
  <2>1. \A k : Waits(k)' => Waits(k)
    BY <1>1 DEF Waits
  <2> QED
    BY <1>1, <1>2, <1>4, <1>5, <2>1 DEF Windows, GapsBeforeEvents
<1>13. NoGapBeforeLive'
  BY <1>1, <1>2, <1>4, <1>5 DEF Windows, NoGapBeforeLive
<1> QED
  BY <1>6, <1>7, <1>8, <1>9, <1>10, <1>11, <1>12, <1>13 DEF PullInv, Windows

(* The messages of a page that was read come before all that is due.        *)
LEMMA HistoryIsNext ==
    ASSUME PullInv, NEW s \in Sessions, DeliverHistory(s)
    PROVE  LET i == Head(session[s].history_events)
           IN  /\ i \in DOMAIN chat /\ chat[i] = s
               /\ \A j \in Due(s) \cup Hist(s) : ~(j < i)
<1>1. PICK q \in Seq(Messages) : q = session[s].history_events /\ q # <<>>
  BY StateFacts DEF DeliverHistory, PullInv
<1>2. Messages \in SUBSET Nat /\ Increasing(q)
  BY <1>1, ConstantFacts DEF PullInv, QueuesOrdered
<1>3. PICK i \in Nat :
        /\ i = Head(q) /\ i \in Range(q)
        /\ Range(q) \subseteq Range(Tail(q)) \cup {i}
        /\ \A x \in Range(Tail(q)) : i < x
  <2>1. /\ Head(q) \in Messages /\ Head(q) \in Range(q)
        /\ Range(q) \subseteq Range(Tail(q)) \cup {Head(q)}
        /\ \A x \in Range(Tail(q)) : Head(q) < x
    BY <1>1, <1>2, TailKeeps
  <2>2. Head(q) \in Nat
    BY <1>2, <2>1
  <2> QED
    BY <2>1, <2>2
<1>4. i \in Hist(s)
  BY <1>1, <1>3 DEF Hist
<1>5. i \in DOMAIN chat /\ chat[i] = s
  BY <1>4 DEF PullInv, InChat
<1>6. ASSUME NEW j \in Due(s) PROVE ~(j < i)
  <2>1. i < j
    BY <1>4 DEF PullInv, Windows, MarksInv, DeliverHistory, Visiting, Running,
                Started
  <2>2. j \in Nat
    BY DueFacts DEF PullInv
  <2> QED
    BY <1>3, <2>1, <2>2
<1>7. ASSUME NEW j \in Hist(s) PROVE ~(j < i)
  <2>1. j \in Range(Tail(q)) \cup {i}
    BY <1>1, <1>3 DEF Hist
  <2>2. j \in Nat
    BY ChatFacts DEF PullInv, InChat
  <2> QED
    BY <1>3, <2>1, <2>2
<1> QED
  BY <1>1, <1>3, <1>5, <1>6, <1>7

LEMMA DeliverHistoryStep ==
    ASSUME PullInv, TypeInv', NEW s \in Sessions, DeliverHistory(s)
    PROVE  PullInv'
<1>1. PICK q \in Seq(Messages) : q = session[s].history_events /\ q # <<>>
  BY StateFacts DEF DeliverHistory, PullInv
<1>2. PICK i : i = Head(q)
  OBVIOUS
<1>3. /\ Delivers(s, i) /\ session'[s].history_events = Tail(q)
      /\ session'[s].history_scan = session[s].history_scan
      /\ session'[s].history_highwater_ms = session[s].history_highwater_ms
      /\ session'[s].confirmed_event_ms = session[s].confirmed_event_ms
  BY <1>1, <1>2, DeliverHistoryEffect DEF PullInv, Delivers
<1>4. /\ i \in DOMAIN chat /\ chat[i] = s
      /\ \A j \in Due(s) \cup Hist(s) : ~(j < i)
  BY <1>1, <1>2, HistoryIsNext
<1>5. /\ Range(Tail(q)) \subseteq Range(q)
      /\ Range(q) \subseteq Range(Tail(q)) \cup {i}
      /\ Increasing(Tail(q))
  BY <1>1, <1>2, ConstantFacts, TailKeeps DEF PullInv, QueuesOrdered
<1>6. Hist(s) = Range(q) /\ Hist(s)' = Range(Tail(q))
  BY <1>1, <1>3 DEF Hist
<1>7. /\ UNCHANGED <<chat, since>> /\ delivered' = delivered \cup {i}
      /\ pc = "sessions"
  BY <1>3 DEF Delivers, stream
<1>8. Due(s)' \subseteq Due(s)
  BY <1>5, <1>6, <1>7 DEF Due
<1>9. ScanInv(s) /\ MarksInv(s)
  BY <1>7 DEF PullInv, Windows, Running, Started
<1>10. ScanInv(s)'
  BY <1>3, <1>7, <1>8, <1>9 DEF ScanInv, Now
<1>11. MarksInv(s)'
  BY <1>3, <1>5, <1>6, <1>7, <1>8, <1>9 DEF MarksInv, MarkInv, Now
<1>12. \A j \in Due(s)' : Covered(s, j) => Covered(s, j)'
  BY <1>3 DEF Covered
<1>13. \A j \in Hist(s)' : j \in DOMAIN chat /\ chat[j] = s
  BY <1>5, <1>6 DEF PullInv, InChat
<1> QED
  BY <1>3, <1>4, <1>5, <1>6, <1>10, <1>11, <1>12, <1>13, DeliverStep

(* With no window left, nothing that is due comes before the oldest event   *)
(* of the session in the buffer.                                           *)
LEMMA LiveIsNext ==
    ASSUME PullInv, NEW s \in Sessions, pc = "sessions", LiveEvents(s) # {},
           session[s].history_events = <<>>,
           \A j \in Due(s) : ~Covered(s, j)
    PROVE  LET i == live_events[Min(LiveEvents(s))]
           IN  /\ i \in DOMAIN chat /\ chat[i] = s
               /\ \A j \in Due(s) \cup Hist(s) : ~(j < i)
<1>1. PICK n : n = Min(LiveEvents(s))
  OBVIOUS
<1>2. /\ n \in DOMAIN live_events /\ chat[live_events[n]] = s
      /\ live_events[n] \in Range(live_events)
      /\ \A j \in Range(live_events) : chat[j] = s =>
           \E m \in DOMAIN live_events : m >= n /\ live_events[m] = j
  BY <1>1, LiveFacts DEF PullInv
<1>3. PICK i \in DOMAIN chat : i = live_events[n]
  BY <1>2 DEF PullInv, InChat
<1>4. Hist(s) = {}
  BY EmptyRange DEF Hist
<1>5. ASSUME NEW j \in Due(s), j < i PROVE FALSE
  <2>1. /\ j \in Nat /\ chat[j] = s /\ i \in Nat
    BY <1>3, DueFacts, ChatFacts DEF PullInv
  <2>2. j \in Range(live_events)
    BY <1>2, <1>3, <1>5 DEF PullInv, Windows, NoGapBeforeLive, Running, Started
  <2>3. PICK m \in DOMAIN live_events : m >= n /\ live_events[m] = j
    BY <1>2, <2>1, <2>2
  <2>4. m \in Nat /\ n \in Nat
    <3>1. live_events \in Seq(Messages)
      BY DEF PullInv, TypeInv, TypeOK
    <3> QED
      BY <1>2, <3>1, LenProperties
  <2>5. m = n \/ i < j
    BY <1>2, <1>3, <2>3, <2>4 DEF PullInv, QueuesOrdered, Increasing
  <2> QED
    BY <1>3, <1>5, <2>1, <2>3, <2>5
<1> QED
  BY <1>1, <1>2, <1>3, <1>4, <1>5

LEMMA DeliverLiveStep ==
    ASSUME PullInv, TypeInv', NEW s \in Sessions, DeliverLive(s)
    PROVE  PullInv'
<1>1. PICK i : i = live_events[Min(LiveEvents(s))]
  OBVIOUS
<1>2. /\ LiveEvents(s) # {} /\ session[s].history_events = <<>>
      /\ session[s].history_scan = None /\ Delivers(s, i)
      /\ session'[s].history_events = <<>> /\ session'[s].history_scan = None
      /\ session'[s].history_highwater_ms = session[s].history_highwater_ms
      /\ session'[s].confirmed_event_ms = session[s].confirmed_event_ms
  BY <1>1, DeliverLiveEffect DEF PullInv, Delivers
<1>3. \A j \in Due(s) : ~Covered(s, j)
  BY <1>2 DEF Covered
<1>4. /\ UNCHANGED <<chat, since>> /\ delivered' = delivered \cup {i}
      /\ pc = "sessions"
  BY <1>2 DEF Delivers, stream
<1>5. /\ i \in DOMAIN chat /\ chat[i] = s
      /\ \A j \in Due(s) \cup Hist(s) : ~(j < i)
  BY <1>1, <1>2, <1>3, <1>4, LiveIsNext
<1>6. Hist(s) = {} /\ Hist(s)' = {}
  BY <1>2, EmptyRange DEF Hist
<1>7. Due(s)' \subseteq Due(s)
  BY <1>4, <1>6 DEF Due
<1>8. ScanInv(s) /\ MarksInv(s)
  BY <1>4 DEF PullInv, Windows, Running, Started
<1>9. ScanInv(s)'
  BY <1>2, <1>8 DEF ScanInv
<1>10. MarksInv(s)'
  BY <1>2, <1>4, <1>6, <1>7, <1>8 DEF MarksInv, MarkInv, Now
<1>11. Increasing(session'[s].history_events)
  BY <1>2 DEF Increasing
<1> QED
  BY <1>2, <1>3, <1>5, <1>6, <1>7, <1>9, <1>10, <1>11, DeliverStep

LEMMA MarkKept ==
    ASSUME NEW s \in Sessions, NEW m, MarkInv(s, m),
           chat' = chat, Due(s)' \subseteq Due(s)
    PROVE  MarkInv(s, m)'
BY DEF MarkInv, Now

LEMMA MarksFrom ==
    ASSUME NEW s \in Sessions, NEW c, NEW h,
           session'[s].confirmed_event_ms = c,
           session'[s].history_highwater_ms = h,
           MarkInv(s, c)', MarkInv(s, h)',
           \A j \in Due(s)', k \in Hist(s)' : k < j
    PROVE  MarksInv(s)'
BY DEF MarksInv, MarkInv

(* The first message of the window comes before all that is due.            *)
LEMMA PageIsNext ==
    ASSUME PullInv, NEW s \in Sessions, FetchPage(s)
    PROVE  LET i == Head(Remaining(s))
           IN  /\ i \in DOMAIN chat /\ chat[i] = s
               /\ \A j \in Due(s) \cup Hist(s) : ~(j < i)
<1>1. PICK i : i = Head(Remaining(s))
  OBVIOUS
<1>2. /\ Remaining(s) # <<>> /\ session[s].history_scan # None
      /\ session[s].history_events = <<>> /\ pc = "sessions"
  BY DEF FetchPage, QueriesHistory, Visiting
<1>3. PICK scan \in HistoryScan :
        scan = session[s].history_scan /\ scan.end_ms \in Nat
  BY <1>2, StateFacts, ScanFacts DEF PullInv
<1>4. ScanInv(s) /\ Hist(s) = {}
  BY <1>2, EmptyRange DEF Hist, PullInv, Windows, Running, Started
<1>5. i \in WindowOf(s) /\ \A j \in WindowOf(s) : i <= j
  BY <1>1, <1>2, PageFacts DEF PullInv
<1>6. i \in DOMAIN chat /\ chat[i] = s /\ i \in Nat /\ i <= scan.end_ms
  BY <1>3, <1>5, ChatFacts DEF PullInv, WindowOf, InWindow
<1>7. ASSUME NEW j \in Due(s) PROVE ~(j < i)
  <2>1. j \in Nat
    BY DueFacts DEF PullInv
  <2>2. CASE j <= scan.end_ms
    <3>1. j \in WindowOf(s)
      BY <1>2, <1>3, <1>4, <2>2, CoveredIsInWindow DEF PullInv, Covered
    <3> QED
      BY <1>5, <1>6, <2>1, <3>1
  <2> QED
    BY <1>3, <1>6, <2>1, <2>2
<1> QED
  BY <1>1, <1>4, <1>6, <1>7

LEMMA EmptyPageIsBehind ==
    ASSUME PullInv, NEW s \in Sessions, FetchEmptyPage(s)
    PROVE  /\ session[s].history_events = <<>>
           /\ \A j \in Due(s) : ~Covered(s, j)
<1>1. /\ WindowOf(s) = {} /\ session[s].history_events = <<>>
      /\ pc = "sessions"
  BY EmptyPageEffect DEF PullInv, FetchEmptyPage, QueriesHistory, Visiting
<1>2. ScanInv(s)
  BY <1>1 DEF PullInv, Windows, Running, Started
<1> QED
  BY <1>1, <1>2, CoveredIsInWindow DEF PullInv

(* A page that was read: what is due beyond it is younger than its last     *)
(* message, and younger than the end of the window if it was the last page. *)
LEMMA FetchPageStep ==
    ASSUME PullInv, TypeInv', NEW s \in Sessions, FetchPage(s)
    PROVE  PullInv'
<1>1. PICK i : i = Head(Remaining(s))
  OBVIOUS
<1>2. PICK scan \in HistoryScan :
        /\ scan = session[s].history_scan /\ scan # None
        /\ scan.start_ms \in Nat /\ scan.end_ms \in Nat /\ scan.page_token \in Nat
  BY FetchPageEffect, StateFacts, ScanFacts DEF PullInv
<1>3. /\ Remaining(s) # <<>> /\ session[s].history_events = <<>>
      /\ Delivers(s, i)
      /\ session'[s].history_events = Page(s)
      /\ session'[s].history_scan = Scanned(s).history_scan
      /\ session'[s].history_highwater_ms = Scanned(s).history_highwater_ms
      /\ session'[s].confirmed_event_ms = session[s].confirmed_event_ms
  BY <1>1, FetchPageEffect DEF PullInv, Delivers
<1>4. /\ UNCHANGED <<chat, since>> /\ delivered' = delivered \cup {i}
      /\ pc = "sessions"
  BY <1>3 DEF Delivers, stream
<1>5. ScanInv(s) /\ MarksInv(s)
  BY <1>4 DEF PullInv, Windows, Running, Started
<1>6. /\ Page(s) \in Seq(WindowOf(s)) /\ Increasing(Page(s)) /\ i \in WindowOf(s)
      /\ \A j \in WindowOf(s) : i <= j
  BY <1>1, <1>3, PageFacts DEF PullInv
<1>7. \A j \in WindowOf(s) : /\ j \in DOMAIN chat /\ j \in Nat /\ chat[j] = s
                             /\ scan.start_ms <= j /\ j <= scan.end_ms
  BY <1>2, ChatFacts DEF PullInv, WindowOf, InWindow
<1>8. Hist(s) = {} /\ Hist(s)' = Range(Page(s)) /\ Hist(s)' \subseteq WindowOf(s)
  <2>1. Range(Page(s)) \subseteq WindowOf(s)
    BY <1>6, SeqRange
  <2> QED
    BY <1>3, <2>1, EmptyRange DEF Hist
<1>9. Due(s)' \subseteq Due(s)
  BY <1>4, <1>8 DEF Due
<1>10. \A j \in Due(s)' : j # i /\ j \notin Range(Page(s)) /\ j \in Nat
  <2>1. \A j \in Due(s)' : j # i /\ j \notin Range(Page(s))
    BY <1>4, <1>8 DEF Due
  <2>2. \A j \in Due(s) : j \in Nat
    BY DueFacts DEF PullInv
  <2> QED
    BY <1>9, <2>1, <2>2
<1>11. \A j \in Due(s) : j \in Nat /\ (j \in WindowOf(s) \/ j > scan.end_ms)
  <2> TAKE j \in Due(s)
  <2>1. j \in Nat
    BY DueFacts DEF PullInv
  <2>2. CASE j <= scan.end_ms
    BY <1>2, <1>5, <2>1, <2>2, CoveredIsInWindow DEF PullInv, Covered
  <2> QED
    BY <1>2, <2>1, <2>2
<1>12. \A j \in Due(s) \cup Hist(s) : ~(j < i)
  BY <1>1, PageIsNext
<1>13. i \in DOMAIN chat /\ chat[i] = s /\ i \in Nat
  BY <1>6, <1>7
<1>14. PICK w : w = session'[s].history_highwater_ms
  OBVIOUS
<1>c. PICK c : c = session[s].confirmed_event_ms
  OBVIOUS
<1>h. PICK h : h = session[s].history_highwater_ms
  OBVIOUS
<1>15. /\ Now' = Now /\ Now \in Nat /\ HistoryOverlap \in Nat
       /\ Len(chat)' = Len(chat) /\ Len(chat) \in Nat /\ scan.end_ms <= Now
       /\ DOMAIN chat = 1 .. Len(chat)
  BY <1>2, <1>4, <1>5, ChatFacts, ConstantFacts DEF PullInv, Now, ScanInv
<1>16. MarkInv(s, c)' /\ MarkInv(s, h)'
  <2>1. MarkInv(s, c) /\ MarkInv(s, h)
    BY <1>5, <1>c, <1>h DEF MarksInv
  <2> QED
    BY <1>4, <1>9, <2>1, MarkKept
<1>17. CASE Len(Remaining(s)) > PageSize
  <2>1. PICK last \in WindowOf(s) :
          /\ last = Remaining(s)[PageSize]
          /\ \A j \in WindowOf(s) :
               j = i \/ j \in Range(Page(s)) \/ last < j
          /\ \A m \in Range(Page(s)) : m <= last
    BY <1>1, <1>3, <1>17, PageFacts DEF PullInv
  <2>2. /\ session'[s].history_highwater_ms = session[s].history_highwater_ms
        /\ session'[s].history_scan \in HistoryScan
        /\ session'[s].history_scan.start_ms = scan.start_ms
        /\ session'[s].history_scan.end_ms = scan.end_ms
        /\ session'[s].history_scan.page_token = last
    BY <1>2, <1>3, <1>17, <2>1, ScannedFacts DEF PullInv
  <2>3. PICK new \in HistoryScan :
          /\ new = session'[s].history_scan /\ new # None
          /\ new.start_ms = scan.start_ms /\ new.end_ms = scan.end_ms
          /\ new.page_token = last
    BY <2>2, ScanFacts
  <2>4. last \in Nat /\ last <= Len(chat) /\ last <= scan.end_ms
    BY <1>7, <1>15, <2>1
  <2>5. \A j \in Due(s)' : last < j
    BY <1>2, <1>9, <1>10, <1>11, <2>1, <2>4
  <2>6. ScanInv(s)'
    <3>1. /\ scan.start_ms <= since[s] \/ scan.start_ms <= Len(chat) + 1
          /\ \A j \in Due(s) : scan.start_ms <= j
      BY <1>2, <1>5 DEF ScanInv
    <3> QED
      BY <1>4, <1>9, <1>15, <2>3, <2>4, <2>5, <3>1 DEF ScanInv
  <2>7. MarksInv(s)'
    <3>1. ASSUME NEW j \in Due(s)', NEW k \in Hist(s)' PROVE k < j
      <4>1. k \in WindowOf(s) /\ k <= last /\ last < j
        BY <1>8, <2>1, <2>5
      <4> QED
        BY <1>7, <1>10, <2>4, <4>1
    <3>2. /\ session'[s].confirmed_event_ms = c
          /\ session'[s].history_highwater_ms = h
      BY <1>3, <1>c, <1>h, <2>2
    <3> QED
      BY <1>16, <3>1, <3>2, MarksFrom
  <2>8. \A j \in Due(s)' : Covered(s, j) => Covered(s, j)'
    BY <1>2, <2>3 DEF Covered
  <2> QED
    BY <1>3, <1>6, <1>7, <1>8, <1>12, <1>13, <2>6, <2>7, <2>8, DeliverStep
<1>18. CASE ~(Len(Remaining(s)) > PageSize)
  <2>1. \A j \in WindowOf(s) : j = i \/ j \in Range(Page(s))
    BY <1>1, <1>3, <1>18, PageFacts DEF PullInv
  <2>2. /\ session'[s].history_scan = None /\ w \in Nat
        /\ w \in {scan.end_ms, session[s].history_highwater_ms}
    BY <1>2, <1>3, <1>14, <1>18, ScannedFacts DEF PullInv
  <2>3. \A j \in Due(s)' : j > scan.end_ms
    BY <1>9, <1>10, <1>11, <2>1
  <2>4. ScanInv(s)'
    BY <1>14, <2>2, ConstantFacts DEF ScanInv
  <2>5. MarksInv(s)'
    <3>1. MarkInv(s, scan.end_ms)'
      BY <1>2, <1>10, <1>15, <2>3 DEF MarkInv
    <3>2. MarkInv(s, w)'
      BY <1>16, <1>h, <2>2, <3>1
    <3>3. ASSUME NEW j \in Due(s)', NEW k \in Hist(s)' PROVE k < j
      <4>1. k \in Nat /\ k <= scan.end_ms /\ j > scan.end_ms
        BY <1>7, <1>8, <2>3
      <4> QED
        BY <1>2, <1>10, <4>1
    <3>4. session'[s].confirmed_event_ms = c
      BY <1>3, <1>c
    <3> QED
      BY <1>14, <1>16, <3>2, <3>3, <3>4, MarksFrom
  <2>6. \A j \in Due(s)' : Covered(s, j) => Covered(s, j)'
    BY <1>2, <1>10, <2>3 DEF Covered
  <2> QED
    BY <1>3, <1>6, <1>7, <1>8, <1>12, <1>13, <2>4, <2>5, <2>6, DeliverStep
<1> QED
  BY <1>17, <1>18

(* An empty page: nothing that is due is left behind the window.            *)
LEMMA EmptyPageStep ==
    ASSUME PullInv, TypeInv', NEW s \in Sessions, FetchEmptyPage(s)
    PROVE  PullInv'
<1>1. PICK scan \in HistoryScan :
        /\ scan = session[s].history_scan /\ scan # None
        /\ scan.start_ms \in Nat /\ scan.end_ms \in Nat /\ scan.page_token \in Nat
  BY EmptyPageEffect, StateFacts, ScanFacts DEF PullInv
<1>2. /\ WindowOf(s) = {} /\ session[s].history_events = <<>>
      /\ session'[s].history_events = <<>> /\ session'[s].history_scan = None
      /\ session'[s].history_highwater_ms \in
           {scan.end_ms, session[s].history_highwater_ms}
      /\ session'[s].history_highwater_ms # None
      /\ session'[s].confirmed_event_ms = session[s].confirmed_event_ms
      /\ \A t \in Sessions \ {s} : session'[t] = session[t]
      /\ pc = "sessions"
  BY <1>1, EmptyPageEffect DEF PullInv, SessionChanged, Delivers
<1>3. ScanInv(s) /\ MarksInv(s) /\ Windows /\ Running
  BY <1>2 DEF PullInv, Windows, Running, Started
<1>4. \A j \in Due(s) : j \in Nat /\ j > scan.end_ms /\ ~Covered(s, j)
  <2> TAKE j \in Due(s)
  <2>1. j \in Nat /\ ~Covered(s, j)
    BY DueFacts, EmptyPageIsBehind DEF PullInv
  <2> QED
    BY <1>1, <2>1 DEF Covered
<1>5. Hist(s) = {} /\ Hist(s)' = {}
  BY <1>2, EmptyRange DEF Hist
<1>6. ScanInv(s)'
  BY <1>2 DEF ScanInv
<1>7. ASSUME chat' = chat, Due(s)' \subseteq Due(s) PROVE MarksInv(s)'
  <2>1. /\ Now' = Now /\ Now \in Nat /\ HistoryOverlap \in Nat
        /\ scan.end_ms <= Now
    BY <1>1, <1>3, <1>7, ChatFacts, ConstantFacts DEF PullInv, Now, ScanInv
  <2>2. MarkInv(s, scan.end_ms)'
    BY <1>1, <1>4, <1>7, <2>1 DEF MarkInv
  <2>3. PICK h : h = session[s].history_highwater_ms
    OBVIOUS
  <2>4. PICK c : c = session[s].confirmed_event_ms
    OBVIOUS
  <2>5. MarkInv(s, h) /\ MarkInv(s, c)
    BY <1>3, <2>3, <2>4 DEF MarksInv
  <2>6. MarkInv(s, h)' /\ MarkInv(s, c)'
    BY <1>7, <2>5, MarkKept
  <2>7. PICK w : w = session'[s].history_highwater_ms /\ w \in {scan.end_ms, h}
    BY <1>2, <2>3
  <2>8. MarkInv(s, w)'
    BY <2>2, <2>6, <2>7
  <2>9. session'[s].confirmed_event_ms = c
    BY <1>2, <2>4
  <2> QED
    BY <1>5, <2>6, <2>7, <2>8, <2>9, MarksFrom
<1>8. CASE /\ UNCHANGED <<stream, stream_generation, since, delivered, live_events>>
           /\ pc' = "sessions" /\ session'[s].in_flight = session[s].in_flight
  <2>1. UNCHANGED <<chat, connected, events, generation, stream_error>>
    BY <1>8 DEF stream
  <2>2. \A t \in Sessions : Hist(t)' = Hist(t) /\ Due(t)' = Due(t)
    <3>1. \A t \in Sessions : Hist(t)' = Hist(t)
      BY <1>2, <1>5 DEF Hist
    <3> QED
      BY <1>8, <2>1, <3>1 DEF Due
  <2>3. \A t \in Sessions : \A j \in Due(t) : Covered(t, j) => Covered(t, j)'
    <3> SUFFICES ASSUME NEW t \in Sessions, NEW j \in Due(t), Covered(t, j)
                 PROVE  Covered(t, j)'
      OBVIOUS
    <3>1. t # s
      BY <1>4
    <3> QED
      BY <1>2, <3>1 DEF Covered
  <2>4. \A j : Waits(j)' = Waits(j)
    BY <1>8, <2>1 DEF Waits
  <2>5. InChat'
    BY <1>2, <1>8, <2>1, <2>2 DEF PullInv, InChat
  <2>6. QueuesOrdered' /\ Fresh'
    <3>1. \A t \in Sessions :
            session'[t].history_events = session[t].history_events
      BY <1>2
    <3> QED
      BY <1>8, <2>1, <3>1 DEF PullInv, QueuesOrdered, Fresh
  <2>7. ASSUME NEW t \in Sessions PROVE ScanInv(t)' /\ MarksInv(t)'
    <3>1. CASE t = s
      BY <1>6, <1>7, <2>1, <2>2, <3>1
    <3>2. CASE t # s
      <4>1. /\ session'[t] = session[t] /\ Hist(t)' = Hist(t)
            /\ Due(t)' = Due(t) /\ Now' = Now
            /\ chat' = chat /\ since' = since
        BY <1>2, <1>8, <2>1, <2>2, <3>2 DEF Now
      <4>2. ScanInv(t)'
        BY <1>3, <4>1 DEF Windows, ScanInv
      <4>3. MarksInv(t)'
        BY <1>3, <4>1 DEF Windows, MarksInv, MarkInv
      <4> QED
        BY <4>2, <4>3
    <3> QED
      BY <3>1, <3>2
  <2>8. DeliveredInOrder'
    BY <1>3, <1>8, <2>1 DEF Windows, DeliveredInOrder
  <2>9. GapsReopened' /\ GapsBeforeEvents'
    BY <1>3, <1>8, <2>1, <2>2, <2>3, <2>4
    DEF Windows, GapsReopened, GapsBeforeEvents
  <2>10. NoGapBeforeLive'
    BY <1>2, <1>3, <1>8, <2>1, <2>2, <2>3 DEF Windows, NoGapBeforeLive
  <2> QED
    BY <2>5, <2>6, <2>7, <2>8, <2>9, <2>10 DEF PullInv, Windows
<1>9. CASE /\ LiveEvents(s) # {}
           /\ Delivers(s, live_events[Min(LiveEvents(s))])
  <2>1. PICK i : i = live_events[Min(LiveEvents(s))] /\ Delivers(s, i)
    BY <1>9
  <2>2. /\ i \in DOMAIN chat /\ chat[i] = s
        /\ \A j \in Due(s) \cup Hist(s) : ~(j < i)
    BY <1>2, <1>4, <1>9, <2>1, LiveIsNext
  <2>3. UNCHANGED <<chat, since>> /\ delivered' = delivered \cup {i}
    BY <2>1 DEF Delivers, stream
  <2>4. Due(s)' \subseteq Due(s)
    BY <1>5, <2>3 DEF Due
  <2>5. MarksInv(s)'
    BY <1>7, <2>3, <2>4
  <2>6. Increasing(session'[s].history_events)
    BY <1>2 DEF Increasing
  <2>7. \A j \in Due(s)' : Covered(s, j) => Covered(s, j)'
    BY <1>4, <2>4
  <2> QED
    BY <1>5, <1>6, <2>1, <2>2, <2>5, <2>6, <2>7, DeliverStep
<1> QED
  BY <1>8, <1>9, EmptyPageEffect DEF PullInv

-----------------------------------------------------------------------------
(* The invariant holds.                                                    *)

LEMMA PullInit == Init => PullInv
<1> SUFFICES ASSUME Init PROVE PullInv
  OBVIOUS
<1>1. TypeInv
  BY TypeInit
<1>2. /\ Range(events) = {} /\ Range(live_events) = {} /\ delivered = {}
      /\ \A s \in Sessions : Hist(s) = {} /\ session[s].in_flight = None
  BY EmptyRange DEF Init, Hist
<1>3. InChat
  BY <1>2 DEF InChat
<1>4. QueuesOrdered
  <2>1. \A s \in Sessions : session[s].history_events = <<>>
    BY DEF Init
  <2>2. events = <<>> /\ live_events = <<>> /\ Increasing(<<>>)
    BY DEF Init, Increasing
  <2> QED
    BY <1>2, <2>1, <2>2 DEF QueuesOrdered
<1>5. Fresh /\ ~Running
  BY DEF Init, Fresh, Running, Started
<1> QED
  BY <1>1, <1>3, <1>4, <1>5 DEF PullInv

LEMMA PullNext ==
    ASSUME ClockAhead <= HistoryOverlap + 1
    PROVE  PullInv /\ [Next]_vars => PullInv'
<1> SUFFICES ASSUME PullInv, [Next]_vars PROVE PullInv'
  OBVIOUS
<1>1. TypeInv' /\ session' \in [Sessions -> SessionPullState]
  BY TypeNext DEF PullInv, TypeInv, TypeOK
<1>2. CASE UNCHANGED vars
  <2>1. SameWindows
    BY <1>2 DEF SameWindows, vars, stream, puller
  <2> QED
    BY <1>1, <1>2, <2>1, QuietStep DEF vars, stream, puller, Running, Started
<1>3. CASE StartEventStream
  <2>1. SameWindows
    BY <1>3 DEF SameWindows, StartEventStream
  <2>2. InChat'
    BY <1>3, <2>1, SameInChat DEF StartEventStream
  <2>3. QueuesOrdered' /\ Fresh' /\ ~Running'
    BY <1>3 DEF StartEventStream, PullInv, QueuesOrdered, Fresh, Running
  <2> QED
    BY <1>1, <2>2, <2>3 DEF PullInv
<1>4. ASSUME NEW confirmed \in RecordedMessages, StartWindows(confirmed)
      PROVE  PullInv'
  BY <1>1, <1>4, StartStep
<1>5. CASE TakeMessage
  BY <1>1, <1>5, HandoffStep DEF TakeMessage
<1>6. CASE CheckStream
  BY <1>1, <1>6, HandoffStep DEF CheckStream
<1>7. CASE CollectLiveEvent
  BY <1>1, <1>7, CollectStep
<1>8. CASE Fail
  <2>1. SameWindows
    BY <1>8 DEF SameWindows, Fail, stream
  <2> QED
    BY <1>1, <1>8, <2>1, QuietStep DEF Fail, stream, Running, Started
<1>9. CASE TakeNothing
  <2>1. SameWindows
    BY <1>9 DEF SameWindows, TakeNothing, stream
  <2> QED
    BY <1>1, <1>9, <2>1, QuietStep DEF TakeNothing, stream, Running, Started
<1>10. ASSUME NEW s \in Sessions, DeliverHistory(s) PROVE PullInv'
  BY <1>1, <1>10, DeliverHistoryStep
<1>11. ASSUME NEW s \in Sessions, DeliverLive(s) PROVE PullInv'
  BY <1>1, <1>11, DeliverLiveStep
<1>12. ASSUME NEW s \in Sessions, FetchPage(s) PROVE PullInv'
  BY <1>1, <1>12, FetchPageStep
<1>13. ASSUME NEW s \in Sessions, FetchEmptyPage(s) PROVE PullInv'
  BY <1>1, <1>13, EmptyPageStep
<1>14. ASSUME NEW s \in Sessions, PassOver(s) PROVE PullInv'
  <2>1. SameWindows
    BY <1>14 DEF SameWindows, PassOver, VisitNext, stream
  <2> QED
    BY <1>1, <1>14, <2>1, QuietStep
    DEF PassOver, VisitNext, Visiting, stream, Running, Started
<1>15. ASSUME NEW s \in Sessions, HistoryFails(s) PROVE PullInv'
  <2>1. OnlyRetry(s)
    BY <1>15, RetryEffect DEF HistoryFails, PullInv
  <2>2. SameWindows
    BY <1>15, <2>1
    DEF SameWindows, OnlyRetry, SessionChanged, HistoryFails, VisitNext, stream
  <2> QED
    BY <1>1, <1>15, <2>2, QuietStep
    DEF HistoryFails, VisitNext, QueriesHistory, Visiting, stream, Running, Started
<1>16. ASSUME NEW s \in Sessions, RetryDelayPasses(s) PROVE PullInv'
  <2>1. OnlyRetry(s)
    BY <1>16, RetryEffect DEF RetryDelayPasses, PullInv
  <2>2. SameWindows
    BY <1>16, <2>1
    DEF SameWindows, OnlyRetry, SessionChanged, RetryDelayPasses, stream
  <2> QED
    BY <1>1, <1>16, <2>2, QuietStep DEF RetryDelayPasses, stream, Running, Started
<1>17. ASSUME NEW s \in Sessions, Acknowledge(s) PROVE PullInv'
  BY <1>1, <1>17, AcknowledgeStep
<1>18. ASSUME NEW s \in Sessions, Post(s) PROVE PullInv'
  BY <1>1, <1>18, PostStep
<1>19. CASE Disconnect \/ StreamFails
  <2>1. SameWindows
    BY <1>19 DEF SameWindows, Disconnect, StreamFails, puller
  <2> QED
    BY <1>1, <1>19, <2>1, QuietStep
    DEF Disconnect, StreamFails, puller, Running, Started
<1>20. CASE OnReconnected
  BY <1>1, <1>20, ReconnectStep
<1> QED
  BY <1>2, <1>3, <1>4, <1>5, <1>6, <1>7, <1>8, <1>9, <1>10, <1>11, <1>12,
     <1>13, <1>14, <1>15, <1>16, <1>17, <1>18, <1>19, <1>20
  DEF Next, Pull, Provider, RaiseStreamError, HistoryFailsPermanently

LEMMA PullInvariant ==
    ASSUME ClockAhead <= HistoryOverlap + 1
    PROVE  Spec => []PullInv
BY PullInit, PullNext, PTL DEF Spec

(* history_overlap_ms covers what the worker's clock is ahead of the        *)
(* provider's: then no message of a session is lost, whatever the order in  *)
(* which pages are read, events pushed, connections lost and windows opened *)
(* again.                                                                  *)
THEOREM PullerLosesNothing ==
    ASSUME ClockAhead <= HistoryOverlap + 1
    PROVE  Spec => []NothingLost
BY PullInvariant, InvNothingLost, PTL

-----------------------------------------------------------------------------
(* The acknowledged stream.                                                *)

LEMMA StreamInit == Init => Stream!Init
BY DEF Init, Stream!Init

LEMMA StreamDelivers ==
    ASSUME PullInv, TypeInv', NEW s \in Sessions, NEW i \in DOMAIN chat,
           Delivers(s, i), chat[i] = s,
           \A j \in Due(s) \cup Hist(s) : ~(j < i)
    PROVE  Stream!Next
<1>1. /\ UNCHANGED <<chat, since>> /\ delivered' = delivered \cup {i}
      /\ session[s].in_flight = None /\ session'[s].in_flight = i
      /\ \A t \in Sessions \ {s} : session'[t] = session[t]
  BY DEF Delivers, SessionChanged, stream
<1>2. Stream!Older(i) \subseteq delivered
  <2> SUFFICES ASSUME NEW j \in 1 .. i - 1, chat[j] = s, j >= since[s]
               PROVE  j \in delivered
    BY DEF Stream!Older
  <2>1. i \in 1 .. Len(chat) /\ Len(chat) \in Nat /\ DOMAIN chat = 1 .. Len(chat)
    BY ChatFacts DEF PullInv
  <2>2. j \in DOMAIN chat /\ j < i
    BY <2>1
  <2>3. j \notin Due(s) \cup Hist(s)
    BY <2>2
  <2> QED
    BY <2>2, <2>3 DEF Due
<1>3. [t \in Sessions |-> session'[t].in_flight]
        = [[t \in Sessions |-> session[t].in_flight] EXCEPT ![s] = i]
  BY <1>1
<1>4. Stream!Deliver(i)
  BY <1>1, <1>2, <1>3 DEF Stream!Deliver
<1> QED
  BY <1>4 DEF Stream!Next

LEMMA StreamStep ==
    ASSUME ClockAhead <= HistoryLookback
    PROVE  PullInv /\ TypeInv' /\ [Next]_vars
             => [Stream!Next]_<<chat, since, delivered,
                                [s \in Sessions |-> session[s].in_flight]>>
<1> DEFINE flight == [s \in Sessions |-> session[s].in_flight]
<1> SUFFICES ASSUME PullInv, TypeInv', [Next]_vars
             PROVE  Stream!Next \/ UNCHANGED <<chat, since, delivered, flight>>
  OBVIOUS
<1>t. TypeInv
  BY DEF PullInv
<1>1. ASSUME UNCHANGED <<chat, since, delivered>>,
             \A s \in Sessions : session'[s].in_flight = session[s].in_flight
      PROVE  UNCHANGED <<chat, since, delivered, flight>>
  BY <1>1
<1> HIDE DEF flight
<1>2. CASE \/ UNCHANGED vars \/ StartEventStream \/ CollectLiveEvent \/ Fail
           \/ TakeNothing \/ Disconnect \/ StreamFails \/ OnReconnected
           \/ \E s \in Sessions : PassOver(s)
  <2>1. UNCHANGED <<chat, since, delivered, session>>
    BY <1>2 DEF vars, stream, puller, StartEventStream, CollectLiveEvent, Fail,
                TakeNothing, Disconnect, StreamFails, OnReconnected, PassOver,
                VisitNext
  <2> QED
    BY <1>1, <2>1
<1>3. ASSUME NEW confirmed \in RecordedMessages, StartWindows(confirmed)
      PROVE  Stream!Next
  <2>1. UNCHANGED <<chat, delivered>> /\ delivered = {}
    BY <1>3 DEF StartWindows, stream, PullInv, Fresh
  <2>2. /\ \A s \in Sessions : session'[s].in_flight = session[s].in_flight
        /\ since' \in [Sessions -> Nat]
        /\ \A s \in Sessions :
             /\ confirmed[s] \in DOMAIN chat \cup {None}
             /\ since'[s] = NewHistoryScan(confirmed[s]).start_ms
    BY <1>3, <1>t, StartEffect
  <2>3. ASSUME NEW s \in Sessions PROVE since'[s] \in 0 .. Len(chat)
    <3>1. PICK c \in Nat \cup {None} :
            c = confirmed[s] /\ (c # None => c <= Len(chat))
      <4>1. Len(chat) \in Nat /\ DOMAIN chat = 1 .. Len(chat)
        BY <1>t, ChatFacts
      <4>2. confirmed[s] \in 1 .. Len(chat) \/ confirmed[s] = None
        BY <2>2, <4>1
      <4>3. PICK c : c = confirmed[s]
        OBVIOUS
      <4>4. c \in Nat \cup {None} /\ (c # None => c <= Len(chat))
        <5>1. CASE c = None
          BY <5>1
        <5>2. CASE c \in 1 .. Len(chat)
          BY <4>1, <5>2
        <5> QED
          BY <4>2, <4>3, <5>1, <5>2
      <4> QED
        BY <4>3, <4>4
    <3>2. PICK x \in Nat :
            /\ x = NewHistoryScan(c).start_ms
            /\ c # None => x = 0 \/ x + HistoryOverlap <= c
            /\ c = None => x = 0 \/ x = Now - HistoryLookback
      BY <1>t, NewScanFacts, ScanFacts
    <3>3. /\ Now = Len(chat) + ClockAhead /\ Len(chat) \in Nat
          /\ ClockAhead \in Nat /\ HistoryLookback \in Nat /\ HistoryOverlap \in Nat
      BY <1>t, ChatFacts, ConstantFacts
    <3>4. x <= Len(chat)
      BY <3>1, <3>2, <3>3
    <3> QED
      BY <2>2, <3>1, <3>2, <3>3, <3>4
  <2>4. since' \in [Sessions -> 0 .. Len(chat)]
    BY <2>2, <2>3
  <2>5. UNCHANGED flight
    BY <2>2 DEF flight
  <2> QED
    BY <2>1, <2>4, <2>5 DEF flight, Stream!Next, Stream!Start
<1>4. CASE TakeMessage \/ CheckStream
  <2>1. Handoff /\ UNCHANGED <<chat, since, delivered>>
    BY <1>4 DEF TakeMessage, CheckStream, stream
  <2>2. \A s \in Sessions : session'[s].in_flight = session[s].in_flight
    BY <1>t, <2>1, HandoffEffect
  <2> QED
    BY <1>1, <2>1, <2>2
<1>5. ASSUME NEW s \in Sessions, HistoryFails(s) \/ RetryDelayPasses(s)
      PROVE  UNCHANGED <<chat, since, delivered, flight>>
  <2>1. OnlyRetry(s)
    BY <1>5, <1>t, RetryEffect DEF HistoryFails, RetryDelayPasses
  <2> QED
    BY <1>1, <1>5, <2>1 DEF OnlyRetry, SessionChanged, HistoryFails, VisitNext,
                            RetryDelayPasses, stream
<1>6. ASSUME NEW s \in Sessions, DeliverHistory(s) PROVE Stream!Next
  <2>1. PICK i : i = Head(session[s].history_events)
    OBVIOUS
  <2>2. Delivers(s, i)
    BY <1>6, <1>t, <2>1, DeliverHistoryEffect
  <2>3. /\ i \in DOMAIN chat /\ chat[i] = s
        /\ \A j \in Due(s) \cup Hist(s) : ~(j < i)
    BY <1>6, <2>1, HistoryIsNext
  <2> QED
    BY <2>2, <2>3, StreamDelivers
<1>7. ASSUME NEW s \in Sessions, DeliverLive(s) PROVE Stream!Next
  <2>1. PICK i : i = live_events[Min(LiveEvents(s))]
    OBVIOUS
  <2>2. /\ Delivers(s, i) /\ LiveEvents(s) # {}
        /\ session[s].history_events = <<>> /\ session[s].history_scan = None
    BY <1>7, <1>t, <2>1, DeliverLiveEffect
  <2>3. /\ i \in DOMAIN chat /\ chat[i] = s
        /\ \A j \in Due(s) \cup Hist(s) : ~(j < i)
    BY <2>1, <2>2, LiveIsNext DEF Covered, Delivers
  <2> QED
    BY <2>2, <2>3, StreamDelivers
<1>8. ASSUME NEW s \in Sessions, FetchPage(s) PROVE Stream!Next
  <2>1. PICK i : i = Head(Remaining(s))
    OBVIOUS
  <2>2. Delivers(s, i)
    BY <1>8, <1>t, <2>1, FetchPageEffect
  <2>3. /\ i \in DOMAIN chat /\ chat[i] = s
        /\ \A j \in Due(s) \cup Hist(s) : ~(j < i)
    BY <1>8, <2>1, PageIsNext
  <2> QED
    BY <2>2, <2>3, StreamDelivers
<1>9. ASSUME NEW s \in Sessions, FetchEmptyPage(s)
      PROVE  Stream!Next \/ UNCHANGED <<chat, since, delivered, flight>>
  <2>1. CASE /\ LiveEvents(s) # {}
             /\ Delivers(s, live_events[Min(LiveEvents(s))])
    <3>1. PICK i : i = live_events[Min(LiveEvents(s))] /\ Delivers(s, i)
      BY <2>1
    <3>2. session[s].history_events = <<>> /\ \A j \in Due(s) : ~Covered(s, j)
      BY <1>9, <3>1, EmptyPageIsBehind
    <3>3. /\ i \in DOMAIN chat /\ chat[i] = s
          /\ \A j \in Due(s) \cup Hist(s) : ~(j < i)
      BY <2>1, <3>1, <3>2, LiveIsNext DEF Delivers
    <3> QED
      BY <3>1, <3>3, StreamDelivers
  <2>2. CASE /\ UNCHANGED <<stream, since, delivered>> /\ SessionChanged(s)
             /\ session'[s].in_flight = session[s].in_flight
    BY <1>1, <2>2 DEF SessionChanged, stream
  <2> QED
    BY <1>9, <1>t, <2>1, <2>2, EmptyPageEffect
<1>10. ASSUME NEW s \in Sessions, Acknowledge(s) PROVE Stream!Next
  <2>1. /\ UNCHANGED <<chat, since, delivered>>
        /\ session[s].in_flight # None /\ session'[s].in_flight = None
        /\ \A t \in Sessions \ {s} : session'[t] = session[t]
    BY <1>10, <1>t, AcknowledgeEffect DEF SessionChanged, stream
  <2>2. [t \in Sessions |-> session'[t].in_flight]
          = [[t \in Sessions |-> session[t].in_flight] EXCEPT ![s] = None]
    <3>1. \A t \in Sessions : session'[t].in_flight =
            IF t = s THEN None ELSE session[t].in_flight
      BY <2>1
    <3> QED
      BY <3>1
  <2>3. Stream!Acknowledge(s)
    BY <2>1, <2>2 DEF Stream!Acknowledge
  <2> QED
    BY <2>3 DEF Stream!Next
<1>11. ASSUME NEW s \in Sessions, Post(s) PROVE Stream!Next
  <2>1. /\ chat' = Append(chat, s)
        /\ UNCHANGED <<since, delivered, session>>
    BY <1>11 DEF Post, puller
  <2> QED
    BY <2>1 DEF Stream!Next, Stream!Post
<1> QED
  BY <1>2, <1>3, <1>4, <1>5, <1>6, <1>7, <1>8, <1>9, <1>10, <1>11
  DEF Next, Pull, Provider, RaiseStreamError, HistoryFailsPermanently

(* What the processor relies on (AckedStream): per session at most one       *)
(* message is unacknowledged, and none comes before an older one has come.  *)
(* history_lookback_ms covers the clock's lead, too, or the first window    *)
(* of a session without records would begin in the provider's future.       *)
THEOREM PullerIsAckedStream ==
    ASSUME ClockAhead <= HistoryOverlap + 1, ClockAhead <= HistoryLookback
    PROVE  Spec => ImplementsAckedStream
<1>1. Spec => []PullInv
  BY PullInvariant
<1>2. Spec => []TypeInv
  BY Typed
<1>3. Init => Stream!Init
  BY StreamInit
<1>4. PullInv /\ TypeInv' /\ [Next]_vars
        => [Stream!Next]_<<chat, since, delivered,
                           [s \in Sessions |-> session[s].in_flight]>>
  BY StreamStep
<1> QED
  BY <1>1, <1>2, <1>3, <1>4, PTL
  DEF Spec, ImplementsAckedStream, Stream!Spec

=============================================================================
