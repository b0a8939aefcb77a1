--------------------------- MODULE ImPublishProofs ---------------------------
(***************************************************************************)
(* Theorems about ImPublish, for any number of attempts, size of a page and *)
(* messages of other clients: one publish with its reconciliations, retries *)
(* and the degraded form is an atomic publish.                             *)
(***************************************************************************)
EXTENDS ImPublish, SequenceTheorems, TLAPS

-----------------------------------------------------------------------------
(* The inductive invariant.                                                *)

(* An attempt that is waited for is not the last one; a call is reconciled  *)
(* only if it may have been committed.                                     *)
CallInv ==
    /\ pc = "wait" => attempt < MaxAttempts
    /\ pc \in {"reconcile", "fetch"} =>
         status_code \in Codes \ GuaranteedNotCommitted

(* Where a committed copy may be, when no call commits after it was given   *)
(* up: nowhere before an attempt, above the first watermark after it, and   *)
(* during the scan between what is still to be scanned and the second one.  *)
CopyInv ==
    /\ late = {}
    /\ \A i, j \in Copies : i = j
    /\ pc \in {"status", "publish", "wait"} => Copies = {}
    /\ pc \in {"publish", "reconcile"} => pre_publish_max_seq <= Len(log)
    /\ pc \in {"reconcile", "fetch"} => \A i \in Copies : log[i] = payload
    /\ pc = "reconcile" => \A i \in Copies : pre_publish_max_seq < i
    /\ pc = "fetch" => /\ reconcile_max_seq <= Len(log)
                       /\ \A i \in Copies :
                            from_seq <= i /\ i <= reconcile_max_seq

IInv == /\ TypeOK /\ CallInv /\ PublishedIsCommitted
        /\ ~late_commits => CopyInv

-----------------------------------------------------------------------------
(* What a longer log holds.                                                *)
LEMMA Longer ==
    ASSUME TypeOK, NEW e \in Forms \cup {"other"}, log' = Append(log, e)
    PROVE  /\ log' \in Seq(Forms \cup {"other"}) /\ Len(log') = Len(log) + 1
           /\ Len(log) \in Nat
           /\ DOMAIN log' = DOMAIN log \cup {Len(log) + 1}
           /\ \A i \in DOMAIN log : i \in 1 .. Len(log) /\ log'[i] = log[i]
           /\ log'[Len(log) + 1] = e
<1>1. log \in Seq(Forms \cup {"other"})
  BY DEF TypeOK
<1> QED
  BY <1>1, AppendProperties, LenProperties

LEMMA CopiesKept == UNCHANGED log => Copies' = Copies
BY DEF Copies

LEMMA CopiesLonger ==
    ASSUME TypeOK, NEW e \in Forms \cup {"other"}, log' = Append(log, e)
    PROVE  /\ e = "other" => Copies' = Copies
           /\ e # "other" => Copies' = Copies \cup {Len(log) + 1}
BY Longer DEF Copies, Forms

LEMMA CopyPositions ==
    ASSUME TypeOK, NEW i \in Copies
    PROVE  i \in Nat /\ 1 <= i /\ i <= Len(log) /\ Len(log) \in Nat
BY LenProperties DEF TypeOK, Copies

LEMMA InitIInv == Init => IInv
<1> SUFFICES ASSUME Init PROVE IInv
  OBVIOUS
<1>1. too_large \subseteq Forms /\ late_commits \in BOOLEAN
      /\ stop_requested \in BOOLEAN
  BY Zenon DEF Init, Forms
<1>2. log = <<>> /\ log \in Seq(Forms \cup {"other"}) /\ Len(log) = 0
  BY DEF Init
<1>3. TypeOK
  BY <1>1, <1>2, ImPublishAssumption DEF Init, TypeOK, Forms
<1>4. Copies = {}
  BY <1>2 DEF Copies
<1> QED
  BY <1>3, <1>4
  DEF Init, IInv, CallInv, PublishedIsCommitted, CopyInv

-----------------------------------------------------------------------------
(* What becomes of a failure, whatever call it comes from.                 *)
LEMMA FailedType ==
    ASSUME TypeOK, CallInv, PublishedIsCommitted, pc # "done",
           NEW code \in Codes, NEW retry_safe \in BOOLEAN,
           Failed(code, retry_safe),
           UNCHANGED <<log, late, kind, pre_publish_max_seq, reconcile_max_seq,
                       from_seq, status_code, seq, stop_requested, deployment>>
    PROVE  TypeOK' /\ CallInv' /\ PublishedIsCommitted'
<1>1. \/ payload' = "degraded" /\ attempt' = 1 /\ pc' = "status"
         /\ outcome' = outcome
      \/ pc' = "wait" /\ attempt < MaxAttempts
         /\ UNCHANGED <<payload, attempt, outcome>>
      \/ outcome' = "failed" /\ pc' = "done" /\ UNCHANGED <<payload, attempt>>
  BY Zenon DEF Failed, Retries
<1>2. outcome = "pending"
  BY DEF TypeOK
<1>3. late_commits' \in BOOLEAN /\ stop_requested' \in BOOLEAN
  BY Zenon DEF TypeOK, deployment
<1>4. TypeOK'
  BY <1>1, <1>2, <1>3, ImPublishAssumption DEF TypeOK, deployment, Forms
<1>5. CallInv'
  BY <1>1 DEF CallInv
<1>6. PublishedIsCommitted'
  BY <1>1, <1>2 DEF PublishedIsCommitted
<1> QED
  BY <1>4, <1>5, <1>6

(* If no copy is committed, it may be tried again; otherwise the caller is  *)
(* told of the failure.                                                    *)
LEMMA FailedCopies ==
    ASSUME TypeOK, CopyInv, pc # "done",
           NEW code \in Codes, NEW retry_safe \in BOOLEAN,
           Failed(code, retry_safe),
           \/ Copies = {}
           \/ code \notin GuaranteedNotCommitted /\ ~retry_safe,
           UNCHANGED <<log, late>>
    PROVE  CopyInv'
<1>1. Copies' = Copies
  BY CopiesKept
<1>2. \/ pc' \in {"status", "wait"} /\ Copies = {}
      \/ pc' = "done"
  BY DEF Failed, Retries, Degrades, GuaranteedNotCommitted
<1> QED
  BY <1>1, <1>2 DEF CopyInv

-----------------------------------------------------------------------------
(* Every step keeps the types and the answer.                              *)
LEMMA TypeStep ==
    ASSUME TypeOK, CallInv, PublishedIsCommitted, [Next]_vars
    PROVE  TypeOK' /\ CallInv' /\ PublishedIsCommitted'
<1> USE ImPublishAssumption
<1> DEFINE Goal == TypeOK' /\ CallInv' /\ PublishedIsCommitted'
<1>0. Len(log) \in Nat
  BY LenProperties DEF TypeOK
<1>1. CASE UNCHANGED vars
  BY <1>1 DEF vars, caller, deployment, TypeOK, CallInv, PublishedIsCommitted
<1>2. CASE GetStatus /\ UNCHANGED deployment
  BY <1>0, <1>2
  DEF GetStatus, caller, deployment, TypeOK, CallInv, PublishedIsCommitted
<1>3. ASSUME NEW code \in Codes, StatusFails(code), UNCHANGED deployment
      PROVE  Goal
  BY <1>3, FailedType DEF StatusFails
<1>4. CASE PublishAnswered /\ UNCHANGED deployment
  <2>1. payload \in Forms \cup {"other"} /\ log' = Append(log, payload)
    BY <1>4 DEF PublishAnswered, TypeOK
  <2>2. TypeOK'
    BY <1>4, <2>1, Longer DEF PublishAnswered, Published, TypeOK, deployment
  <2>3. CallInv' /\ PublishedIsCommitted'
    BY <1>4, <2>1, Longer
    DEF PublishAnswered, Published, CallInv, PublishedIsCommitted
  <2> QED
    BY <2>2, <2>3
<1>5. ASSUME NEW code \in Codes, PublishRefused(code), UNCHANGED deployment
      PROVE  Goal
  BY <1>5, FailedType DEF PublishRefused
<1>6. ASSUME NEW code \in Codes, PublishUncertain(code), UNCHANGED deployment
      PROVE  Goal
  <2>1. \/ log' = log
        \/ log' = Append(log, payload) /\ payload \in Forms \cup {"other"}
    BY <1>6 DEF PublishUncertain, TypeOK
  <2>2. log' \in Seq(Forms \cup {"other"}) /\ Len(log') \in Nat
        /\ Len(log) <= Len(log')
    BY <1>0, <2>1, Longer DEF TypeOK
  <2>3. late' \subseteq (1 .. MaxAttempts) \X Forms
    BY <1>6 DEF PublishUncertain, TypeOK
  <2>4. seq \in 0 .. Len(log')
    BY <1>0, <2>2 DEF TypeOK
  <2>5. TypeOK'
    BY <1>6, <2>2, <2>3, <2>4
    DEF PublishUncertain, TypeOK, caller, deployment
  <2>6. CallInv' /\ PublishedIsCommitted'
    BY <1>6
    DEF PublishUncertain, CallInv, PublishedIsCommitted, caller, TypeOK
  <2> QED
    BY <2>5, <2>6
<1>7. CASE Reconcile /\ UNCHANGED deployment
  BY <1>0, <1>7
  DEF Reconcile, caller, deployment, TypeOK, CallInv, PublishedIsCommitted
<1>8. CASE FetchMatch /\ UNCHANGED deployment
  <2>1. PICK i \in Matches : Published(i)
    BY <1>8 DEF FetchMatch
  <2>2. i \in DOMAIN log /\ log[i] = payload /\ i \in 0 .. Len(log)
    BY <1>0, LenProperties DEF Matches, Page, TypeOK
  <2> QED
    BY <1>8, <2>1, <2>2
    DEF FetchMatch, Published, deployment, TypeOK, CallInv, PublishedIsCommitted
<1>9. CASE FetchNext /\ UNCHANGED deployment
  BY <1>9
  DEF FetchNext, caller, deployment, TypeOK, CallInv, PublishedIsCommitted
<1>10. CASE ProvedNotCommitted /\ UNCHANGED deployment
  <2>1. status_code \in Codes
    BY <1>10 DEF ProvedNotCommitted, CallInv
  <2>2. Failed(status_code, TRUE) /\ pc # "done"
    BY <1>10 DEF ProvedNotCommitted
  <2> QED
    BY <1>10, <2>1, <2>2, FailedType DEF ProvedNotCommitted
<1>11. CASE OutcomeUnknown /\ UNCHANGED deployment
  <2>1. status_code \in Codes /\ pc # "done"
    BY <1>11 DEF OutcomeUnknown, CallInv
  <2> QED
    BY <1>11, <2>1, FailedType DEF OutcomeUnknown
<1>12. CASE WaitEnds /\ UNCHANGED deployment
  <2>1. attempt' \in 1 .. MaxAttempts /\ outcome = "pending"
    BY <1>12 DEF WaitEnds, TypeOK, CallInv
  <2>2. \/ outcome' = "stopped" /\ pc' = "done"
        \/ outcome' = "pending" /\ pc' = "status"
    BY <1>12, <2>1 DEF WaitEnds
  <2>3. UNCHANGED <<log, late, kind, payload, pre_publish_max_seq,
                    reconcile_max_seq, from_seq, status_code, seq,
                    stop_requested, too_large, late_commits>>
    BY <1>12 DEF WaitEnds, deployment
  <2> QED
    BY <2>1, <2>2, <2>3 DEF TypeOK, CallInv, PublishedIsCommitted
<1>13. CASE OtherPublishes /\ UNCHANGED deployment
  <2>1. log' = Append(log, "other") /\ "other" \in Forms \cup {"other"}
    BY <1>13 DEF OtherPublishes
  <2>2. seq \in 0 .. Len(log')
    BY <1>0, <2>1, Longer DEF TypeOK
  <2> QED
    BY <1>13, <2>1, <2>2, Longer
    DEF OtherPublishes, caller, deployment, TypeOK, CallInv,
        PublishedIsCommitted
<1>14. CASE LateCommit /\ UNCHANGED deployment
  <2>1. PICK call \in late : /\ late' = late \ {call}
                             /\ log' = Append(log, call[2])
    BY <1>14 DEF LateCommit
  <2>2. call[2] \in Forms \cup {"other"}
    BY DEF TypeOK
  <2>3. seq \in 0 .. Len(log') /\ log' \in Seq(Forms \cup {"other"})
    BY <1>0, <2>1, <2>2, Longer DEF TypeOK
  <2>4. late' \subseteq (1 .. MaxAttempts) \X Forms
    BY <2>1 DEF TypeOK
  <2>5. outcome = "published" => seq \in DOMAIN log' /\ log'[seq] = payload
    BY <2>1, <2>2, Longer DEF PublishedIsCommitted
  <2>6. TypeOK'
    BY <1>14, <2>3, <2>4 DEF LateCommit, TypeOK, caller, deployment
  <2> QED
    BY <1>14, <2>5, <2>6
    DEF LateCommit, caller, CallInv, PublishedIsCommitted
<1>15. CASE RequestStop /\ UNCHANGED deployment
  BY <1>15
  DEF RequestStop, deployment, TypeOK, CallInv, PublishedIsCommitted
<1> QED
  BY <1>1, <1>2, <1>3, <1>4, <1>5, <1>6, <1>7, <1>8, <1>9, <1>10, <1>11,
     <1>12, <1>13, <1>14, <1>15 DEF Next, Worker

-----------------------------------------------------------------------------
(* Every step keeps the copies where they are looked for.                  *)
LEMMA CopyStep ==
    ASSUME TypeOK, CallInv, CopyInv, ~late_commits, [Next]_vars
    PROVE  ~late_commits' /\ CopyInv'
<1> USE ImPublishAssumption
<1>0. Len(log) \in Nat
  BY LenProperties DEF TypeOK
<1> SUFFICES CopyInv'
  BY DEF Next, vars, deployment
<1>1. CASE UNCHANGED vars
  BY <1>1, CopiesKept DEF vars, caller, deployment, CopyInv
<1>2. CASE GetStatus
  BY <1>0, <1>2, CopiesKept DEF GetStatus, CopyInv
<1>3. ASSUME NEW code \in Codes, StatusFails(code)
      PROVE  CopyInv'
  <2>1. Copies = {} /\ pc # "done"
    BY <1>3 DEF StatusFails, CopyInv
  <2> QED
    BY <1>3, <2>1, FailedCopies DEF StatusFails
<1>4. CASE PublishAnswered
  <2>1. Copies = {} /\ late' = {} /\ pc' = "done"
    BY <1>4 DEF PublishAnswered, Published, CopyInv
  <2>2. payload \in Forms \cup {"other"} /\ payload # "other"
        /\ log' = Append(log, payload)
    BY <1>4 DEF PublishAnswered, TypeOK, Forms
  <2>3. Copies' = {Len(log) + 1}
    BY <2>1, <2>2, CopiesLonger
  <2> QED
    BY <2>1, <2>3 DEF CopyInv
<1>5. ASSUME NEW code \in Codes, PublishRefused(code)
      PROVE  CopyInv'
  <2>1. Copies = {} /\ pc # "done"
    BY <1>5 DEF PublishRefused, CopyInv
  <2> QED
    BY <1>5, <2>1, FailedCopies DEF PublishRefused
<1>6. ASSUME NEW code \in Codes, PublishUncertain(code)
      PROVE  CopyInv'
  <2>1. /\ Copies = {} /\ late' = {} /\ pc' = "reconcile"
        /\ payload' = payload /\ pre_publish_max_seq' = pre_publish_max_seq
        /\ pre_publish_max_seq <= Len(log) /\ pre_publish_max_seq \in Nat
    BY <1>6 DEF PublishUncertain, CopyInv, TypeOK
  <2>2. CASE log' = log
    <3>1. Copies' = {} /\ Len(log') = Len(log)
      BY <2>1, <2>2, CopiesKept
    <3> QED
      BY <2>1, <3>1 DEF CopyInv
  <2>3. CASE log' = Append(log, payload)
    <3>1. payload \in Forms \cup {"other"} /\ payload # "other"
      BY DEF TypeOK, Forms
    <3>2. /\ Copies' = {Len(log) + 1} /\ Len(log') = Len(log) + 1
          /\ log'[Len(log) + 1] = payload
      BY <2>1, <2>3, <3>1, CopiesLonger, Longer
    <3> QED
      BY <1>0, <2>1, <3>2 DEF CopyInv
  <2> QED
    BY <1>6, <2>2, <2>3 DEF PublishUncertain
<1>7. CASE Reconcile
  <2>1. \A i \in Copies : i \in Nat /\ i <= Len(log)
    BY CopyPositions
  <2> QED
    BY <1>0, <1>7, <2>1, CopiesKept DEF Reconcile, caller, CopyInv, TypeOK
<1>8. CASE FetchMatch
  BY <1>8, CopiesKept DEF FetchMatch, Published, CopyInv
<1>9. CASE FetchNext
  <2>1. ASSUME NEW i \in Copies
        PROVE  from_seq + PageLimit <= i /\ i <= reconcile_max_seq
    <3>1. /\ i \in Nat /\ i \in DOMAIN log /\ log[i] = payload
          /\ from_seq <= i /\ i <= reconcile_max_seq
      BY <1>9, CopyPositions DEF FetchNext, CopyInv, Copies
    <3>2. i \notin Page
      BY <1>9, <3>1 DEF FetchNext, Matches
    <3> QED
      BY <3>1, <3>2 DEF Page, TypeOK
  <2> QED
    BY <1>9, <2>1, CopiesKept DEF FetchNext, caller, CopyInv
<1>10. CASE ProvedNotCommitted
  <2>1. ASSUME NEW i \in Copies PROVE FALSE
    BY <1>10, CopyPositions DEF ProvedNotCommitted, CopyInv, TypeOK
  <2>2. Copies = {} /\ pc # "done" /\ status_code \in Codes
    BY <1>10, <2>1 DEF ProvedNotCommitted, CallInv
  <2> QED
    BY <1>10, <2>2, FailedCopies DEF ProvedNotCommitted
<1>11. CASE OutcomeUnknown
  <2>1. pc # "done" /\ status_code \in Codes \ GuaranteedNotCommitted
    BY <1>11 DEF OutcomeUnknown, CallInv
  <2> QED
    BY <1>11, <2>1, FailedCopies DEF OutcomeUnknown
<1>12. CASE WaitEnds
  BY <1>12, CopiesKept DEF WaitEnds, CopyInv
<1>13. CASE OtherPublishes
  <2>1. log' = Append(log, "other") /\ "other" \in Forms \cup {"other"}
    BY <1>13 DEF OtherPublishes
  <2>2. /\ Copies' = Copies /\ Len(log') = Len(log) + 1
        /\ \A i \in Copies : log'[i] = log[i]
    BY <2>1, CopiesLonger, Longer DEF Copies
  <2>3. UNCHANGED <<late, payload, pc, pre_publish_max_seq,
                    reconcile_max_seq, from_seq>>
    BY <1>13 DEF OtherPublishes
  <2>4. pre_publish_max_seq \in Nat /\ reconcile_max_seq \in Nat
    BY DEF TypeOK
  <2> QED
    BY <1>0, <2>2, <2>3, <2>4 DEF CopyInv
<1>14. CASE LateCommit
  BY <1>14 DEF LateCommit, CopyInv
<1>15. CASE RequestStop
  BY <1>15, CopiesKept DEF RequestStop, CopyInv
<1> QED
  BY <1>1, <1>2, <1>3, <1>4, <1>5, <1>6, <1>7, <1>8, <1>9, <1>10,
     <1>11, <1>12, <1>13, <1>14, <1>15 DEF Next, Worker

LEMMA Invariance == Spec => []IInv
<1>1. Init => IInv
  BY InitIInv
<1>2. IInv /\ [Next]_vars => IInv'
  <2> SUFFICES ASSUME IInv, [Next]_vars PROVE IInv'
    OBVIOUS
  <2>1. TypeOK' /\ CallInv' /\ PublishedIsCommitted'
    BY TypeStep DEF IInv
  <2>2. late_commits' = late_commits
    BY DEF Next, vars, deployment
  <2>3. ~late_commits => CopyInv'
    BY CopyStep DEF IInv
  <2> QED
    BY <2>1, <2>2, <2>3 DEF IInv
<1> QED
  BY <1>1, <1>2, PTL DEF Spec

(* The client, its retries and the server's log keep their types, and the   *)
(* answer is pending exactly while the publish is under way.               *)
THEOREM TypeCorrect == Spec => []TypeOK
<1>1. IInv => TypeOK
  BY DEF IInv
<1> QED
  BY <1>1, Invariance, PTL

(* client._publish: a position it answers holds the form that was being     *)
(* published, whoever wrote between the watermarks, late commits included.  *)
THEOREM AnswerCommitted == Spec => []PublishedIsCommitted
<1>1. IInv => PublishedIsCommitted
  BY DEF IInv
<1> QED
  BY <1>1, Invariance, PTL

-----------------------------------------------------------------------------
(* The refinement.  The abstract state while no call commits late.         *)
LEMMA AbstractCopies ==
    ASSUME ~late_commits
    PROVE  Atomic!Committed = Copies
BY DEF Atomic!Committed, Copies, Forms, Atomic!Forms

(* A failure ends the publish, or the caller goes on without an answer.    *)
LEMMA FailedMaps ==
    ASSUME ~late_commits, ~late_commits', TypeOK, pc # "done",
           NEW code \in Codes, NEW retry_safe \in BOOLEAN,
           Failed(code, retry_safe), UNCHANGED <<log, seq>>
    PROVE  Atomic!Fail \/ UNCHANGED <<log, outcome, seq>>
<1>1. outcome = "pending" /\ (outcome' = outcome \/ outcome' = "failed")
  BY DEF Failed, TypeOK
<1> QED
  BY <1>1 DEF Atomic!Fail

LEMMA StepMaps ==
    ASSUME IInv, ~late_commits, ~late_commits', [Next]_vars
    PROVE  Atomic!Next \/ UNCHANGED <<log, outcome, seq>>
<1> DEFINE Goal == Atomic!Next \/ UNCHANGED <<log, outcome, seq>>
<1> USE DEF Atomic!Next
<1>0. TypeOK /\ CallInv /\ CopyInv
  BY DEF IInv
<1>1. CASE UNCHANGED vars
  BY <1>1 DEF vars, caller
<1>2. CASE GetStatus \/ Reconcile \/ FetchNext \/ RequestStop
  BY <1>2 DEF GetStatus, Reconcile, FetchNext, RequestStop, caller
<1>3. ASSUME NEW code \in Codes, StatusFails(code) \/ PublishRefused(code)
      PROVE  Goal
  BY <1>0, <1>3, FailedMaps DEF StatusFails, PublishRefused
<1>4. CASE PublishAnswered
  <2>1. Atomic!Committed = {} /\ outcome = "pending" /\ payload \in Forms
    BY <1>0, <1>4, AbstractCopies DEF PublishAnswered, CopyInv, TypeOK
  <2>2. /\ log' = Append(log, payload) /\ outcome' = "published"
        /\ seq' = Len(log')
    BY <1>0, <1>4, <2>1, Longer DEF PublishAnswered, Published
  <2> QED
    BY <2>1, <2>2 DEF Atomic!Commit, Forms, Atomic!Forms
<1>5. ASSUME NEW code \in Codes, PublishUncertain(code)
      PROVE  Goal
  <2>1. /\ Atomic!Committed = {} /\ outcome = "pending" /\ payload \in Forms
        /\ UNCHANGED <<outcome, seq>>
    BY <1>0, <1>5, AbstractCopies
    DEF PublishUncertain, CopyInv, TypeOK, caller
  <2>2. log' = Append(log, payload) \/ log' = log
    BY <1>5 DEF PublishUncertain
  <2> QED
    BY <2>1, <2>2 DEF Atomic!Commit, Forms, Atomic!Forms
<1>6. CASE FetchMatch
  <2>1. PICK i \in Matches : Published(i)
    BY <1>6 DEF FetchMatch
  <2>2. i \in Copies /\ outcome = "pending" /\ log' = log
    BY <1>0, <1>6 DEF FetchMatch, Matches, Page, Copies, TypeOK
  <2> QED
    BY <2>1, <2>2, AbstractCopies DEF Atomic!Learn, Published
<1>7. CASE ProvedNotCommitted \/ OutcomeUnknown
  <2>1. /\ status_code \in Codes /\ pc # "done" /\ UNCHANGED <<log, seq>>
        /\ Failed(status_code, TRUE) \/ Failed(status_code, FALSE)
    BY <1>0, <1>7 DEF ProvedNotCommitted, OutcomeUnknown, CallInv
  <2> QED
    BY <1>0, <2>1, FailedMaps
<1>8. CASE WaitEnds
  <2>1. /\ Atomic!Committed = {} /\ outcome = "pending"
        /\ UNCHANGED <<log, seq>>
        /\ outcome' = "stopped" \/ outcome' = outcome
    BY <1>0, <1>8, AbstractCopies DEF WaitEnds, CopyInv, TypeOK
  <2> QED
    BY <2>1 DEF Atomic!Stop
<1>9. CASE OtherPublishes
  BY <1>9 DEF OtherPublishes, caller, Atomic!OtherPublishes
<1>10. CASE LateCommit
  BY <1>0, <1>10 DEF LateCommit, CopyInv
<1> QED
  BY <1>1, <1>2, <1>3, <1>4, <1>5, <1>6, <1>7, <1>8, <1>9, <1>10
  DEF Next, Worker

(* _publish, its reconciliation, _publish_with_retry and the degraded form  *)
(* together are an atomic publish, provided no call commits after it was    *)
(* given up: the message is committed at most once, "published" names that  *)
(* copy, and "stopped" means that there is none.                           *)
THEOREM PublishIsAtomic == Spec => ImplementsAtomicPublish
<1> DEFINE abstract == <<IF late_commits THEN <<>> ELSE log,
                         IF late_commits THEN "pending" ELSE outcome,
                         IF late_commits THEN 0 ELSE seq>>
<1>1. Init => Atomic!Init
  BY DEF Init, Atomic!Init
<1>2. IInv /\ [Next]_vars => [Atomic!Next]_abstract
  <2> SUFFICES ASSUME IInv, [Next]_vars PROVE [Atomic!Next]_abstract
    OBVIOUS
  <2>1. late_commits' = late_commits
    BY DEF Next, vars, deployment
  <2>2. CASE late_commits
    BY <2>1, <2>2
  <2>3. CASE ~late_commits
    BY <2>1, <2>3, StepMaps
  <2> QED
    BY <2>2, <2>3
<1> QED
  BY <1>1, <1>2, Invariance, PTL DEF Spec, ImplementsAtomicPublish, Atomic!Spec

(* While no call commits late, no retry, no degraded form and no lost       *)
(* answer writes the message a second time.                                *)
THEOREM AtMostOneCopy == Spec => [](~late_commits => PublishedOnce)
<1>1. IInv => (~late_commits => PublishedOnce)
  BY DEF IInv, CopyInv, PublishedOnce
<1> QED
  BY <1>1, Invariance, PTL
=============================================================================
