--------------------------- MODULE RegistryProofs ---------------------------
(***************************************************************************)
(* Proofs about Registry, for every finite set of connections and every    *)
(* positive limit.                                                         *)
(*                                                                         *)
(* None of the safety properties is inductive by itself.  What carries     *)
(* them is how the progress of Start (start), the progress of close (once) *)
(* and membership in the registry determine each other; Life says that for *)
(* one session, Trail adds the audit events and Closing adds CloseAll.     *)
(***************************************************************************)
EXTENDS Registry, FiniteSetTheorems, SequenceTheorems, TLAPS

\* The steps of Start at which the session object is not in the registry.
Unregistered == {"idle", "open", "opened", "limit", "failed", "refused"}

\* What Start's progress, close's progress and the registry say about each
\* other.
Life(s) ==
    /\ s \in sessions =>
          /\ start[s] \notin Unregistered
          /\ once[s] \in {"free", "browser", "console", "delete"}
    /\ start[s] \in {"idle", "open", "opened", "limit"} => state[s] = "none"
    /\ start[s] \in {"registered", "audited", "abort", "running"} =>
          state[s] # "none"
    /\ start[s] = "abort" => once[s] # "free"
    /\ state[s] = "none" => once[s] = "free"
    /\ state[s] # "none" /\ once[s] = "free" => state[s] = "active"
    /\ state[s] = "active" => s \in sessions /\ once[s] = "free"
    /\ state[s] = "closed" => once[s] \in {"audit", "done"}
    /\ once[s] = "free" <=> endReason[s] = ""
    /\ console[s] = "open" => start[s] = "opened" \/ s \in sessions
    /\ start[s] \in {"idle", "open", "limit", "failed", "refused", "abort"} =>
          console[s] # "open"
    /\ once[s] \in {"delete", "state", "audit", "done"} =>
          console[s] = "closed"
    /\ once[s] \in {"console", "delete", "state", "audit", "done"} =>
          browser[s] = "closed"

\* What the audit trail holds, given where Start and close are.
Trail(s) ==
    /\ start[s] \in {"registered", "audited", "abort"} /\ once[s] # "free" =>
          endReason[s] = "server_shutdown"
    /\ state[s] = "none" =>
          audit[s] \in { <<>>, <<"session_rejected">> }
    /\ start[s] \in {"idle", "open", "opened"} => audit[s] = <<>>
    /\ state[s] # "none" /\ start[s] = "registered" =>
          audit[s] = IF once[s] = "done" THEN <<"session_ended">> ELSE <<>>
    /\ state[s] # "none" /\ start[s] # "registered" =>
          IF once[s] = "done"
          THEN \/ audit[s] = <<"session_started", "session_ended">>
               \/ /\ audit[s] = <<"session_ended", "session_started">>
                  /\ endReason[s] = "server_shutdown"
          ELSE audit[s] = <<"session_started">>

\* What CloseAll has done with the sessions it copied.
Closing ==
    /\ server = "serving" => snapshot = {} /\ pending = {}
    /\ server \in {"draining", "stopped"} => pending = {}
    /\ \A s \in snapshot :
          /\ state[s] # "none"
          /\ s \notin pending => once[s] = "done"

\* The inductive invariant without the limit.
IInv ==
    /\ TypeOK
    /\ \A s \in Session : Life(s)
    /\ \A s \in Session : Trail(s)
    /\ Closing

-----------------------------------------------------------------------------
(* Type correctness *)

\* Recording an event keeps the trails sequences of audit events, and adds
\* the event at the end of one trail only.
LEMMA RecordTypes ==
    ASSUME audit \in [Session -> Seq(AuditEvent)],
           NEW s \in Session, NEW e \in AuditEvent, Record(s, e)
    PROVE  /\ audit' \in [Session -> Seq(AuditEvent)]
           /\ audit'[s] = Append(audit[s], e)
           /\ \A t \in Session \ {s} : audit'[t] = audit[t]
<1>1. audit[s] \in Seq(AuditEvent)
  OBVIOUS
<1>2. Append(audit[s], e) \in Seq(AuditEvent)
  BY <1>1
<1> QED
  BY <1>2 DEF Record

\* Every step preserves the types.
LEMMA TypeStep ==
    ASSUME TypeOK, Closing, [Next]_vars
    PROVE  TypeOK'
<1> USE DEF TypeOK, StartStep, CloseStep, EndReason, LoopEndReason, Alive,
            closeVars, serverVars, startVars
<1>1. ASSUME NEW s \in Session, StartAtCapacity(s) PROVE TypeOK'
  BY <1>1, RecordTypes, "session_rejected" \in AuditEvent DEF StartAtCapacity, AuditEvent
<1>2. ASSUME NEW s \in Session, StartBelowCapacity(s) PROVE TypeOK'
  BY <1>2 DEF StartBelowCapacity
<1>3. ASSUME NEW s \in Session, OpenConsole(s) PROVE TypeOK'
  BY <1>3 DEF OpenConsole
<1>4. ASSUME NEW s \in Session, OpenFails(s) PROVE TypeOK'
  BY <1>4 DEF OpenFails
<1>5. ASSUME NEW s \in Session, KeepaliveFails(s) PROVE TypeOK'
  BY <1>5 DEF KeepaliveFails
<1>6. ASSUME NEW s \in Session, Register(s) PROVE TypeOK'
  BY <1>6 DEF Register
<1>7. ASSUME NEW s \in Session, RegisterAtCapacity(s) PROVE TypeOK'
  BY <1>7, RecordTypes, "session_rejected" \in AuditEvent DEF RegisterAtCapacity, AuditEvent
<1>8. ASSUME NEW s \in Session, AuditStart(s) PROVE TypeOK'
  BY <1>8, RecordTypes, "session_started" \in AuditEvent DEF AuditStart, AuditEvent
<1>9. ASSUME NEW s \in Session, EnqueueInitial(s) PROVE TypeOK'
  BY <1>9 DEF EnqueueInitial
<1>10. ASSUME NEW s \in Session, EnqueueOnClosed(s) PROVE TypeOK'
  BY <1>10 DEF EnqueueOnClosed
<1>11. ASSUME NEW s \in Session, AbortStart(s) PROVE TypeOK'
  BY <1>11 DEF AbortStart
<1>12. ASSUME NEW s \in Session, Refuse(s) PROVE TypeOK'
  BY <1>12 DEF Refuse
<1>13. ASSUME NEW s \in Session, CloseBrowser(s) PROVE TypeOK'
  BY <1>13 DEF CloseBrowser
<1>14. ASSUME NEW s \in Session, CloseConsole(s) PROVE TypeOK'
  BY <1>14 DEF CloseConsole
<1>15. ASSUME NEW s \in Session, CloseDelete(s) PROVE TypeOK'
  BY <1>15 DEF CloseDelete
<1>16. ASSUME NEW s \in Session, CloseState(s) PROVE TypeOK'
  BY <1>16 DEF CloseState
<1>17. ASSUME NEW s \in Session, CloseAudit(s) PROVE TypeOK'
  BY <1>17, RecordTypes, "session_ended" \in AuditEvent DEF CloseAudit, AuditEvent
<1>18. ASSUME NEW s \in Session, CloseAllCloses(s) PROVE TypeOK'
  BY <1>18 DEF CloseAllCloses, CloseEnter
<1>19. ASSUME NEW s \in Session, CloseAllJoins(s) PROVE TypeOK'
  BY <1>19 DEF CloseAllJoins
<1>20. ASSUME NEW s \in Session, CloseAllNext(s) PROVE TypeOK'
  BY <1>20 DEF CloseAllNext
<1>21. ASSUME NEW s \in Session, NEW r \in LoopReason, LoopEnds(s, r)
      PROVE  TypeOK'
  BY <1>21, LoopReasonAssumption DEF LoopEnds, CloseEnter
<1>22. CASE ListenFails
  BY <1>22 DEF ListenFails
<1>23. CASE CloseAllSnapshot
  BY <1>23 DEF CloseAllSnapshot, Closing
<1>24. CASE CloseAllReturns
  BY <1>24 DEF CloseAllReturns
<1>25. CASE Exit
  BY <1>25 DEF Exit
<1>26. CASE UNCHANGED vars
  BY <1>26 DEF vars
<1> QED
  BY <1>1, <1>2, <1>3, <1>4, <1>5, <1>6, <1>7, <1>8, <1>9, <1>10, <1>11,
     <1>12, <1>13, <1>14, <1>15, <1>16, <1>17, <1>18, <1>19, <1>20, <1>21,
     <1>22, <1>23, <1>24, <1>25, <1>26
  DEF Next, StartNext, CloseBody, CloseAllNextStep, Exited

\* The first and the second event of a trail.
LEMMA Appends ==
    /\ \A e \in AuditEvent : Append(<<>>, e) = <<e>>
    /\ \A d, e \in AuditEvent : Append(<<d>>, e) = <<d, e>>
<1>1. ASSUME NEW e \in AuditEvent PROVE Append(<<>>, e) = <<e>>
  OBVIOUS
<1>2. ASSUME NEW d \in AuditEvent, NEW e \in AuditEvent
      PROVE  Append(<<d>>, e) = <<d, e>>
  <2> DEFINE a == Append(<<d>>, e)
             b == <<d, e>>
  <2>1. a \in Seq(AuditEvent) /\ b \in Seq(AuditEvent)
    OBVIOUS
  <2>2. Len(a) = 2 /\ a[1] = d /\ a[2] = e
    OBVIOUS
  <2>3. Len(b) = 2 /\ b[1] = d /\ b[2] = e
    OBVIOUS
  <2>4. \A i \in 1 .. Len(a) : a[i] = b[i]
    <3> SUFFICES ASSUME NEW i \in 1 .. 2 PROVE a[i] = b[i]
      BY <2>2
    <3>1. i = 1 \/ i = 2
      OBVIOUS
    <3> QED
      BY <3>1, <2>2, <2>3
  <2> HIDE DEF a, b
  <2>5. a = b
    BY <2>1, <2>2, <2>3, <2>4, SeqEqual
  <2> QED
    BY <2>5 DEF a, b
<1> QED
  BY <1>1, <1>2

-----------------------------------------------------------------------------
(* The progress of Start and close, and the registry *)

\* Every step preserves Life of every session.
LEMMA LifeStep ==
    ASSUME NEW u \in Session, TypeOK, Closing, Life(u), [Next]_vars
    PROVE  Life(u)'
<1> USE DEF TypeOK, Life, Unregistered, Alive, closeVars, serverVars,
            startVars
<1>1. ASSUME NEW s \in Session, StartAtCapacity(s) PROVE Life(u)'
  <2>1. CASE u = s
    BY <1>1, <2>1 DEF StartAtCapacity
  <2>2. CASE u # s
    BY <1>1, <2>2 DEF StartAtCapacity
  <2> QED
    BY <2>1, <2>2
<1>2. ASSUME NEW s \in Session, StartBelowCapacity(s) PROVE Life(u)'
  <2>1. CASE u = s
    BY <1>2, <2>1 DEF StartBelowCapacity
  <2>2. CASE u # s
    BY <1>2, <2>2 DEF StartBelowCapacity
  <2> QED
    BY <2>1, <2>2
<1>3. ASSUME NEW s \in Session, OpenConsole(s) PROVE Life(u)'
  <2>1. CASE u = s
    BY <1>3, <2>1 DEF OpenConsole
  <2>2. CASE u # s
    BY <1>3, <2>2 DEF OpenConsole
  <2> QED
    BY <2>1, <2>2
<1>4. ASSUME NEW s \in Session, OpenFails(s) PROVE Life(u)'
  <2>1. CASE u = s
    BY <1>4, <2>1 DEF OpenFails
  <2>2. CASE u # s
    BY <1>4, <2>2 DEF OpenFails
  <2> QED
    BY <2>1, <2>2
<1>5. ASSUME NEW s \in Session, KeepaliveFails(s) PROVE Life(u)'
  <2>1. CASE u = s
    BY <1>5, <2>1 DEF KeepaliveFails
  <2>2. CASE u # s
    BY <1>5, <2>2 DEF KeepaliveFails
  <2> QED
    BY <2>1, <2>2
<1>6. ASSUME NEW s \in Session, Register(s) PROVE Life(u)'
  <2>1. CASE u = s
    BY <1>6, <2>1 DEF Register
  <2>2. CASE u # s
    BY <1>6, <2>2 DEF Register
  <2> QED
    BY <2>1, <2>2
<1>7. ASSUME NEW s \in Session, RegisterAtCapacity(s) PROVE Life(u)'
  <2>1. CASE u = s
    BY <1>7, <2>1 DEF RegisterAtCapacity
  <2>2. CASE u # s
    BY <1>7, <2>2 DEF RegisterAtCapacity
  <2> QED
    BY <2>1, <2>2
<1>8. ASSUME NEW s \in Session, AuditStart(s) PROVE Life(u)'
  <2>1. CASE u = s
    BY <1>8, <2>1 DEF AuditStart
  <2>2. CASE u # s
    BY <1>8, <2>2 DEF AuditStart
  <2> QED
    BY <2>1, <2>2
<1>9. ASSUME NEW s \in Session, EnqueueInitial(s) PROVE Life(u)'
  <2>1. CASE u = s
    BY <1>9, <2>1 DEF EnqueueInitial
  <2>2. CASE u # s
    BY <1>9, <2>2 DEF EnqueueInitial
  <2> QED
    BY <2>1, <2>2
<1>10. ASSUME NEW s \in Session, EnqueueOnClosed(s) PROVE Life(u)'
  <2>1. CASE u = s
    BY <1>10, <2>1 DEF EnqueueOnClosed
  <2>2. CASE u # s
    BY <1>10, <2>2 DEF EnqueueOnClosed
  <2> QED
    BY <2>1, <2>2
<1>11. ASSUME NEW s \in Session, AbortStart(s) PROVE Life(u)'
  <2>1. CASE u = s
    BY <1>11, <2>1 DEF AbortStart
  <2>2. CASE u # s
    BY <1>11, <2>2 DEF AbortStart
  <2> QED
    BY <2>1, <2>2
<1>12. ASSUME NEW s \in Session, Refuse(s) PROVE Life(u)'
  <2>1. CASE u = s
    BY <1>12, <2>1 DEF Refuse
  <2>2. CASE u # s
    BY <1>12, <2>2 DEF Refuse
  <2> QED
    BY <2>1, <2>2
<1>13. ASSUME NEW s \in Session, CloseBrowser(s) PROVE Life(u)'
  <2>1. CASE u = s
    BY <1>13, <2>1 DEF CloseBrowser
  <2>2. CASE u # s
    BY <1>13, <2>2 DEF CloseBrowser
  <2> QED
    BY <2>1, <2>2
<1>14. ASSUME NEW s \in Session, CloseConsole(s) PROVE Life(u)'
  <2>1. CASE u = s
    BY <1>14, <2>1 DEF CloseConsole
  <2>2. CASE u # s
    BY <1>14, <2>2 DEF CloseConsole
  <2> QED
    BY <2>1, <2>2
<1>15. ASSUME NEW s \in Session, CloseDelete(s) PROVE Life(u)'
  <2>1. CASE u = s
    BY <1>15, <2>1 DEF CloseDelete
  <2>2. CASE u # s
    BY <1>15, <2>2 DEF CloseDelete
  <2> QED
    BY <2>1, <2>2
<1>16. ASSUME NEW s \in Session, CloseState(s) PROVE Life(u)'
  <2>1. CASE u = s
    BY <1>16, <2>1 DEF CloseState
  <2>2. CASE u # s
    BY <1>16, <2>2 DEF CloseState
  <2> QED
    BY <2>1, <2>2
<1>17. ASSUME NEW s \in Session, CloseAudit(s) PROVE Life(u)'
  <2>1. CASE u = s
    BY <1>17, <2>1 DEF CloseAudit
  <2>2. CASE u # s
    BY <1>17, <2>2 DEF CloseAudit
  <2> QED
    BY <2>1, <2>2
<1>18. ASSUME NEW s \in Session, CloseAllCloses(s) PROVE Life(u)'
  <2>1. CASE u = s
    BY <1>18, <2>1 DEF CloseAllCloses, CloseEnter, Closing
  <2>2. CASE u # s
    BY <1>18, <2>2 DEF CloseAllCloses, CloseEnter, Closing
  <2> QED
    BY <2>1, <2>2
<1>19. ASSUME NEW s \in Session, CloseAllJoins(s) PROVE Life(u)'
  <2>1. CASE u = s
    BY <1>19, <2>1 DEF CloseAllJoins
  <2>2. CASE u # s
    BY <1>19, <2>2 DEF CloseAllJoins
  <2> QED
    BY <2>1, <2>2
<1>20. ASSUME NEW s \in Session, CloseAllNext(s) PROVE Life(u)'
  <2>1. CASE u = s
    BY <1>20, <2>1 DEF CloseAllNext
  <2>2. CASE u # s
    BY <1>20, <2>2 DEF CloseAllNext
  <2> QED
    BY <2>1, <2>2
<1>21. ASSUME NEW s \in Session, NEW r \in LoopReason, LoopEnds(s, r)
      PROVE  Life(u)'
  <2>1. CASE u = s
    BY <1>21, <2>1, LoopReasonAssumption DEF LoopEnds, CloseEnter, EndReason, LoopEndReason
  <2>2. CASE u # s
    BY <1>21, <2>2 DEF LoopEnds, CloseEnter, EndReason, LoopEndReason
  <2> QED
    BY <2>1, <2>2
<1>22. CASE ListenFails
  BY <1>22 DEF ListenFails
<1>23. CASE CloseAllSnapshot
  BY <1>23 DEF CloseAllSnapshot
<1>24. CASE CloseAllReturns
  BY <1>24 DEF CloseAllReturns
<1>25. CASE Exit
  BY <1>25 DEF Exit
<1>26. CASE UNCHANGED vars
  BY <1>26 DEF vars
<1> QED
  BY <1>1, <1>2, <1>3, <1>4, <1>5, <1>6, <1>7, <1>8, <1>9, <1>10, <1>11,
     <1>12, <1>13, <1>14, <1>15, <1>16, <1>17, <1>18, <1>19, <1>20, <1>21,
     <1>22, <1>23, <1>24, <1>25, <1>26
  DEF Next, StartNext, CloseBody, CloseAllNextStep, Exited

\* Every step preserves Trail of every session.
LEMMA TrailStep ==
    ASSUME NEW u \in Session, TypeOK, Closing, Life(u), Trail(u), [Next]_vars
    PROVE  Trail(u)'
<1> USE DEF TypeOK, Life, Trail, Unregistered, Alive, closeVars,
            serverVars, startVars
<1>1. ASSUME NEW s \in Session, StartAtCapacity(s) PROVE Trail(u)'
  <2>1. /\ audit'[s] = Append(audit[s], "session_rejected")
        /\ u # s => audit'[u] = audit[u]
    BY <1>1, RecordTypes DEF StartAtCapacity, AuditEvent
  <2>2. CASE u = s
    <3>1. audit[s] = <<>>
      BY <1>1, <2>2 DEF StartAtCapacity
    <3>2. audit'[s] = <<"session_rejected">>
      BY <2>1, <3>1, Appends DEF AuditEvent
    <3> QED
      BY <1>1, <2>2, <3>2 DEF StartAtCapacity
  <2>3. CASE u # s
    BY <1>1, <2>1, <2>3 DEF StartAtCapacity
  <2> QED
    BY <2>2, <2>3
<1>2. ASSUME NEW s \in Session, StartBelowCapacity(s) PROVE Trail(u)'
  <2>1. CASE u = s
    BY <1>2, <2>1 DEF StartBelowCapacity
  <2>2. CASE u # s
    BY <1>2, <2>2 DEF StartBelowCapacity
  <2> QED
    BY <2>1, <2>2
<1>3. ASSUME NEW s \in Session, OpenConsole(s) PROVE Trail(u)'
  <2>1. CASE u = s
    BY <1>3, <2>1 DEF OpenConsole
  <2>2. CASE u # s
    BY <1>3, <2>2 DEF OpenConsole
  <2> QED
    BY <2>1, <2>2
<1>4. ASSUME NEW s \in Session, OpenFails(s) PROVE Trail(u)'
  <2>1. CASE u = s
    BY <1>4, <2>1 DEF OpenFails
  <2>2. CASE u # s
    BY <1>4, <2>2 DEF OpenFails
  <2> QED
    BY <2>1, <2>2
<1>5. ASSUME NEW s \in Session, KeepaliveFails(s) PROVE Trail(u)'
  <2>1. CASE u = s
    BY <1>5, <2>1 DEF KeepaliveFails
  <2>2. CASE u # s
    BY <1>5, <2>2 DEF KeepaliveFails
  <2> QED
    BY <2>1, <2>2
<1>6. ASSUME NEW s \in Session, Register(s) PROVE Trail(u)'
  <2>1. CASE u = s
    BY <1>6, <2>1 DEF Register
  <2>2. CASE u # s
    BY <1>6, <2>2 DEF Register
  <2> QED
    BY <2>1, <2>2
<1>7. ASSUME NEW s \in Session, RegisterAtCapacity(s) PROVE Trail(u)'
  <2>1. /\ audit'[s] = Append(audit[s], "session_rejected")
        /\ u # s => audit'[u] = audit[u]
    BY <1>7, RecordTypes DEF RegisterAtCapacity, AuditEvent
  <2>2. CASE u = s
    <3>1. audit[s] = <<>>
      BY <1>7, <2>2 DEF RegisterAtCapacity
    <3>2. audit'[s] = <<"session_rejected">>
      BY <2>1, <3>1, Appends DEF AuditEvent
    <3> QED
      BY <1>7, <2>2, <3>2 DEF RegisterAtCapacity
  <2>3. CASE u # s
    BY <1>7, <2>1, <2>3 DEF RegisterAtCapacity
  <2> QED
    BY <2>2, <2>3
<1>8. ASSUME NEW s \in Session, AuditStart(s) PROVE Trail(u)'
  <2>1. /\ audit'[s] = Append(audit[s], "session_started")
        /\ u # s => audit'[u] = audit[u]
    BY <1>8, RecordTypes DEF AuditStart, AuditEvent
  <2>2. CASE u = s /\ once[s] = "done"
    <3>1. audit[s] = <<"session_ended">>
      BY <1>8, <2>2 DEF AuditStart
    <3>2. audit'[s] = <<"session_ended", "session_started">>
      BY <2>1, <3>1, Appends DEF AuditEvent
    <3> QED
      BY <1>8, <2>2, <3>2 DEF AuditStart
  <2>3. CASE u = s /\ once[s] # "done"
    <3>1. audit[s] = <<>>
      BY <1>8, <2>3 DEF AuditStart
    <3>2. audit'[s] = <<"session_started">>
      BY <2>1, <3>1, Appends DEF AuditEvent
    <3> QED
      BY <1>8, <2>3, <3>2 DEF AuditStart
  <2>4. CASE u # s
    BY <1>8, <2>1, <2>4 DEF AuditStart
  <2> QED
    BY <2>2, <2>3, <2>4
<1>9. ASSUME NEW s \in Session, EnqueueInitial(s) PROVE Trail(u)'
  <2>1. CASE u = s
    BY <1>9, <2>1 DEF EnqueueInitial
  <2>2. CASE u # s
    BY <1>9, <2>2 DEF EnqueueInitial
  <2> QED
    BY <2>1, <2>2
<1>10. ASSUME NEW s \in Session, EnqueueOnClosed(s) PROVE Trail(u)'
  <2>1. CASE u = s
    BY <1>10, <2>1 DEF EnqueueOnClosed
  <2>2. CASE u # s
    BY <1>10, <2>2 DEF EnqueueOnClosed
  <2> QED
    BY <2>1, <2>2
<1>11. ASSUME NEW s \in Session, AbortStart(s) PROVE Trail(u)'
  <2>1. CASE u = s
    BY <1>11, <2>1 DEF AbortStart
  <2>2. CASE u # s
    BY <1>11, <2>2 DEF AbortStart
  <2> QED
    BY <2>1, <2>2
<1>12. ASSUME NEW s \in Session, Refuse(s) PROVE Trail(u)'
  <2>1. CASE u = s
    BY <1>12, <2>1 DEF Refuse
  <2>2. CASE u # s
    BY <1>12, <2>2 DEF Refuse
  <2> QED
    BY <2>1, <2>2
<1>13. ASSUME NEW s \in Session, CloseBrowser(s) PROVE Trail(u)'
  <2>1. CASE u = s
    BY <1>13, <2>1 DEF CloseBrowser
  <2>2. CASE u # s
    BY <1>13, <2>2 DEF CloseBrowser
  <2> QED
    BY <2>1, <2>2
<1>14. ASSUME NEW s \in Session, CloseConsole(s) PROVE Trail(u)'
  <2>1. CASE u = s
    BY <1>14, <2>1 DEF CloseConsole
  <2>2. CASE u # s
    BY <1>14, <2>2 DEF CloseConsole
  <2> QED
    BY <2>1, <2>2
<1>15. ASSUME NEW s \in Session, CloseDelete(s) PROVE Trail(u)'
  <2>1. CASE u = s
    BY <1>15, <2>1 DEF CloseDelete
  <2>2. CASE u # s
    BY <1>15, <2>2 DEF CloseDelete
  <2> QED
    BY <2>1, <2>2
<1>16. ASSUME NEW s \in Session, CloseState(s) PROVE Trail(u)'
  <2>1. CASE u = s
    BY <1>16, <2>1 DEF CloseState
  <2>2. CASE u # s
    BY <1>16, <2>2 DEF CloseState
  <2> QED
    BY <2>1, <2>2
<1>17. ASSUME NEW s \in Session, CloseAudit(s) PROVE Trail(u)'
  <2>1. /\ audit'[s] = Append(audit[s], "session_ended")
        /\ u # s => audit'[u] = audit[u]
    BY <1>17, RecordTypes DEF CloseAudit, AuditEvent
  <2>2. CASE u = s /\ start[s] = "registered"
    <3>1. audit[s] = <<>>
      BY <1>17, <2>2 DEF CloseAudit
    <3>2. audit'[s] = <<"session_ended">>
      BY <2>1, <3>1, Appends DEF AuditEvent
    <3> QED
      BY <1>17, <2>2, <3>2 DEF CloseAudit
  <2>3. CASE u = s /\ start[s] # "registered"
    <3>1. audit[s] = <<"session_started">>
      BY <1>17, <2>3 DEF CloseAudit
    <3>2. audit'[s] = <<"session_started", "session_ended">>
      BY <2>1, <3>1, Appends DEF AuditEvent
    <3> QED
      BY <1>17, <2>3, <3>2 DEF CloseAudit
  <2>4. CASE u # s
    BY <1>17, <2>1, <2>4 DEF CloseAudit
  <2> QED
    BY <2>2, <2>3, <2>4
<1>18. ASSUME NEW s \in Session, CloseAllCloses(s) PROVE Trail(u)'
  <2>1. CASE u = s
    BY <1>18, <2>1 DEF CloseAllCloses, CloseEnter, Closing
  <2>2. CASE u # s
    BY <1>18, <2>2 DEF CloseAllCloses, CloseEnter, Closing
  <2> QED
    BY <2>1, <2>2
<1>19. ASSUME NEW s \in Session, CloseAllJoins(s) PROVE Trail(u)'
  <2>1. CASE u = s
    BY <1>19, <2>1 DEF CloseAllJoins
  <2>2. CASE u # s
    BY <1>19, <2>2 DEF CloseAllJoins
  <2> QED
    BY <2>1, <2>2
<1>20. ASSUME NEW s \in Session, CloseAllNext(s) PROVE Trail(u)'
  <2>1. CASE u = s
    BY <1>20, <2>1 DEF CloseAllNext
  <2>2. CASE u # s
    BY <1>20, <2>2 DEF CloseAllNext
  <2> QED
    BY <2>1, <2>2
<1>21. ASSUME NEW s \in Session, NEW r \in LoopReason, LoopEnds(s, r)
      PROVE  Trail(u)'
  <2>1. CASE u = s
    BY <1>21, <2>1 DEF LoopEnds, CloseEnter
  <2>2. CASE u # s
    BY <1>21, <2>2 DEF LoopEnds, CloseEnter
  <2> QED
    BY <2>1, <2>2
<1>22. CASE ListenFails
  BY <1>22 DEF ListenFails
<1>23. CASE CloseAllSnapshot
  BY <1>23 DEF CloseAllSnapshot
<1>24. CASE CloseAllReturns
  BY <1>24 DEF CloseAllReturns
<1>25. CASE Exit
  BY <1>25 DEF Exit
<1>26. CASE UNCHANGED vars
  BY <1>26 DEF vars
<1> QED
  BY <1>1, <1>2, <1>3, <1>4, <1>5, <1>6, <1>7, <1>8, <1>9, <1>10, <1>11,
     <1>12, <1>13, <1>14, <1>15, <1>16, <1>17, <1>18, <1>19, <1>20, <1>21,
     <1>22, <1>23, <1>24, <1>25, <1>26
  DEF Next, StartNext, CloseBody, CloseAllNextStep, Exited

\* Every step preserves what CloseAll relies on.
LEMMA ClosingStep ==
    ASSUME TypeOK, Closing, \A t \in Session : Life(t), [Next]_vars
    PROVE  Closing'
<1> USE DEF TypeOK, Life, Closing, Unregistered, Alive, closeVars,
            serverVars, startVars
<1>1. ASSUME NEW s \in Session, StartAtCapacity(s) PROVE Closing'
  BY <1>1 DEF StartAtCapacity
<1>2. ASSUME NEW s \in Session, StartBelowCapacity(s) PROVE Closing'
  BY <1>2 DEF StartBelowCapacity
<1>3. ASSUME NEW s \in Session, OpenConsole(s) PROVE Closing'
  BY <1>3 DEF OpenConsole
<1>4. ASSUME NEW s \in Session, OpenFails(s) PROVE Closing'
  BY <1>4 DEF OpenFails
<1>5. ASSUME NEW s \in Session, KeepaliveFails(s) PROVE Closing'
  BY <1>5 DEF KeepaliveFails
<1>6. ASSUME NEW s \in Session, Register(s) PROVE Closing'
  BY <1>6 DEF Register
<1>7. ASSUME NEW s \in Session, RegisterAtCapacity(s) PROVE Closing'
  BY <1>7 DEF RegisterAtCapacity
<1>8. ASSUME NEW s \in Session, AuditStart(s) PROVE Closing'
  BY <1>8 DEF AuditStart
<1>9. ASSUME NEW s \in Session, EnqueueInitial(s) PROVE Closing'
  BY <1>9 DEF EnqueueInitial
<1>10. ASSUME NEW s \in Session, EnqueueOnClosed(s) PROVE Closing'
  BY <1>10 DEF EnqueueOnClosed
<1>11. ASSUME NEW s \in Session, AbortStart(s) PROVE Closing'
  BY <1>11 DEF AbortStart
<1>12. ASSUME NEW s \in Session, Refuse(s) PROVE Closing'
  BY <1>12 DEF Refuse
<1>13. ASSUME NEW s \in Session, CloseBrowser(s) PROVE Closing'
  BY <1>13 DEF CloseBrowser
<1>14. ASSUME NEW s \in Session, CloseConsole(s) PROVE Closing'
  BY <1>14 DEF CloseConsole
<1>15. ASSUME NEW s \in Session, CloseDelete(s) PROVE Closing'
  BY <1>15 DEF CloseDelete
<1>16. ASSUME NEW s \in Session, CloseState(s) PROVE Closing'
  BY <1>16 DEF CloseState
<1>17. ASSUME NEW s \in Session, CloseAudit(s) PROVE Closing'
  BY <1>17 DEF CloseAudit
<1>18. ASSUME NEW s \in Session, CloseAllCloses(s) PROVE Closing'
  BY <1>18 DEF CloseAllCloses, CloseEnter
<1>19. ASSUME NEW s \in Session, CloseAllJoins(s) PROVE Closing'
  BY <1>19 DEF CloseAllJoins
<1>20. ASSUME NEW s \in Session, CloseAllNext(s) PROVE Closing'
  BY <1>20 DEF CloseAllNext
<1>21. ASSUME NEW s \in Session, NEW r \in LoopReason, LoopEnds(s, r)
      PROVE  Closing'
  BY <1>21 DEF LoopEnds, CloseEnter
<1>22. CASE ListenFails
  BY <1>22 DEF ListenFails
<1>23. CASE CloseAllSnapshot
  BY <1>23 DEF CloseAllSnapshot, StartStep
<1>24. CASE CloseAllReturns
  BY <1>24 DEF CloseAllReturns
<1>25. CASE Exit
  BY <1>25 DEF Exit
<1>26. CASE UNCHANGED vars
  BY <1>26 DEF vars
<1> QED
  BY <1>1, <1>2, <1>3, <1>4, <1>5, <1>6, <1>7, <1>8, <1>9, <1>10, <1>11,
     <1>12, <1>13, <1>14, <1>15, <1>16, <1>17, <1>18, <1>19, <1>20, <1>21,
     <1>22, <1>23, <1>24, <1>25, <1>26
  DEF Next, StartNext, CloseBody, CloseAllNextStep, Exited
-----------------------------------------------------------------------------
(* The invariant holds in every state *)

LEMMA InvInit == Init => IInv
<1> SUFFICES ASSUME Init PROVE IInv
  OBVIOUS
<1>1. <<>> \in Seq(AuditEvent)
  OBVIOUS
<1>2. TypeOK
  BY <1>1 DEF Init, TypeOK, StartStep, CloseStep
<1>3. \A s \in Session : Life(s) /\ Trail(s)
  BY DEF Init, Life, Trail, Unregistered
<1>4. Closing
  BY DEF Init, Closing
<1> QED
  BY <1>2, <1>3, <1>4 DEF IInv

LEMMA InvStep == IInv /\ [Next]_vars => IInv'
<1> SUFFICES ASSUME IInv, [Next]_vars PROVE IInv'
  OBVIOUS
<1>1. TypeOK'
  BY TypeStep DEF IInv
<1>2. ASSUME NEW u \in Session PROVE Life(u)' /\ Trail(u)'
  <2>1. Life(u) /\ Trail(u)
    BY DEF IInv
  <2> QED
    BY <2>1, LifeStep, TrailStep DEF IInv
<1>3. Closing'
  BY ClosingStep DEF IInv
<1> QED
  BY <1>1, <1>2, <1>3 DEF IInv

\* The progress of Start and close, the registry, the audit trail and CloseAll
\* stay in step in every state of Registry.
THEOREM Invariance == SafeSpec => []IInv
BY InvInit, InvStep, PTL DEF SafeSpec

\* Every variable keeps its type in every state of Registry.
THEOREM TypeCorrect == SafeSpec => []TypeOK
<1>1. IInv => TypeOK
  BY DEF IInv
<1> QED
  BY <1>1, Invariance, PTL

-----------------------------------------------------------------------------
(* The limit *)

\* A step that does not register leaves the registry or takes one out of it.
LEMMA RegistryChange ==
    ASSUME TypeOK, [Next]_vars
    PROVE  \/ \E s \in Session : Register(s)
           \/ sessions' \subseteq sessions
<1> USE DEF closeVars, serverVars, startVars
<1>1. ASSUME NEW s \in Session, StartNext(s), ~Register(s)
      PROVE  sessions' \subseteq sessions
  BY <1>1 DEF StartNext, StartAtCapacity, StartBelowCapacity, OpenConsole,
     OpenFails, KeepaliveFails, RegisterAtCapacity, AuditStart,
     EnqueueInitial, EnqueueOnClosed, AbortStart, Refuse
<1>2. ASSUME NEW s \in Session, CloseBody(s)
      PROVE  sessions' \subseteq sessions
  BY <1>2 DEF CloseBody, CloseBrowser, CloseConsole, CloseDelete, CloseState,
     CloseAudit
<1>3. ASSUME NEW s \in Session, NEW r \in LoopReason, LoopEnds(s, r)
      PROVE  sessions' \subseteq sessions
  BY <1>3 DEF LoopEnds
<1>4. ASSUME CloseAllNextStep PROVE sessions' \subseteq sessions
  BY <1>4 DEF CloseAllNextStep, CloseAllCloses, CloseAllJoins, CloseAllNext,
     CloseAllReturns
<1>5. ASSUME ListenFails \/ CloseAllSnapshot \/ Exit \/ Exited
             \/ UNCHANGED vars
      PROVE  sessions' \subseteq sessions
  BY <1>5 DEF ListenFails, CloseAllSnapshot, Exit, Exited, vars
<1> QED
  BY <1>1, <1>2, <1>3, <1>4, <1>5 DEF Next

\* Only the check under the lock that also inserts makes the limit hold: the
\* check before the dial is nowhere used.
THEOREM Capacity == SafeSpec => []CapacityRespected
<1>1. Init => CapacityRespected
  <2>1. Cardinality({}) = 0
    BY FS_EmptySet
  <2>2. 0 <= MaxConcurrent
    BY MaxConcurrentAssumption
  <2> QED
    BY <2>1, <2>2 DEF Init, CapacityRespected
<1>2. TypeOK /\ CapacityRespected /\ [Next]_vars => CapacityRespected'
  <2> SUFFICES ASSUME TypeOK, CapacityRespected, [Next]_vars
               PROVE  CapacityRespected'
    OBVIOUS
  <2>1. IsFiniteSet(sessions)
    BY SessionAssumption, FS_Subset DEF TypeOK
  <2>2. Cardinality(sessions) \in Nat
    BY <2>1, FS_CardinalityType
  <2>3. ASSUME NEW s \in Session, Register(s) PROVE CapacityRespected'
    <3>1. sessions' = sessions \cup {s}
      BY <2>3 DEF Register
    <3>2. ~(Cardinality(sessions) >= MaxConcurrent)
      BY <2>3 DEF Register, isAtCapacityLocked
    <3>3. Cardinality(sessions') <= Cardinality(sessions) + 1
      BY <2>1, <2>2, <3>1, FS_AddElement
    <3>4. IsFiniteSet(sessions') /\ Cardinality(sessions') \in Nat
      BY <2>1, <3>1, FS_AddElement, FS_CardinalityType
    <3> QED
      BY <2>2, <3>2, <3>3, <3>4, MaxConcurrentAssumption
      DEF CapacityRespected
  <2>4. ASSUME sessions' \subseteq sessions PROVE CapacityRespected'
    <3>1. /\ Cardinality(sessions') <= Cardinality(sessions)
          /\ IsFiniteSet(sessions')
      BY <2>1, <2>4, FS_Subset
    <3>2. Cardinality(sessions') \in Nat
      BY <3>1, FS_CardinalityType
    <3> QED
      BY <2>2, <3>1, <3>2, MaxConcurrentAssumption DEF CapacityRespected
  <2> QED
    BY <2>3, <2>4, RegistryChange
<1> QED
  BY <1>1, <1>2, TypeCorrect, PTL DEF SafeSpec

-----------------------------------------------------------------------------
(* The other safety properties follow from the invariant *)

\* No console is orphaned: an open one is owned by the Start that opened it or
\* by a registered session, and a failed Start leaves nothing behind.
THEOREM ConsolesOwned == SafeSpec => []ConsoleOwned
<1>1. IInv => ConsoleOwned
  BY DEF IInv, Life, ConsoleOwned, Unregistered
<1> QED
  BY <1>1, Invariance, PTL

\* The registry holds every active session and no closed one.
THEOREM Tracking == SafeSpec => []RegistryTracksSessions
<1>1. IInv => RegistryTracksSessions
  BY DEF IInv, TypeOK, CloseStep, Life, RegistryTracksSessions, Unregistered
<1> QED
  BY <1>1, Invariance, PTL

\* After CloseAll every session it copied is closed to the last step.
THEOREM ShutdownCloses == SafeSpec => []ShutdownClosesSnapshot
<1>1. IInv => ShutdownClosesSnapshot
  BY DEF IInv, TypeOK, Life, Closing, ShutdownClosesSnapshot
<1> QED
  BY <1>1, Invariance, PTL

\* What the six trails of the invariant have in common, and what tells them
\* apart.
LEMMA TrailShapes ==
    ASSUME NEW seq,
           seq \in { <<>>, <<"session_rejected">>, <<"session_started">>,
                    <<"session_ended">>, <<"session_started", "session_ended">>,
                    <<"session_ended", "session_started">> }
    PROVE  /\ \A i, j \in DOMAIN seq : seq[i] = seq[j] => i = j
           /\ Occurs("session_rejected", seq) =>
                 seq = <<"session_rejected">> /\ Len(seq) = 1
           /\ seq # <<>> /\ seq[1] = "session_ended" =>
                 seq \in { <<"session_ended">>,
                          <<"session_ended", "session_started">> }
           /\ seq \in { <<"session_started", "session_ended">>,
                       <<"session_ended", "session_started">> } =>
                 /\ Occurs("session_started", seq)
                 /\ Occurs("session_ended", seq)
<1>1. CASE seq = <<>>
  BY <1>1 DEF Occurs
<1>2. CASE seq = <<"session_rejected">>
  BY <1>2 DEF Occurs
<1>3. CASE seq = <<"session_started">>
  BY <1>3 DEF Occurs
<1>4. CASE seq = <<"session_ended">>
  BY <1>4 DEF Occurs
<1>5. CASE seq = <<"session_started", "session_ended">>
  BY <1>5 DEF Occurs
<1>6. CASE seq = <<"session_ended", "session_started">>
  BY <1>6 DEF Occurs
<1> QED
  BY <1>1, <1>2, <1>3, <1>4, <1>5, <1>6

\* The audit trail of every connection is complete and in order, the races of
\* Start against CloseAll included.
THEOREM AuditTrails == SafeSpec => []AuditTrail
<1>1. IInv => AuditTrail
  <2> SUFFICES ASSUME IInv, NEW s \in Session
               PROVE  /\ \A i, j \in DOMAIN audit[s] :
                            audit[s][i] = audit[s][j] => i = j
                      /\ Occurs("session_rejected", audit[s]) =>
                            Len(audit[s]) = 1 /\ state[s] = "none"
                      /\ audit[s] # <<>> /\ audit[s][1] = "session_ended" =>
                            endReason[s] = "server_shutdown"
                      /\ once[s] = "done" /\ start[s] \notin {"registered"} =>
                            /\ Occurs("session_started", audit[s])
                            /\ Occurs("session_ended", audit[s])
    BY DEF AuditTrail
  <2>1. Life(s) /\ Trail(s) /\ start[s] \in StartStep
    BY DEF IInv, TypeOK
  <2>2. audit[s] \in { <<>>, <<"session_rejected">>, <<"session_started">>,
                      <<"session_ended">>, <<"session_started", "session_ended">>,
                      <<"session_ended", "session_started">> }
    BY <2>1, Zenon DEF Trail
  <2>3. state[s] # "none" => audit[s] # <<"session_rejected">>
    BY <2>1 DEF Trail
  <2>4. audit[s] \in { <<"session_ended">>,
                      <<"session_ended", "session_started">> } =>
           endReason[s] = "server_shutdown"
    <3>1. /\ <<"session_ended">> \notin
                { <<>>, <<"session_rejected">>, <<"session_started">>,
                  <<"session_started", "session_ended">>,
                  <<"session_ended", "session_started">> }
          /\ <<"session_ended", "session_started">> \notin
                { <<>>, <<"session_rejected">>, <<"session_started">>,
                  <<"session_started", "session_ended">> }
      OBVIOUS
    <3>2. CASE state[s] = "none"
      BY <2>1, <3>1, <3>2 DEF Trail
    <3>3. CASE state[s] # "none" /\ start[s] = "registered"
      BY <2>1, <3>1, <3>3 DEF Trail
    <3>4. CASE state[s] # "none" /\ start[s] # "registered"
      BY <2>1, <3>1, <3>4 DEF Trail
    <3> QED
      BY <3>2, <3>3, <3>4
  <2>5. once[s] = "done" /\ start[s] # "registered" =>
           audit[s] \in { <<"session_started", "session_ended">>,
                         <<"session_ended", "session_started">> }
    BY <2>1 DEF Trail, Life
  <2> QED
    BY <2>2, <2>3, <2>4, <2>5, TrailShapes
<1> QED
  BY <1>1, Invariance, PTL

\* An end reason that is fixed stays.
LEMMA ReasonKept ==
    ASSUME IInv, [Next]_vars, NEW s \in Session, endReason[s] # ""
    PROVE  endReason'[s] = endReason[s]
<1>1. once[s] # "free"
  BY DEF IInv, Life
<1> USE <1>1 DEF IInv, TypeOK, closeVars, serverVars, startVars
<1>2. ASSUME NEW t \in Session, StartNext(t) PROVE endReason' = endReason
  BY <1>2 DEF StartNext, StartAtCapacity, StartBelowCapacity, OpenConsole,
     OpenFails, KeepaliveFails, Register, RegisterAtCapacity, AuditStart,
     EnqueueInitial, EnqueueOnClosed, AbortStart, Refuse
<1>3. ASSUME NEW t \in Session, CloseBody(t) PROVE endReason' = endReason
  BY <1>3 DEF CloseBody, CloseBrowser, CloseConsole, CloseDelete,
     CloseState, CloseAudit
<1>4. ASSUME NEW t \in Session, NEW r \in LoopReason, LoopEnds(t, r)
      PROVE  endReason'[s] = endReason[s]
  BY <1>4 DEF LoopEnds, CloseEnter
<1>5. ASSUME NEW t \in Session, CloseAllCloses(t)
      PROVE  endReason'[s] = endReason[s]
  BY <1>5 DEF CloseAllCloses, CloseEnter
<1>6. ASSUME NEW t \in Session, CloseAllJoins(t) \/ CloseAllNext(t)
      PROVE  endReason' = endReason
  BY <1>6 DEF CloseAllJoins, CloseAllNext
<1>7. ASSUME \/ ListenFails \/ CloseAllSnapshot \/ CloseAllReturns
             \/ Exit \/ Exited \/ UNCHANGED vars
      PROVE  endReason' = endReason
  BY <1>7 DEF ListenFails, CloseAllSnapshot, CloseAllReturns, Exit, Exited,
     vars
<1> QED
  BY <1>2, <1>3, <1>4, <1>5, <1>6, <1>7 DEF Next, CloseAllNextStep

\* The end reason, once fixed, is never overwritten by a later closer.
THEOREM ReasonStable == SafeSpec => EndReasonStable
<1>1. IInv /\ [Next]_vars =>
        [\A s \in Session :
           endReason[s] # "" => endReason'[s] = endReason[s]]_endReason
  BY ReasonKept
<1> QED
  BY <1>1, Invariance, PTL DEF SafeSpec, EndReasonStable

-----------------------------------------------------------------------------
(* The registry implements the abstract pool *)

\* A step that leaves the abstract variables alone.
PoolStutters ==
    /\ sessions' = sessions
    /\ endReason' = endReason
    /\ Alive' = Alive

\* Every step of the registry is a step of the pool or invisible there.
LEMMA PoolStep ==
    ASSUME IInv, [Next]_vars
    PROVE  [Pool!Next]_(Pool!vars)
<1> USE DEF closeVars, serverVars, startVars
<1>0. PoolStutters => UNCHANGED Pool!vars
  BY DEF PoolStutters, Pool!vars
<1>1. ASSUME NEW s \in Session, Register(s) PROVE Pool!Admit(s)
  <2>1. s \notin sessions /\ endReason[s] = ""
    BY <1>1 DEF Register, IInv, Life, Unregistered
  <2>2. IsFiniteSet(sessions)
    BY SessionAssumption, FS_Subset DEF IInv, TypeOK
  <2>3. Cardinality(sessions) < MaxConcurrent
    BY <1>1, <2>2, FS_CardinalityType, MaxConcurrentAssumption
    DEF Register, isAtCapacityLocked
  <2>4. Alive /\ Alive' = Alive /\ endReason' = endReason
    BY <1>1 DEF Register, Alive
  <2>5. sessions' = sessions \cup {s}
    BY <1>1 DEF Register
  <2>6. Pool!Cardinality(sessions) = Cardinality(sessions)
    BY DEF Cardinality, Pool!Cardinality
  <2> QED
    BY <2>1, <2>3, <2>4, <2>5, <2>6 DEF Pool!Admit
<1>2. ASSUME NEW s \in Session, StartNext(s), ~Register(s), ~AbortStart(s)
      PROVE  PoolStutters
  BY <1>2 DEF PoolStutters, StartNext, StartAtCapacity, StartBelowCapacity,
     OpenConsole, OpenFails, KeepaliveFails, RegisterAtCapacity, AuditStart,
     EnqueueInitial, EnqueueOnClosed, Refuse, Alive
<1>3. ASSUME NEW s \in Session, AbortStart(s) \/ CloseDelete(s)
      PROVE  Pool!Release(s) \/ PoolStutters
  <2>1. endReason[s] # ""
    BY <1>3 DEF AbortStart, CloseDelete, IInv, Life
  <2>2. CASE s \in sessions
    BY <1>3, <2>1, <2>2 DEF AbortStart, CloseDelete, Pool!Release, Alive
  <2>3. CASE s \notin sessions
    BY <1>3, <2>3 DEF AbortStart, CloseDelete, PoolStutters, Alive
  <2> QED
    BY <2>2, <2>3
<1>4. ASSUME NEW s \in Session, CloseBody(s), ~CloseDelete(s)
      PROVE  PoolStutters
  BY <1>4 DEF PoolStutters, CloseBody, CloseBrowser, CloseConsole, CloseState,
     CloseAudit, Alive
<1>5. ASSUME NEW s \in Session, NEW r \in LoopReason, LoopEnds(s, r)
      PROVE  r \in EndReason /\ Pool!Decide(s, r)
  <2>1. s \in sessions /\ endReason[s] = ""
    BY <1>5 DEF LoopEnds, CloseEnter, IInv, Life
  <2> QED
    BY <1>5, <2>1, LoopReasonAssumption
    DEF LoopEnds, CloseEnter, Pool!Decide, EndReason, Alive
<1>6. ASSUME NEW s \in Session, CloseAllCloses(s)
      PROVE  Pool!Decide(s, "server_shutdown")
  <2>1. state[s] # "none" /\ once[s] = "free"
    BY <1>6 DEF CloseAllCloses, CloseEnter, IInv, TypeOK, Closing
  <2>2. s \in sessions /\ endReason[s] = ""
    BY <2>1 DEF IInv, Life
  <2> QED
    BY <1>6, <2>2 DEF CloseAllCloses, CloseEnter, Pool!Decide, Alive
<1>7. ASSUME NEW s \in Session, CloseAllJoins(s) \/ CloseAllNext(s)
      PROVE  PoolStutters
  BY <1>7 DEF PoolStutters, CloseAllJoins, CloseAllNext, Alive
<1>8. ASSUME CloseAllSnapshot \/ CloseAllReturns \/ UNCHANGED vars \/ Exited
      PROVE  PoolStutters
  BY <1>8 DEF PoolStutters, CloseAllSnapshot, CloseAllReturns, Exited, vars,
     Alive
<1>9. ASSUME ListenFails \/ Exit PROVE Pool!Halt
  BY <1>9 DEF ListenFails, Exit, Pool!Halt, Alive
<1>10. "server_shutdown" \in EndReason
  BY DEF EndReason
<1> QED
  BY <1>0, <1>1, <1>2, <1>3, <1>4, <1>5, <1>6, <1>7, <1>8, <1>9, <1>10
  DEF Next, CloseBody, CloseAllNextStep, Pool!Next

\* Whatever the interleaving of Starts, closers and CloseAll, the registry is a
\* pool: admission within the limit, one verdict, release after the verdict.
THEOREM Refinement == SafeSpec => Pool!SafeSpec
<1>1. Init => Pool!Init
  BY DEF Init, Pool!Init, Alive
<1> QED
  BY <1>1, PoolStep, Invariance, PTL DEF SafeSpec, Pool!SafeSpec

=============================================================================
