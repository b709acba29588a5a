---------------------------- MODULE SessionPool ----------------------------
(***************************************************************************)
(* What the session registry promises, without saying how: at most         *)
(* MaxConcurrent sessions live at a time, a session is admitted at most    *)
(* once, it gets one end reason that never changes, and it leaves the pool *)
(* only after that reason is fixed.  Registry and Session implement this.  *)
(***************************************************************************)
EXTENDS Naturals, FiniteSets

CONSTANTS Session,        \* identities of sessions
          MaxConcurrent,  \* how many may live at a time
          Reason          \* the reasons a session may end with

VARIABLES up,       \* is the gateway process running?
          live,     \* the sessions in the pool
          verdict   \* the end reason of each session, "" while undecided

vars == <<up, live, verdict>>

Init ==
    /\ up = TRUE
    /\ live = {}
    /\ verdict = [s \in Session |-> ""]

\* A session joins the pool if there is room.
Admit(s) ==
    /\ up
    /\ s \notin live
    /\ verdict[s] = ""
    /\ Cardinality(live) < MaxConcurrent
    /\ live' = live \cup {s}
    /\ UNCHANGED <<up, verdict>>

\* The end of a live session is decided, once.
Decide(s, r) ==
    /\ up
    /\ s \in live
    /\ verdict[s] = ""
    /\ verdict' = [verdict EXCEPT ![s] = r]
    /\ UNCHANGED <<up, live>>

\* A session whose end is decided leaves the pool.
Release(s) ==
    /\ up
    /\ s \in live
    /\ verdict[s] # ""
    /\ live' = live \ {s}
    /\ UNCHANGED <<up, verdict>>

\* The process exits, with whatever is left in the pool.
Halt ==
    /\ up
    /\ up' = FALSE
    /\ UNCHANGED <<live, verdict>>

Next ==
    \/ \E s \in Session :
          \/ Admit(s)
          \/ \E r \in Reason : Decide(s, r)
          \/ Release(s)
    \/ Halt

\* The safety part of the promise.
SafeSpec == Init /\ [][Next]_vars

\* A session whose end is decided does leave, unless the process exits first.
Spec == SafeSpec /\ \A s \in Session : WF_vars(Release(s))

=============================================================================
