---------------------------- MODULE AsyncLimiter ----------------------------
(***************************************************************************)
(* AsyncLimiter (backend/src/push/async-limiter.ts): the gate in front of  *)
(* dispatchChatMessagePush.  Calls is the set of concurrent calls of run.  *)
(* JavaScript runs one piece of code at a time, so an action is what runs  *)
(* between two awaits.  Resolving a waiter does not run it: its            *)
(* continuation is put on the microtask queue, behind the jobs that are    *)
(* already there, and any of those may call run.                           *)
(***************************************************************************)
EXTENDS Integers, Sequences, FiniteSets

CONSTANTS Calls,    \* concurrent calls of run
          Limit     \* constructor argument; 2 for the chat pushes

ASSUME LimitAssumption == Limit \in Nat \ {0}

VARIABLES active,   \* this.active
          waiting,  \* this.waiting, the parked calls, oldest first
          resumed,  \* calls whose promise is resolved, in microtask order
          pc        \* where each call is

limiterVars == <<active, waiting, resumed, pc>>

LimiterTypeOK == /\ active \in Nat
                 /\ waiting \in Seq(Calls)
                 /\ resumed \in Seq(Calls)
                 /\ pc \in [Calls -> {"idle", "waiting", "resumed", "running"}]

LimiterInit == /\ active = 0
               /\ waiting = <<>>
               /\ resumed = <<>>
               /\ pc = [c \in Calls |-> "idle"]

\* run: no slot is free, the call parks itself.
Park(c) == /\ pc[c] = "idle"
           /\ active >= Limit
           /\ waiting' = Append(waiting, c)
           /\ pc' = [pc EXCEPT ![c] = "waiting"]
           /\ UNCHANGED <<active, resumed>>

\* run: a slot is free, the task starts at once.
Enter(c) == /\ pc[c] = "idle"
            /\ active < Limit
            /\ active' = active + 1
            /\ pc' = [pc EXCEPT ![c] = "running"]
            /\ UNCHANGED <<waiting, resumed>>

\* The microtask of the oldest resolved waiter: it takes its slot only now.
Resume == /\ resumed # <<>>
          /\ active' = active + 1
          /\ resumed' = Tail(resumed)
          /\ pc' = [pc EXCEPT ![Head(resumed)] = "running"]
          /\ UNCHANGED waiting

\* Mutant of Release: the error path gives the slot back but wakes nobody.
ReleaseWithoutWake(c) == /\ pc[c] = "running"
                         /\ active' = active - 1
                         /\ pc' = [pc EXCEPT ![c] = "idle"]
                         /\ UNCHANGED <<waiting, resumed>>

\* The finally block, after the task succeeded or threw.
Release(c) == /\ pc[c] = "running"
              /\ active' = active - 1
              /\ IF waiting = <<>>
                 THEN /\ pc' = [pc EXCEPT ![c] = "idle"]
                      /\ UNCHANGED <<waiting, resumed>>
                 ELSE /\ waiting' = Tail(waiting)
                      /\ resumed' = Append(resumed, Head(waiting))
                      /\ pc' = [pc EXCEPT ![c] = "idle",
                                          ![Head(waiting)] = "resumed"]

LimiterNext == \/ \E c \in Calls : Park(c) \/ Enter(c) \/ Release(c)
               \/ Resume

\* Microtasks always run, and a push dispatch ends: every web-push request
\* and query it awaits settles.  New calls are never promised.
Fairness == /\ WF_limiterVars(Resume)
            /\ \A c \in Calls : WF_limiterVars(Release(c))

LimiterSpec == LimiterInit /\ [][LimiterNext]_limiterVars /\ Fairness

-----------------------------------------------------------------------------
Running == {c \in Calls : pc[c] = "running"}

\* active counts exactly the tasks that run: no early return, error or
\* barging call makes the counter drift away from the tasks.
ActiveCountsRunning == active = Cardinality(Running)

\* No slot is ever lost: while a call is parked, every slot is in use or is on
\* its way to a call that has been resolved.
NoLostSlot == waiting # <<>> => active + Len(resumed) >= Limit

\* A call that was parked runs eventually, whatever calls keep arriving.
ParkedCallRuns == \A c \in Calls : pc[c] = "waiting" ~> pc[c] = "running"

=============================================================================
