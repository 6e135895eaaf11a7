---------------------------- MODULE VMMonUserCall ----------------------------
(***************************************************************************)
(* Cross user calls of vmmon: Vmx86_RunVM and Vmx86_CompleteUserCall of    *)
(* vmcore/moduleloop.c, HostIF_UserCall, UserCallWait, AckUserCall and     *)
(* AwakenVcpu of linux/hostif.c, LinuxDriverPoll and the two ioctls of     *)
(* linux/driver.c.                                                         *)
(*                                                                         *)
(* A virtual processor asks the main thread of its virtual machine, the    *)
(* VMX, to do something: it leaves its request in a page both can see,     *)
(* notes that it waits for the reply, counts the call and wakes the VMX,   *)
(* which sleeps in poll.  The VMX acknowledges the call (the count goes    *)
(* down), and completes it (the processor goes on).  The processors hold   *)
(* no lock; the ioctls of the VMX hold one that no processor takes.        *)
(***************************************************************************)
EXTENDS Integers, FiniteSets

CONSTANTS
  Vcpus, NoVcpu,
  SeesAnnounced     \* environment: the VMX does not act on a request before the
                    \* processor has noted that it waits for the reply

ASSUME UserCallAssumption ==
         IsFiniteSet(Vcpus) /\ NoVcpu \notin Vcpus /\ SeesAnnounced \in BOOLEAN

VARIABLES
  userCallRequest,  \* SUBSET Vcpus: those with a request in the shared page
  userCallRestart,  \* SUBSET Vcpus: the monitor has seen the call time out
  replyWaiting,     \* SUBSET Vcpus
  pendingUserCalls, \* Int
  replyQueue,       \* SUBSET Vcpus: those in their own wait queue
  interruptible,    \* SUBSET Vcpus: those whose task is not running, or about not to
  pc,               \* [Vcpus -> ...]
  vmx               \* see Vmx

userCallVars == <<userCallRequest, userCallRestart, replyWaiting, pendingUserCalls,
                  replyQueue, interruptible, pc, vmx>>
shared == <<userCallRequest, userCallRestart, replyWaiting, pendingUserCalls>>
sleeping == <<replyQueue, interruptible>>

-----------------------------------------------------------------------------
\* reply, count, wake: HostIF_UserCall; wait ... leave: HostIF_UserCallWait.
VcpuPC == {"monitor", "reply", "count", "wake",
           "wait", "join", "recheck", "asleep", "leave", "return"}

\* check, asleep: in poll; ack, awaken, wake: an ioctl about vcpu, which ends
\* after ack when it is ACK_USER_CALL; woken: by the queue poll has joined;
\* acked: the calls it has acknowledged and not completed.
Vmx == [pc : {"user", "check", "asleep", "ack", "awaken", "wake"},
        vcpu : Vcpus \cup {NoVcpu},
        only : BOOLEAN,
        woken : BOOLEAN,
        acked : SUBSET Vcpus]

UserCallTypeOK ==
  /\ userCallRequest \subseteq Vcpus /\ userCallRestart \subseteq Vcpus
  /\ replyWaiting \subseteq Vcpus /\ pendingUserCalls \in Int
  /\ replyQueue \subseteq Vcpus /\ interruptible \subseteq Vcpus
  /\ pc \in [Vcpus -> VcpuPC]
  /\ vmx \in Vmx

UserCallInit ==
  /\ userCallRequest = {} /\ userCallRestart = {} /\ replyWaiting = {}
  /\ pendingUserCalls = 0
  /\ replyQueue = {} /\ interruptible = {}
  /\ pc = [v \in Vcpus |-> "monitor"]
  /\ vmx = [pc |-> "user", vcpu |-> NoVcpu, only |-> FALSE, woken |-> FALSE,
            acked |-> {}]

GoTo(v, l) == pc' = [pc EXCEPT ![v] = l]

-----------------------------------------------------------------------------
\* A processor.

\* The monitor makes a call the VMX has to answer.
Request(v) ==
  /\ pc[v] = "monitor" /\ v \notin userCallRestart
  /\ userCallRequest' = userCallRequest \cup {v}
  /\ GoTo(v, "reply")
  /\ UNCHANGED <<userCallRestart, replyWaiting, pendingUserCalls, sleeping, vmx>>

\* ... or goes on waiting for one it has made.
Restart(v) ==
  /\ pc[v] = "monitor" /\ v \in userCallRestart
  /\ GoTo(v, "wait")
  /\ UNCHANGED <<shared, sleeping, vmx>>

NoteReply(v) ==
  /\ pc[v] = "reply"
  /\ replyWaiting' = replyWaiting \cup {v}
  /\ GoTo(v, "count")
  /\ UNCHANGED <<userCallRequest, userCallRestart, pendingUserCalls, sleeping, vmx>>

CountCall(v) ==
  /\ pc[v] = "count"
  /\ pendingUserCalls' = pendingUserCalls + 1
  /\ GoTo(v, "wake")
  /\ UNCHANGED <<userCallRequest, userCallRestart, replyWaiting, sleeping, vmx>>

\* Mutant: the VMX finds out by itself.
WakeVmxNot(v) ==
  /\ pc[v] = "wake"
  /\ GoTo(v, "wait")
  /\ UNCHANGED <<shared, sleeping, vmx>>

\* wake_up(&callQueue) finds the VMX when it is in poll.
WakeVmx(v) ==
  /\ pc[v] = "wake"
  /\ vmx' = [vmx EXCEPT !.woken = vmx.pc \in {"check", "asleep"}]
  /\ GoTo(v, "wait")
  /\ UNCHANGED <<shared, sleeping>>

WaitOrNot(v) ==
  /\ pc[v] = "wait"
  /\ GoTo(v, IF v \in replyWaiting THEN "join" ELSE "return")
  /\ UNCHANGED <<shared, sleeping, vmx>>

\* The state of the task is set before it joins the queue, and what it waits
\* for is looked at after.
JoinQueue(v) ==
  /\ pc[v] = "join"
  /\ interruptible' = interruptible \cup {v}
  /\ replyQueue' = replyQueue \cup {v}
  /\ GoTo(v, "recheck")
  /\ UNCHANGED <<shared, vmx>>

\* Mutant: the processor sleeps without looking again.
RecheckNot(v) ==
  /\ pc[v] = "recheck"
  /\ GoTo(v, "asleep")
  /\ UNCHANGED <<shared, sleeping, vmx>>

Recheck(v) ==
  /\ pc[v] = "recheck"
  /\ GoTo(v, IF v \in replyWaiting THEN "asleep" ELSE "leave")
  /\ UNCHANGED <<shared, sleeping, vmx>>

\* The task is woken; or the time is over, or a signal comes.
Wakened(v) ==
  /\ pc[v] = "asleep" /\ v \notin interruptible
  /\ GoTo(v, "leave")
  /\ UNCHANGED <<shared, sleeping, vmx>>

TimesOut(v) ==
  /\ pc[v] = "asleep" /\ v \in interruptible
  /\ GoTo(v, "leave")
  /\ UNCHANGED <<shared, sleeping, vmx>>

LeaveQueue(v) ==
  /\ pc[v] = "leave"
  /\ interruptible' = interruptible \ {v}
  /\ replyQueue' = replyQueue \ {v}
  /\ GoTo(v, "return")
  /\ UNCHANGED <<shared, vmx>>

\* The call has been completed and no signal is pending: back to the monitor.
Answered(v) ==
  /\ pc[v] = "return" /\ v \notin replyWaiting
  /\ userCallRestart' = userCallRestart \ {v}
  /\ GoTo(v, "monitor")
  /\ UNCHANGED <<userCallRequest, replyWaiting, pendingUserCalls, sleeping, vmx>>

\* MODULECALL_USERTIMEOUT: the call is not completed, or a signal is pending,
\* which the thread takes before it is here again.
Unanswered(v) ==
  /\ pc[v] = "return"
  /\ userCallRestart' = userCallRestart \cup {v}
  /\ GoTo(v, "monitor")
  /\ UNCHANGED <<userCallRequest, replyWaiting, pendingUserCalls, sleeping, vmx>>

-----------------------------------------------------------------------------
\* The VMX.

\* poll joins the queue of calls, then reads their number.
PollJoins ==
  /\ vmx.pc = "user"
  /\ vmx' = [vmx EXCEPT !.pc = "check", !.woken = FALSE]
  /\ UNCHANGED <<shared, sleeping, pc>>

PollChecks ==
  /\ vmx.pc = "check"
  /\ vmx' = [vmx EXCEPT !.pc = IF pendingUserCalls > 0 THEN "user" ELSE "asleep"]
  /\ UNCHANGED <<shared, sleeping, pc>>

PollWakes ==
  /\ vmx.pc = "asleep" /\ vmx.woken
  /\ vmx' = [vmx EXCEPT !.pc = "check", !.woken = FALSE]
  /\ UNCHANGED <<shared, sleeping, pc>>

\* Another of the files the VMX polls is ready, or its own time is over.
PollReturns ==
  /\ vmx.pc = "asleep"
  /\ vmx' = [vmx EXCEPT !.pc = "user"]
  /\ UNCHANGED <<shared, sleeping, pc>>

\* The VMX may look at the requests at any time.
Seen(v) == /\ v \in userCallRequest
           /\ SeesAnnounced => pc[v] # "reply"

\* It takes a request away and acknowledges it ...
Acknowledge(v) ==
  /\ vmx.pc = "user" /\ Seen(v)
  /\ userCallRequest' = userCallRequest \ {v}
  /\ vmx' = [vmx EXCEPT !.pc = "ack", !.vcpu = v, !.only = TRUE, !.acked = @ \cup {v}]
  /\ UNCHANGED <<userCallRestart, replyWaiting, pendingUserCalls, sleeping, pc>>

\* Mutant: a call that was acknowledged is acknowledged again.
CompleteAcks(v) ==
  /\ vmx.pc = "user" /\ (Seen(v) \/ v \in vmx.acked)
  /\ userCallRequest' = userCallRequest \ {v}
  /\ vmx' = [vmx EXCEPT !.pc = "ack", !.vcpu = v, !.only = FALSE, !.acked = @ \ {v}]
  /\ UNCHANGED <<userCallRestart, replyWaiting, pendingUserCalls, sleeping, pc>>

\* Mutant: the request stays in the page.
CompleteLeavesRequest(v) ==
  /\ vmx.pc = "user" /\ (Seen(v) \/ v \in vmx.acked)
  /\ vmx' = [vmx EXCEPT !.pc = IF v \in userCallRequest THEN "ack" ELSE "awaken",
                        !.vcpu = v, !.only = FALSE, !.acked = @ \ {v}]
  /\ UNCHANGED <<userCallRequest, userCallRestart, replyWaiting, pendingUserCalls, sleeping, pc>>

\* ... or completes a call: Vmx86_CompleteUserCall acknowledges what is not.
Complete(v) ==
  /\ vmx.pc = "user" /\ (Seen(v) \/ v \in vmx.acked)
  /\ userCallRequest' = userCallRequest \ {v}
  /\ vmx' = [vmx EXCEPT !.pc = IF v \in userCallRequest THEN "ack" ELSE "awaken",
                        !.vcpu = v, !.only = FALSE, !.acked = @ \ {v}]
  /\ UNCHANGED <<userCallRestart, replyWaiting, pendingUserCalls, sleeping, pc>>

AckUserCall ==
  /\ vmx.pc = "ack"
  /\ pendingUserCalls' = pendingUserCalls - 1
  /\ vmx' = [vmx EXCEPT !.pc = IF vmx.only THEN "user" ELSE "awaken",
                        !.vcpu = IF vmx.only THEN NoVcpu ELSE @]
  /\ UNCHANGED <<userCallRequest, userCallRestart, replyWaiting, sleeping, pc>>

AwakenVcpu ==
  /\ vmx.pc = "awaken"
  /\ replyWaiting' = replyWaiting \ {vmx.vcpu}
  /\ vmx' = [vmx EXCEPT !.pc = "wake"]
  /\ UNCHANGED <<userCallRequest, userCallRestart, pendingUserCalls, sleeping, pc>>

\* wake_up(&replyQueue[vcpuid]).
WakeVcpu ==
  /\ vmx.pc = "wake"
  /\ interruptible' = interruptible \ (replyQueue \cap {vmx.vcpu})
  /\ vmx' = [vmx EXCEPT !.pc = "user", !.vcpu = NoVcpu]
  /\ UNCHANGED <<shared, replyQueue, pc>>

-----------------------------------------------------------------------------
Calls(v) == Request(v) \/ Restart(v) \/ NoteReply(v) \/ CountCall(v) \/ WakeVmx(v)
Waits(v) == WaitOrNot(v) \/ JoinQueue(v) \/ Recheck(v) \/ Wakened(v) \/ TimesOut(v)
            \/ LeaveQueue(v)
Polls == PollJoins \/ PollChecks \/ PollWakes
Finishes == AckUserCall \/ AwakenVcpu \/ WakeVcpu

UserCallNext ==
  \/ \E v \in Vcpus : Calls(v) \/ Waits(v) \/ Answered(v) \/ Unanswered(v)
  \/ \E v \in Vcpus : Acknowledge(v) \/ Complete(v)
  \/ Polls \/ PollReturns \/ Finishes

UserCallSpec == UserCallInit /\ [][UserCallNext]_userCallVars

\* The threads run.  Signals do not come for ever, so a processor that keeps
\* finding its call completed once finds no signal either.  The VMX completes
\* what it can although it polls in between, and what it has acknowledged is
\* done some day, which ends its poll; a call it has not seen does not.
UserCallFairness ==
  /\ WF_userCallVars(Polls) /\ WF_userCallVars(Finishes)
  /\ WF_userCallVars(vmx.acked # {} /\ PollReturns)
  /\ \A v \in Vcpus : /\ WF_userCallVars(NoteReply(v) \/ CountCall(v) \/ WakeVmx(v))
                      /\ WF_userCallVars(Restart(v)) /\ WF_userCallVars(Waits(v))
                      /\ WF_userCallVars(Unanswered(v))
                      /\ SF_userCallVars(Answered(v)) /\ SF_userCallVars(Complete(v))

UserCallFairSpec == UserCallSpec /\ UserCallFairness

-----------------------------------------------------------------------------
(* Properties *)

\* What poll reads is the number of calls that have been counted and not
\* acknowledged, whichever of the two ways the VMX answers them, and whether
\* it does so before or after the processor counts them.
PendingCountsCalls ==
  pendingUserCalls = Cardinality(userCallRequest)
                       - Cardinality({v \in Vcpus : pc[v] \in {"reply", "count"}})
                       + (IF vmx.pc = "ack" THEN 1 ELSE 0)

\* No wakeup is lost: a processor asleep has not been answered, and the VMX
\* asleep has no call to answer; or the one who wakes it is about to.
WakeupsAreNotLost ==
  /\ \A v \in Vcpus : pc[v] = "asleep" /\ v \in interruptible
                      => v \in replyWaiting \/ (vmx.pc = "wake" /\ vmx.vcpu = v)
  /\ vmx.pc = "asleep" /\ ~vmx.woken /\ userCallRequest # {}
     => \E v \in Vcpus : pc[v] \in {"reply", "count", "wake"}

\* The assertion of HostIF_AwakenVcpu: the processor whose call is completed
\* waits for the reply.
RepliesAreAwaited == vmx.pc = "awaken" => vmx.vcpu \in replyWaiting

\* The assertions of Vmx86_RunVM and HostIF_UserCall: the last call of a
\* processor is over, in every respect, when it makes another.
CallsDoNotOverlap ==
  \A v \in Vcpus : pc[v] = "monitor" /\ v \notin userCallRestart
                   => v \notin userCallRequest \cup replyWaiting \cup vmx.acked

\* The assertions of Vmx86_RunVM, HostIF_UserCall and HostIF_AwakenVcpu, the two
\* sides of one exchange: no call is answered before it waits for the answer,
\* and none is made before the last one is over for both.
AssertionsHold == RepliesAreAwaited /\ CallsDoNotOverlap

\* A processor that makes a call gets on: it returns to the monitor with the
\* call completed.
CallsReturn ==
  \A v \in Vcpus : pc[v] = "reply" ~> (pc[v] = "monitor" /\ v \notin userCallRestart)

\* The calls are those of UserCalls: answered once, by the VMX and by nothing
\* else that wakes the processor, and every one of them.
Status == [v \in Vcpus |->
             IF pc[v] = "monitor" /\ v \notin userCallRestart THEN "running"
             ELSE IF pc[v] = "reply" \/ v \in replyWaiting THEN "calling"
             ELSE "answered"]

UC == INSTANCE UserCalls WITH status <- Status

ImplementsUserCalls == UC!Spec
=============================================================================
