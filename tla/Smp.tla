-------------------------------- MODULE Smp --------------------------------
(***************************************************************************)
(* Waking the application processors: start_cores, prepare_slot and        *)
(* wait_for_ack of crates/kernel/src/smp.rs on the boot processor, and on  *)
(* each woken core the trampoline (crates/arch-x86_64/src/trampoline.rs)   *)
(* and ap_entry.  All cores share one parameter block in the trampoline's  *)
(* page, and each instruction that reads or writes it is a step.           *)
(***************************************************************************)
EXTENDS Integers, FiniteSets

CONSTANTS N   \* the application processors the loop does not skip

ASSUME NAssumption == N \in Nat \ {0}

VARIABLES
  prompt,     \* whether every message is accepted and answered in time
  bsp,        \* what the boot processor is about to do; "reset": the machine has reset
  target,     \* the core it is waking
  mapped,     \* whether the trampoline's page is identity-mapped
  block,      \* the parameter block: STACK_TOP, CPU_ID and ACK
  woken,      \* how many acknowledgements the boot processor has counted
  answered,   \* history: the cores it counted them for
  pc,         \* where each application processor is
  rsp,        \* the stack it has loaded
  rdi,        \* the id it has loaded
  ONLINE,     \* how many cores have reached ap_entry, with the boot processor
  ROLL_CALL   \* the sum they have contributed to

bspVars == <<prompt, bsp, target, woken, answered>>
vars == <<prompt, bsp, target, mapped, block, woken, answered, pc, rsp, rdi, ONLINE, ROLL_CALL>>

AP == 1 .. N

(* The stack prepared for a core is named by the core; 0 is none. *)
TypeOK ==
  /\ prompt \in BOOLEAN
  /\ bsp \in {"stage", "stack", "id", "clear", "init", "sipi1", "sipi2", "ack", "unmap", "done",
             "reset"}
  /\ target \in 1 .. N + 1
  /\ mapped \in BOOLEAN
  /\ block \in [STACK_TOP : 0 .. N, CPU_ID : 0 .. N, ACK : 0 .. 1]
  /\ woken \in 0 .. N
  /\ answered \subseteq AP
  /\ pc \in [AP -> {"off", "init", "real", "long", "stacked", "acked", "named",
                    "entered", "called", "parked", "reset"}]
  /\ rsp \in [AP -> 0 .. N]
  /\ rdi \in [AP -> 0 .. N]
  /\ ONLINE \in 1 .. N + 1
  /\ ROLL_CALL \in Nat

Init ==
  /\ prompt \in BOOLEAN
  /\ bsp = "stage"
  /\ target = 1
  /\ mapped = FALSE
  /\ block = [STACK_TOP |-> 0, CPU_ID |-> 0, ACK |-> 0]
  /\ woken = 0
  /\ answered = {}
  /\ pc = [c \in AP |-> "off"]
  /\ rsp = [c \in AP |-> 0]
  /\ rdi = [c \in AP |-> 0]
  /\ ONLINE = 1
  /\ ROLL_CALL = 0

apVars == <<pc, rsp, rdi, ONLINE, ROLL_CALL>>

-----------------------------------------------------------------------------
(* The boot processor *)

(* stage_trampoline.  When it cannot map its page, or start_cores the local *)
(* APIC after it, no core is woken.                                         *)
stage_trampoline ==
  /\ bsp = "stage"
  /\ \/ bsp' = "stack" /\ mapped' = TRUE
     \/ bsp' = "done" /\ mapped' \in BOOLEAN
  /\ block' = [block EXCEPT !.ACK = 0]
  /\ UNCHANGED <<prompt, target, woken, answered, apVars>>

(* prepare_slot, one volatile write after the other.  alloc_ap_stack finds *)
(* frames, or the code stores 0.                                           *)
prepare_stack_MutantReuses ==
  /\ bsp = "stack"
  /\ block' = [block EXCEPT !.STACK_TOP = 1]
  /\ bsp' = "id"
  /\ UNCHANGED <<prompt, target, mapped, woken, answered, apVars>>

prepare_stack ==
  /\ bsp = "stack"
  /\ \E top \in {target, 0} : block' = [block EXCEPT !.STACK_TOP = top]
  /\ bsp' = "id"
  /\ UNCHANGED <<prompt, target, mapped, woken, answered, apVars>>

prepare_id ==
  /\ bsp = "id"
  /\ block' = [block EXCEPT !.CPU_ID = target]
  /\ bsp' = "clear"
  /\ UNCHANGED <<prompt, target, mapped, woken, answered, apVars>>

prepare_ack_MutantKeepsIt ==
  /\ bsp = "clear"
  /\ bsp' = "init"
  /\ UNCHANGED <<prompt, target, mapped, block, woken, answered, apVars>>

prepare_ack ==
  /\ bsp = "clear"
  /\ block' = [block EXCEPT !.ACK = 0]
  /\ bsp' = "init"
  /\ UNCHANGED <<prompt, target, mapped, woken, answered, apVars>>

prepare_slot == prepare_stack \/ prepare_id \/ prepare_ack

(* On to the next core, or, after the last, to the end of start_cores. *)
NextTarget ==
  /\ target' = target + 1
  /\ bsp' = IF target = N THEN "unmap" ELSE "stack"

(* send_init, send_init_deassert and the two send_startup.  A core takes a *)
(* message or, unless it is prompt, misses it; a command that is not       *)
(* accepted before its deadline ends the attempt, taken or not.            *)
Send(from, to, before, after) ==
  /\ bsp = from
  /\ \/ bsp' = to /\ UNCHANGED target
     \/ ~ prompt /\ NextTarget
  /\ \/ pc[target] = before /\ pc' = [pc EXCEPT ![target] = after]
     \/ (~ prompt \/ pc[target] # before) /\ UNCHANGED pc
  /\ UNCHANGED <<prompt, mapped, block, woken, answered, rsp, rdi, ONLINE, ROLL_CALL>>

send_init == Send("init", "sipi1", "off", "init")
send_startup == Send("sipi1", "sipi2", "init", "real") \/ Send("sipi2", "ack", "init", "real")

(* wait_for_ack, which the deadline ends without an answer. *)
wait_for_ack_MutantNoDeadline ==
  /\ bsp = "ack"
  /\ block.ACK # 0
  /\ woken' = woken + 1
  /\ answered' = answered \cup {target}
  /\ NextTarget
  /\ UNCHANGED <<prompt, mapped, block, apVars>>

wait_for_ack ==
  /\ bsp = "ack"
  /\ \/ /\ block.ACK # 0
        /\ woken' = woken + 1
        /\ answered' = answered \cup {target}
     \/ /\ ~ prompt
        /\ UNCHANGED <<woken, answered>>
  /\ NextTarget
  /\ UNCHANGED <<prompt, mapped, block, apVars>>

unmap_identity ==
  /\ bsp = "unmap"
  /\ mapped' = FALSE
  /\ bsp' = "done"
  /\ UNCHANGED <<prompt, target, block, woken, answered, apVars>>

BootProcessor ==
  \/ stage_trampoline \/ prepare_slot
  \/ send_init \/ send_startup
  \/ wait_for_ack \/ unmap_identity

-----------------------------------------------------------------------------
(* An application processor.  A fault on it is a triple fault, there being *)
(* no IDT, and resets the machine with every core on it: nothing of this   *)
(* boot goes on.                                                           *)

At(c, from, to) ==
  /\ pc[c] = from /\ bsp # "reset"
  /\ pc' = [pc EXCEPT ![c] = to]

Reset(c) ==
  /\ At(c, pc[c], "reset")
  /\ bsp' = "reset"
  /\ UNCHANGED <<prompt, target, mapped, block, woken, answered, rsp, rdi, ONLINE, ROLL_CALL>>

(* trampoline_start to long_mode. *)
EnterLongMode(c) ==
  /\ At(c, "real", "long")
  /\ UNCHANGED <<bspVars, mapped, block, rsp, rdi, ONLINE, ROLL_CALL>>

(* mov rsp, [STACK_TOP] *)
LoadStack(c) ==
  /\ At(c, "long", "stacked")
  /\ rsp' = [rsp EXCEPT ![c] = block.STACK_TOP]
  /\ UNCHANGED <<bspVars, mapped, block, rdi, ONLINE, ROLL_CALL>>

(* mov qword ptr [ACK], 1 *)
Acknowledge(c) ==
  /\ At(c, "stacked", "acked")
  /\ block' = [block EXCEPT !.ACK = 1]
  /\ UNCHANGED <<bspVars, mapped, rsp, rdi, ONLINE, ROLL_CALL>>

(* mov rdi, [CPU_ID] *)
LoadId(c) ==
  /\ At(c, "acked", "named")
  /\ rdi' = [rdi EXCEPT ![c] = block.CPU_ID]
  /\ UNCHANGED <<bspVars, mapped, block, rsp, ONLINE, ROLL_CALL>>

(* mov rax, [ENTRY]; call rax: the push faults on a stack at 0. *)
CallEntry(c) ==
  \/ /\ rsp[c] # 0
     /\ At(c, "named", "entered")
     /\ UNCHANGED <<bspVars, mapped, block, rsp, rdi, ONLINE, ROLL_CALL>>
  \/ /\ rsp[c] = 0 /\ pc[c] = "named"
     /\ Reset(c)

(* ap_entry: the roll call, the count, and the halt for good. *)
CallRoll(c) ==
  /\ At(c, "entered", "called")
  /\ ROLL_CALL' = ROLL_CALL + rdi[c] + 1
  /\ UNCHANGED <<bspVars, mapped, block, rsp, rdi, ONLINE>>

GoOnline(c) ==
  /\ At(c, "called", "parked")
  /\ ONLINE' = ONLINE + 1
  /\ UNCHANGED <<bspVars, mapped, block, rsp, rdi, ROLL_CALL>>

(* Where the core fetches from the identity-mapped page with paging on. *)
OnThePage == {"long", "stacked", "acked", "named"}

(* Without the mapping a fetch that misses the TLB faults. *)
TripleFault(c) ==
  /\ pc[c] \in OnThePage
  /\ ~ mapped
  /\ Reset(c)

ApplicationProcessor(c) ==
  \/ EnterLongMode(c) \/ LoadStack(c) \/ Acknowledge(c) \/ LoadId(c) \/ CallEntry(c)
  \/ CallRoll(c) \/ GoOnline(c)
  \/ TripleFault(c)

Next == BootProcessor \/ \E c \in AP : ApplicationProcessor(c)

Spec == Init /\ [][Next]_vars

(* The boot processor goes on executing, and a prompt core answers it. *)
Fairness ==
  /\ WF_vars(BootProcessor)
  /\ prompt => \A c \in AP : WF_vars(ApplicationProcessor(c))

FairSpec == Spec /\ Fairness

-----------------------------------------------------------------------------
(* Properties *)

Acked == {c \in AP : pc[c] \notin {"off", "init", "real", "long", "stacked"}}

(* What the boot processor reports as woken is never more than the cores    *)
(* that reached 64-bit code, however late their answers come and whichever  *)
(* core's wait they end.                                                    *)
WokenAnswered == woken <= Cardinality(Acked)

(* When every core answers in time, each core that reaches kernel code runs *)
(* on the stack allocated for it, and so no two share one.                  *)
OwnStack == prompt => \A c \in Acked : rsp[c] \in {c, 0}

(* The boot processor never waits for good, not even for a core that never  *)
(* answers: wait_for_ack and every message have a deadline, so start_cores  *)
(* returns, unless a triple fault on a woken core resets the machine first. *)
BringUpEnds == <>(bsp \in {"done", "reset"})

(* The roll call (smp.rs:73): "every core adds its own id, and the boot      *)
(* processor checks the total", which needs the block to stay as it is until *)
(* the core has read it (smp.rs:295): "no core may be using the block: cores *)
(* are woken one at a time, which is what makes that true".  Asked of cores  *)
(* that all answer in time.                                                  *)
AddsItsOwnId ==
  prompt => \A c \in AP : pc[c] \in {"named", "entered", "called", "parked"} => rdi[c] = c

(* The argument for unmap_identity (smp.rs:278): "every core that            *)
(* acknowledged is past the trampoline and running on the kernel's own       *)
(* addresses; a core that never answered is not executing".                  *)
NobodyOnThePage == bsp = "unmap" => \A c \in AP : pc[c] \notin OnThePage

=============================================================================
