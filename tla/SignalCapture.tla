---------------------------- MODULE SignalCapture ----------------------------
(***************************************************************************)
(* Fatal signals of a Linux process (arch/linux/linux.c): configuration,   *)
(* installation signal by signal with roll back, and the handler, which    *)
(* writes one record to a pipe and ends the process.  Any thread can fault *)
(* at any time, also while another one is in the handler or installs it.   *)
(***************************************************************************)
EXTENDS Integers, Sequences

CONSTANTS
    Thread,
    Signals,            \* number of handled signals, 5
    PipeCapacity,       \* records that fit the pipe
    MayOverflow,        \* a fault can be a stack that is used up
    ByContract,         \* linux.h: no signal during setup, and every thread has its stack
    MaxCalls            \* bound: calls of install and uninstall

SignalCaptureAssumption ==
    /\ {Signals, PipeCapacity} \subseteq Nat \ {0}
    /\ {MayOverflow, ByContract} \subseteq BOOLEAN /\ MaxCalls \in Nat

Signal == 1..Signals

(* Descriptors a caller can pass: a nonblocking pipe is the right one. *)
Descriptor == {"fifo", "blocking", "file"}

VARIABLES
    descriptor,         \* configured_record_fd
    installed,          \* handlers_installed
    alternate,          \* threads with an alternate stack
    action,             \* what the kernel does on a signal
    previous,           \* what install replaced
    original,           \* history: what the application had
    pc,                 \* install or uninstall in progress
    next,               \* the signal it is at
    calls,
    handler,            \* where each thread is in signal_handler
    pipe,               \* records: whole or a part
    status,             \* of the process
    covered             \* history: a thread with a stack took a handled signal

config == <<descriptor, installed, alternate>>
setup == <<previous, original, pc, next, calls>>
process == <<handler, pipe, status, covered>>
vars == <<config, action, setup, process>>

(* The application may have a handler of its own, and another process may   *)
(* have filled the pipe.                                                    *)
Init == /\ descriptor = "none"
        /\ installed = FALSE
        /\ alternate = {}
        /\ action \in [Signal -> {"default", "application"}]
        /\ original = action
        /\ previous = [s \in Signal |-> "default"]
        /\ pc = "idle"
        /\ next = 1
        /\ calls = 0
        /\ handler = [t \in Thread |-> "out"]
        /\ pipe \in {<<>>, [i \in 1..PipeCapacity |-> "whole"]}
        /\ status = "running"
        /\ covered = FALSE

Running == status = "running"

-----------------------------------------------------------------------------
ls_linux_signal_register_alt_stack(t) ==
    /\ Running
    /\ handler[t] = "out"
    /\ alternate' = alternate \cup {t}
    /\ UNCHANGED <<descriptor, installed, action, setup, process>>

(* Fault: whether it is a pipe is not asked. *)
Acceptable_AnyKind(d) == d # "blocking"

(* ls_linux_signal_configure takes a pipe that does not block. *)
Acceptable(d) == d = "fifo"

(* It also registers the stack of the calling thread. *)
ls_linux_signal_configure(t, d) ==
    /\ Running
    /\ handler[t] = "out" /\ pc = "idle"
    /\ ~installed
    /\ Acceptable(d)
    /\ descriptor' = d
    /\ alternate' = alternate \cup {t}
    /\ UNCHANGED <<installed, action, setup, process>>

Installable(t) == ~installed /\ descriptor # "none" /\ t \in alternate

StartInstall(t) ==
    /\ Running
    /\ handler[t] = "out" /\ pc = "idle" /\ calls < MaxCalls
    /\ Installable(t)
    /\ pc' = "installing"
    /\ next' = 1
    /\ calls' = calls + 1
    /\ UNCHANGED <<config, action, previous, original, process>>

InstallNext ==
    /\ Running
    /\ pc = "installing" /\ next <= Signals
    /\ previous' = [previous EXCEPT ![next] = action[next]]
    /\ action' = [action EXCEPT ![next] = "ours"]
    /\ next' = next + 1
    /\ UNCHANGED <<config, original, pc, calls, process>>

LastRolledBack == 1

(* sigaction fails: the signals before this one are restored. *)
InstallFails ==
    /\ Running
    /\ pc = "installing" /\ next <= Signals
    /\ pc' = "rollingBack"
    /\ UNCHANGED <<config, action, previous, original, next, calls, process>>

RollBackNext ==
    /\ Running
    /\ pc = "rollingBack"
    /\ IF next > LastRolledBack
       THEN /\ action' = [action EXCEPT ![next - 1] = previous[next - 1]]
            /\ next' = next - 1
            /\ UNCHANGED pc
       ELSE pc' = "idle" /\ next' = 1 /\ UNCHANGED action
    /\ UNCHANGED <<config, previous, original, calls, process>>

Installed ==
    /\ Running
    /\ pc = "installing" /\ next > Signals
    /\ installed' = TRUE
    /\ pc' = "idle"
    /\ next' = 1
    /\ UNCHANGED <<descriptor, alternate, action, previous, original, calls, process>>

StartUninstall ==
    /\ Running
    /\ pc = "idle" /\ installed /\ calls < MaxCalls
    /\ pc' = "uninstalling"
    /\ calls' = calls + 1
    /\ UNCHANGED <<config, action, previous, original, next, process>>

UninstallNext ==
    /\ Running
    /\ pc = "uninstalling"
    /\ IF next <= Signals
       THEN /\ action' = [action EXCEPT ![next] = previous[next]]
            /\ next' = next + 1
            /\ UNCHANGED <<installed, pc>>
       ELSE /\ installed' = FALSE
            /\ pc' = "idle"
            /\ next' = 1
            /\ UNCHANGED action
    /\ UNCHANGED <<descriptor, alternate, previous, original, calls, process>>

-----------------------------------------------------------------------------
(* The kernel: a handler needs a stack, and SA_RESETHAND gives the signal   *)
(* its default action, for all threads, when the handler is entered.        *)
Fault(t, s, overflow) ==
    /\ Running
    /\ handler[t] = "out"
    /\ overflow => MayOverflow
    /\ ByContract => pc = "idle" /\ t \in alternate
    /\ IF action[s] = "ours" /\ (overflow => t \in alternate)
       THEN /\ handler' = [handler EXCEPT ![t] = "entered"]
            /\ action' = [action EXCEPT ![s] = "default"]
            /\ covered' = (covered \/ (installed /\ t \in alternate))
            /\ UNCHANGED status
       ELSE /\ status' = "killed"
            /\ covered' = (covered \/ (installed /\ pc = "idle" /\ t \in alternate))
            /\ UNCHANGED <<handler, action>>
    /\ UNCHANGED <<config, setup, pipe>>

(* What one write leaves in the pipe.  A nonblocking pipe takes all or      *)
(* nothing, another pipe only takes it when there is room, and a file or a  *)
(* socket perhaps a part.                                                   *)
Written ==
    LET whole == Append(pipe, "whole")
        room == Len(pipe) < PipeCapacity
    IN  CASE descriptor = "none" -> {pipe}
          [] descriptor = "fifo" -> IF room THEN {whole} ELSE {pipe}
          [] descriptor = "blocking" -> IF room THEN {whole} ELSE {}
          [] OTHER -> {whole, Append(pipe, "part")}

Write(t) ==
    /\ Running
    /\ handler[t] = "entered"
    /\ handler' = [handler EXCEPT ![t] = "written"]
    /\ pipe' \in Written
    /\ UNCHANGED <<config, action, setup, status, covered>>

Exit(t) ==
    /\ Running
    /\ handler[t] = "written"
    /\ status' = "exited"
    /\ UNCHANGED <<config, action, setup, handler, pipe, covered>>

SetupStep == InstallNext \/ RollBackNext \/ Installed \/ UninstallNext

HandlerStep(t) == Write(t) \/ Exit(t)

Next == \/ \E t \in Thread : \/ ls_linux_signal_register_alt_stack(t) \/ StartInstall(t) \/ HandlerStep(t)
                             \/ \E d \in Descriptor : ls_linux_signal_configure(t, d)
                             \/ \E s \in Signal, o \in BOOLEAN : Fault(t, s, o)
        \/ SetupStep \/ InstallFails \/ StartUninstall

Spec == Init /\ [][Next]_vars

-----------------------------------------------------------------------------
TypeOK ==
    /\ descriptor \in Descriptor \cup {"none"}
    /\ action \in [Signal -> {"default", "application", "ours"}]
    /\ previous \in [Signal -> {"default", "application"}]
    /\ next \in 1..(Signals + 1)
    /\ handler \in [Thread -> {"out", "entered", "written"}]
    /\ status \in {"running", "exited", "killed"}

(* A reader of the pipe never sees a part of a record, whatever the number  *)
(* of threads in the handler: the descriptor is known to be a pipe and a    *)
(* record is smaller than PIPE_BUF.                                         *)
WholeRecords == \A i \in DOMAIN pipe : pipe[i] = "whole"

(* Outside install and uninstall, handlers are in place for all signals or  *)
(* for none: an installation that failed half way, or was undone, leaves no *)
(* handler of this library behind and gives every signal back to the        *)
(* application.                                                             *)
AllOrNone ==
    Running /\ pc = "idle" /\ (\A t \in Thread : handler[t] = "out") =>
       \A s \in Signal : action[s] = IF installed THEN "ours" ELSE original[s]

(* A process that ends by a handled signal leaves a record in the pipe, if  *)
(* the thread has its alternate stack and nobody has filled the pipe.       *)
FaultRecorded == ~Running /\ covered => pipe # <<>>
=============================================================================
